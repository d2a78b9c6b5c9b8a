--------------------------- MODULE DeviceList_proofs ---------------------------
(***************************************************************************)
(* Facts about the list of devices that hold for every size of a key, every *)
(* list and every file: what writeDeviceItems puts into lumint.conf is what *)
(* readDeviceItems finds there, and every handler keeps RegisterPage's rows *)
(* and the list together.                                                  *)
(*                                                                         *)
(* FlattenSeq is a recursive function, so the first part is proved by      *)
(* induction.  Inductive states the principle for a set of numbers instead *)
(* of a predicate, which the provers can instantiate.                      *)
(***************************************************************************)
EXTENDS DeviceList, SequenceTheorems, WellFoundedInduction, TLAPS

\* A whole key.
Key == [1 .. KeySize -> Char]

-----------------------------------------------------------------------------
(* Induction over the naturals.                                            *)

Lower == {ss \in Nat \X Nat : ss[1] < ss[2]}

\* The order of the naturals, as a relation, is well-founded.
LEMMA LowerWellFounded == IsWellFoundedOn(Lower, Nat)
<1>1. Lower = OpToRel(<, Nat) BY Zenon DEF Lower, OpToRel
<1> QED BY <1>1, NatLessThanWellFounded

\* A set that has 0, and with a number the next, has them all.
LEMMA Inductive ==
  ASSUME NEW T, T \subseteq Nat, 0 \in T, \A n \in T : n + 1 \in T
  PROVE  T = Nat
<1> DEFINE Rest == Nat \ T
<1>1. SUFFICES ASSUME Rest # {} PROVE FALSE OBVIOUS
<1>2. PICK x \in Rest : \A y \in Rest : ~ (<<y, x>> \in Lower)
  BY <1>1, LowerWellFounded, WFMin
<1>3. x \in Nat \ {0} /\ x - 1 \in Nat BY SMT
<1>4. x - 1 \in Rest BY <1>3
<1>5. <<x - 1, x>> \in Lower
  <2> DEFINE e == <<x - 1, x>>
  <2>1. e \in Nat \X Nat /\ e[1] = x - 1 /\ e[2] = x BY <1>3
  <2>2. e[1] < e[2] BY <2>1, <1>3
  <2> HIDE DEF e
  <2>3. e \in Lower BY <2>1, <2>2 DEF Lower
  <2> QED BY <2>3 DEF e
<1> QED BY <1>2, <1>4, <1>5

-----------------------------------------------------------------------------
(* What writeDeviceItems writes.                                           *)

\* The function FlattenSeq chooses.
Concatenates(f, s) ==
  f = [i \in 1 .. Len(s) |-> IF i = 1 THEN s[i] ELSE f[i - 1] \o s[i]]

\* The partial concatenations of a sequence of strings exist.
LEMMA ConcatenatesExists ==
  ASSUME NEW s \in Seq(Seq(Char))
  PROVE  \E f : Concatenates(f, s)
<1> DEFINE Upto(n, f) ==
             \A i \in 1 .. n : f[i] = IF i = 1 THEN s[i] ELSE f[i - 1] \o s[i]
           Done == {n \in Nat : n <= Len(s) => \E f \in [1 .. n -> Seq(Char)] : Upto(n, f)}
<1>1. Len(s) \in Nat /\ \A i \in 1 .. Len(s) : s[i] \in Seq(Char) OBVIOUS
<1>2. 0 \in Done
  <2> DEFINE none == [i \in 1 .. 0 |-> <<>>]
  <2>1. none \in [1 .. 0 -> Seq(Char)] /\ Upto(0, none) OBVIOUS
  <2> HIDE DEF none, Upto
  <2> QED BY <2>1
<1>3. ASSUME NEW n \in Done PROVE n + 1 \in Done
  <2> HIDE DEF Upto
  <2>1. n \in Nat /\ (n <= Len(s) => \E f \in [1 .. n -> Seq(Char)] : Upto(n, f))
    OBVIOUS
  <2>2. SUFFICES ASSUME n + 1 <= Len(s)
                 PROVE  \E f \in [1 .. n + 1 -> Seq(Char)] : Upto(n + 1, f)
    BY <2>1
  <2>3. PICK f \in [1 .. n -> Seq(Char)] : Upto(n, f) BY <2>1, <2>2, <1>1
  <2> DEFINE last == IF n = 0 THEN s[1] ELSE f[n] \o s[n + 1]
             more == [i \in 1 .. n + 1 |-> IF i = n + 1 THEN last ELSE f[i]]
  <2>4. last \in Seq(Char)
    <3>1. CASE n = 0 BY <3>1, <1>1, <2>2
    <3>2. CASE n # 0
      <4>1. f[n] \in Seq(Char) /\ s[n + 1] \in Seq(Char) BY <3>2, <1>1, <2>1, <2>2
      <4> QED BY <4>1, <3>2, ConcatProperties
    <3> QED BY <3>1, <3>2
  <2> HIDE DEF last
  <2>5. more \in [1 .. n + 1 -> Seq(Char)] BY <2>1, <2>4
  <2>6. Upto(n + 1, more)
    <3> SUFFICES ASSUME NEW i \in 1 .. n + 1
                 PROVE  more[i] = IF i = 1 THEN s[i] ELSE more[i - 1] \o s[i]
      BY DEF Upto
    <3>1. CASE i = n + 1 BY <3>1, <2>1 DEF last
    <3>2. CASE i # n + 1
      <4>1. i \in 1 .. n /\ more[i] = f[i] BY <3>2, <2>1
      <4>2. i # 1 => more[i - 1] = f[i - 1] BY <4>1, <2>1
      <4>3. f[i] = IF i = 1 THEN s[i] ELSE f[i - 1] \o s[i] BY <4>1, <2>3 DEF Upto
      <4> QED BY <4>1, <4>2, <4>3
    <3> QED BY <3>1, <3>2
  <2> HIDE DEF more
  <2> QED BY <2>5, <2>6
<1>4. Len(s) \in Done
  <2> HIDE DEF Done
  <2>1. Done \subseteq Nat BY DEF Done
  <2> QED BY <1>1, <1>2, <1>3, <2>1, Inductive
<1>5. PICK f \in [1 .. Len(s) -> Seq(Char)] : Upto(Len(s), f) BY <1>4, <1>1
<1>6. Concatenates(f, s) BY <1>5 DEF Concatenates
<1> QED BY <1>6

\* FlattenSeq is the last of them, as its recursion says.
LEMMA FlattenConcatenates ==
  ASSUME NEW s \in Seq(Seq(Char)), s # <<>>
  PROVE  \E f : Concatenates(f, s) /\ FlattenSeq(s) = f[Len(s)]
<1> DEFINE f == CHOOSE g : Concatenates(g, s)
<1>1. Concatenates(f, s) BY ConcatenatesExists, Zenon
<1>2. Len(s) # 0 BY EmptySeq
<1>3. FlattenSeq(s) = f[Len(s)] BY <1>2 DEF FlattenSeq, Concatenates
<1> QED BY <1>1, <1>3

\* A file that holds the keys of s one after another.
Holds(file, s) ==
  /\ file \in Seq(Char)
  /\ Len(file) = Len(s) * KeySize
  /\ \A i \in 1 .. Len(s) : \A j \in 1 .. KeySize :
       file[(i - 1) * KeySize + j] = s[i][j]

\* What the lemmas need of the constants.
LEMMA Size == KeySize \in Nat \ {0} /\ NoConf \notin Seq(Char)
BY DeviceListAssumption

\* Places in a file of n keys.
LEMMA Places ==
  ASSUME NEW n \in Nat, NEW i \in 1 .. n, NEW j \in 1 .. KeySize
  PROVE  /\ (i - 1) * KeySize + j \in 1 .. n * KeySize
         /\ i * KeySize <= n * KeySize
         /\ (i - 1) * KeySize = i * KeySize - KeySize
<1>1. KeySize \in Nat \ {0} BY Size
<1>2. (i - 1) * KeySize = i * KeySize - KeySize BY <1>1
<1>3. i * KeySize <= n * KeySize BY <1>1
<1>4. i * KeySize \in Nat /\ n * KeySize \in Nat /\ (i - 1) * KeySize \in Nat BY <1>1
<1> QED BY <1>1, <1>2, <1>3, <1>4

\* The empty file holds no keys.
LEMMA HoldsNone == Holds(<<>>, <<>>)
BY Size DEF Holds

\* A file that is one key holds it.
LEMMA HoldsOne ==
  ASSUME NEW k \in Key
  PROVE  Holds(k, <<k>>)
<1>1. KeySize \in Nat \ {0} BY Size
<1>2. k \in Seq(Char) /\ Len(k) = KeySize BY <1>1 DEF Key
<1> QED BY <1>1, <1>2 DEF Holds

\* Two files, one after the other, hold the keys of both.
LEMMA HoldsBoth ==
  ASSUME NEW s \in Seq(Key), NEW t \in Seq(Key), NEW c, NEW d,
         Holds(c, s), Holds(d, t)
  PROVE  Holds(c \o d, s \o t)
<1>1. KeySize \in Nat \ {0} BY Size
<1> DEFINE m == Len(s)
           n == Len(t)
<1>2. m \in Nat /\ n \in Nat OBVIOUS
<1>3. c \in Seq(Char) /\ Len(c) = m * KeySize BY DEF Holds
<1>4. d \in Seq(Char) /\ Len(d) = n * KeySize BY DEF Holds
<1>5. /\ c \o d \in Seq(Char)
      /\ Len(c \o d) = Len(c) + Len(d)
      /\ \A i \in 1 .. Len(c) + Len(d) :
           (c \o d)[i] = IF i <= Len(c) THEN c[i] ELSE d[i - Len(c)]
  BY <1>3, <1>4, ConcatProperties
<1>6. /\ Len(s \o t) = m + n
      /\ \A i \in 1 .. m + n : (s \o t)[i] = IF i <= m THEN s[i] ELSE t[i - m]
  BY ConcatProperties
<1>7. m * KeySize + n * KeySize = (m + n) * KeySize BY <1>1, <1>2
<1>8. ASSUME NEW i \in 1 .. m + n, NEW j \in 1 .. KeySize
      PROVE  (c \o d)[(i - 1) * KeySize + j] = (s \o t)[i][j]
  <2> DEFINE place == (i - 1) * KeySize + j
  <2>1. place \in 1 .. (m + n) * KeySize BY <1>2, Places
  <2>2. place \in 1 .. Len(c) + Len(d) BY <2>1, <1>3, <1>4, <1>7
  <2>3. CASE i <= m
    <3>1. i \in 1 .. m BY <2>3, <1>2
    <3>2. place \in 1 .. m * KeySize BY <3>1, <1>2, Places
    <3>3. c[place] = s[i][j] BY <3>1 DEF Holds
    <3> HIDE DEF place
    <3>4. (c \o d)[place] = c[place] BY <3>2, <2>2, <1>5, <1>3
    <3> QED BY <3>3, <3>4, <1>6, <3>1, <1>2 DEF place
  <2>4. CASE i > m
    <3>1. i - m \in 1 .. n BY <2>4, <1>2
    <3> DEFINE rest == (i - m - 1) * KeySize + j
    <3>2. d[rest] = t[i - m][j] BY <3>1 DEF Holds
    <3>3. rest \in 1 .. n * KeySize BY <3>1, <1>2, Places
    <3>4. place = m * KeySize + rest
      <4>1. (i - 1) * KeySize = m * KeySize + (i - m - 1) * KeySize BY <1>1, <1>2
      <4> QED BY <4>1, <1>1, <1>2
    <3>5. m * KeySize \in Nat BY <1>1, <1>2
    <3> HIDE DEF place, rest
    <3>6. place - Len(c) = rest /\ ~ (place <= Len(c)) BY <3>3, <3>4, <3>5, <1>3
    <3>7. (c \o d)[place] = d[rest] BY <3>6, <2>2, <1>5
    <3>8. (s \o t)[i] = t[i - m] BY <1>6, <2>4, <1>2
    <3> QED BY <3>2, <3>7, <3>8 DEF place
  <2>5. i <= m \/ i > m BY <1>2
  <2> QED BY <2>3, <2>4, <2>5
<1> QED BY <1>3, <1>4, <1>5, <1>6, <1>7, <1>8 DEF Holds

\* What writeDeviceItems writes of the list holds its keys.
LEMMA FlattenHolds ==
  ASSUME NEW s \in Seq(Key)
  PROVE  Holds(FlattenSeq(s), s)
<1>1. KeySize \in Nat \ {0} BY Size
<1>2. CASE s = <<>>
  <2>1. FlattenSeq(s) = <<>> BY <1>2 DEF FlattenSeq
  <2> QED BY <2>1, <1>2, HoldsNone
<1>3. CASE s # <<>>
  <2>1. Key \subseteq Seq(Char) BY <1>1 DEF Key
  <2>2. s \in Seq(Seq(Char)) BY <2>1, SeqMonotonic
  <2>3. PICK f : Concatenates(f, s) /\ FlattenSeq(s) = f[Len(s)]
    BY <2>2, <1>3, FlattenConcatenates
  <2> DEFINE Good(n) == Holds(f[n], SubSeq(s, 1, n))
             Done == {n \in Nat : n \in 1 .. Len(s) => Good(n)}
  <2>4. Len(s) \in Nat \ {0} BY <1>3, EmptySeq
  <2>5. \A i \in 1 .. Len(s) : s[i] \in Key OBVIOUS
  <2> HIDE DEF Good
  <2>6. 0 \in Done OBVIOUS
  <2>7. ASSUME NEW n \in Done PROVE n + 1 \in Done
    <3>1. n \in Nat /\ (n \in 1 .. Len(s) => Good(n)) OBVIOUS
    <3>2. SUFFICES ASSUME n + 1 \in 1 .. Len(s) PROVE Good(n + 1) BY <3>1
    <3>3. s[n + 1] \in Key /\ Holds(s[n + 1], <<s[n + 1]>>) BY <2>5, <3>2, HoldsOne
    <3>4. f[n + 1] = IF n = 0 THEN s[n + 1] ELSE f[n] \o s[n + 1]
      <4>1. \A i \in 1 .. Len(s) : f[i] = IF i = 1 THEN s[i] ELSE f[i - 1] \o s[i]
        BY <2>3 DEF Concatenates
      <4>2. f[n + 1] = IF n + 1 = 1 THEN s[n + 1] ELSE f[n + 1 - 1] \o s[n + 1]
        BY <4>1, <3>2
      <4>3. n + 1 - 1 = n /\ (n + 1 = 1 <=> n = 0) BY <3>1
      <4> QED BY <4>2, <4>3
    <3>5. CASE n = 0
      <4>1. SubSeq(s, 1, 1) = <<s[1]>> \o SubSeq(s, 2, 1)
        BY <2>4, SubSeqRecursiveFirst, 1 \in 1 .. Len(s), 1 \in 1 .. 1, 1 + 1 = 2
      <4>2. SubSeq(s, 2, 1) = <<>> BY SubSeqEmpty
      <4>3. <<s[1]>> \in Seq(Key) BY <3>3, <3>5
      <4>4. <<s[1]>> \o <<>> = <<s[1]>> BY <4>3, ConcatEmptySeq
      <4>5. n + 1 = 1 BY <3>5
      <4>6. SubSeq(s, 1, n + 1) = <<s[n + 1]>> BY <4>1, <4>2, <4>4, <4>5, Zenon
      <4> QED BY <4>6, <3>3, <3>4, <3>5 DEF Good
    <3>6. CASE n # 0
      <4>1. Good(n) BY <3>1, <3>2, <3>6
      <4>2. SubSeq(s, 1, n + 1) = SubSeq(s, 1, n) \o <<s[n + 1]>>
        BY <3>1, <3>2, <3>6, SubSeqRecursiveSecond
      <4>3. SubSeq(s, 1, n) \in Seq(Key)
        <5>1. \A i \in 1 .. n : s[i] \in Key BY <2>5, <3>1, <3>2
        <5>2. n \in Int /\ 1 \in Int BY <3>1
        <5> QED BY <5>1, <5>2, SubSeqProperties
      <4>4. <<s[n + 1]>> \in Seq(Key) BY <3>3
      <4>5. Holds(f[n] \o s[n + 1], SubSeq(s, 1, n) \o <<s[n + 1]>>)
        BY <4>1, <4>3, <4>4, <3>3, HoldsBoth DEF Good
      <4>6. f[n + 1] = f[n] \o s[n + 1] BY <3>4, <3>6
      <4> QED BY <4>2, <4>5, <4>6 DEF Good
    <3> QED BY <3>5, <3>6
  <2>8. Len(s) \in Done
    <3> HIDE DEF Done
    <3>1. Done \subseteq Nat BY DEF Done
    <3> QED BY <2>4, <2>6, <2>7, <3>1, Inductive
  <2>9. Good(Len(s)) BY <2>4, <2>8
  <2>10. SubSeq(s, 1, Len(s)) = s BY SubSeqFull
  <2> QED BY <2>3, <2>9, <2>10 DEF Good
<1> QED BY <1>2, <1>3

-----------------------------------------------------------------------------
(* What readDeviceItems reads.                                             *)

\* Keys that agree in every character are one key.
LEMMA SameKey ==
  ASSUME NEW k \in Key, NEW l \in Key, \A j \in 1 .. KeySize : k[j] = l[j]
  PROVE  k = l
<1>1. k = [j \in 1 .. KeySize |-> k[j]] /\ l = [j \in 1 .. KeySize |-> l[j]] BY DEF Key
<1>2. [j \in 1 .. KeySize |-> k[j]] = [j \in 1 .. KeySize |-> l[j]] OBVIOUS
<1> QED BY <1>1, <1>2, Zenon

\* The lesser of two numbers.
LEMMA MinOfTwo ==
  ASSUME NEW m \in Int, NEW n \in Int, m <= n
  PROVE  Min({m, n}) = m
<1>1. \A x \in {m, n} : (\A y \in {m, n} : x <= y) => x = m OBVIOUS
<1>2. m \in {m, n} /\ \A y \in {m, n} : m <= y OBVIOUS
<1> QED BY <1>1, <1>2 DEF Min

\* A file of n whole keys is cut into n pieces.
LEMMA WholePieces ==
  ASSUME NEW n \in Nat
  PROVE  (n * KeySize + KeySize - 1) \div KeySize = n
<1>1. KeySize \in Nat \ {0} BY Size
<1> QED BY <1>1

\* A file is read as the keys it holds.
LEMMA LinesOfKeys ==
  ASSUME NEW s \in Seq(Key), NEW file, Holds(file, s)
  PROVE  Lines(file) = s
<1>1. KeySize \in Nat \ {0} BY Size
<1> DEFINE n == Len(s)
<1>2. n \in Nat /\ s \in [1 .. n -> Key] OBVIOUS
<1>3. file \in Seq(Char) /\ Len(file) = n * KeySize BY DEF Holds
<1>4. (Len(file) + KeySize - 1) \div KeySize = n BY <1>2, <1>3, WholePieces
<1>5. ASSUME NEW i \in 1 .. n
      PROVE  SubSeq(file, (i - 1) * KeySize + 1, Min({i * KeySize, Len(file)})) = s[i]
  <2> DEFINE from == (i - 1) * KeySize + 1
             to == i * KeySize
             piece == SubSeq(file, from, to)
  <2>1. /\ to \in Nat /\ n * KeySize \in Nat /\ from \in Nat
        /\ to <= n * KeySize /\ from = to - KeySize + 1
    <3>1. (i - 1) * KeySize = i * KeySize - KeySize /\ i * KeySize <= n * KeySize
      BY <1>1, <1>2, Places
    <3>2. i * KeySize \in Nat /\ n * KeySize \in Nat /\ (i - 1) * KeySize \in Nat
      BY <1>1, <1>2
    <3> HIDE DEF n
    <3> QED BY <3>1, <3>2, <1>1
  <2>2. Min({to, Len(file)}) = to
    <3> HIDE DEF to, n
    <3> QED BY <2>1, <1>3, MinOfTwo
  <2>3. s[i] \in Key BY <1>2
  <2>4. \A j \in 1 .. KeySize : file[from - 1 + j] = s[i][j]
    <3>1. from - 1 = (i - 1) * KeySize BY <1>1, <1>2
    <3> HIDE DEF from
    <3> QED BY <3>1 DEF Holds
  <2> HIDE DEF from, to
  <2>5. \A j \in from .. to : file[j] \in Char
    <3> SUFFICES ASSUME NEW j \in from .. to PROVE file[j] \in Char OBVIOUS
    <3>1. j - from + 1 \in 1 .. KeySize /\ from - 1 + (j - from + 1) = j BY <2>1, <1>1
    <3>2. file[j] = s[i][j - from + 1] BY <3>1, <2>4
    <3> QED BY <3>1, <3>2, <2>3 DEF Key
  <2>6. /\ piece \in Seq(Char)
        /\ Len(piece) = KeySize
        /\ \A j \in 1 .. KeySize : piece[j] = file[from - 1 + j]
    <3>1. /\ piece \in Seq(Char)
          /\ Len(piece) = IF from <= to THEN to - from + 1 ELSE 0
          /\ \A j \in 1 .. to - from + 1 : piece[j] = file[from + j - 1]
      BY <2>1, <2>5, SubSeqProperties
    <3>2. to - from + 1 = KeySize /\ from <= to BY <2>1, <1>1
    <3>3. \A j \in 1 .. KeySize : from + j - 1 = from - 1 + j BY <2>1, <1>1
    <3> HIDE DEF piece
    <3> QED BY <3>1, <3>2, <3>3
  <2>7. piece = s[i]
    <3> HIDE DEF piece
    <3>1. piece \in Key BY <2>6 DEF Key
    <3>2. \A j \in 1 .. KeySize : piece[j] = s[i][j] BY <2>6, <2>4
    <3> QED BY <3>1, <3>2, <2>3, SameKey
  <2> QED BY <2>2, <2>7 DEF from, to
<1> HIDE DEF n
<1>6. Lines(file) = [i \in 1 .. n |->
                       SubSeq(file, (i - 1) * KeySize + 1, Min({i * KeySize, Len(file)}))]
  BY <1>4 DEF Lines
<1>7. Lines(file) = [i \in 1 .. n |-> s[i]] BY <1>5, <1>6
<1> QED BY <1>2, <1>7

-----------------------------------------------------------------------------
(* Operators of the list.                                                  *)

\* A set of naturals has its least element.
LEMMA MinIsLeast ==
  ASSUME NEW T, T \subseteq Nat, T # {}
  PROVE  Min(T) \in T
<1>1. PICK x \in T : \A y \in T : ~ (<<y, x>> \in Lower)
  BY LowerWellFounded, WFMin
<1>2. ASSUME NEW y \in T PROVE x <= y
  <2>1. x \in Nat /\ y \in Nat OBVIOUS
  <2>2. SUFFICES ASSUME y < x PROVE FALSE BY <2>1
  <2> DEFINE e == <<y, x>>
  <2>3. e \in Nat \X Nat /\ e[1] = y /\ e[2] = x BY <2>1
  <2>4. e[1] < e[2] BY <2>2, <2>3
  <2> HIDE DEF e
  <2>5. e \in Lower BY <2>3, <2>4 DEF Lower
  <2> QED BY <1>1, <2>5 DEF e
<1> QED BY <1>2 DEF Min

\* A whole key is a text of the right length.
LEMMA KeyIsText ==
  /\ Key \subseteq Text
  /\ \A k \in Text : Len(k) = KeySize => k \in Key
  /\ \A k \in Key : Len(k) = KeySize /\ k # <<>>
  /\ <<>> \in Text
<1>1. KeySize \in Nat \ {0} BY Size
<1>2. Text = UNION {[1 .. m -> Char] : m \in 0 .. KeySize}
  BY DEF Text, BoundedSeq, SeqOf
<1>3. Key \subseteq Text
  <2>1. KeySize \in 0 .. KeySize BY <1>1
  <2> QED BY <2>1, <1>2 DEF Key
<1>4. ASSUME NEW k \in Text, Len(k) = KeySize PROVE k \in Key
  <2>1. PICK m \in 0 .. KeySize : k \in [1 .. m -> Char] BY <1>2
  <2>2. m \in Nat BY <1>1
  <2>3. Len(k) = m BY <2>1, <2>2
  <2> QED BY <2>1, <2>3, <1>4 DEF Key
<1>5. ASSUME NEW k \in Key PROVE Len(k) = KeySize /\ k # <<>>
  <2>1. Len(k) = KeySize BY <1>1 DEF Key
  <2> QED BY <2>1, <1>1
<1>6. <<>> \in Text
  <2>1. 0 \in 0 .. KeySize BY <1>1
  <2>2. <<>> \in [1 .. 0 -> Char] OBVIOUS
  <2> QED BY <2>1, <2>2, <1>2
<1> QED BY <1>3, <1>4, <1>5, <1>6

\* What RemoveAt keeps, and where it moves it.
LEMMA RemoveAtProperties ==
  ASSUME NEW S, NEW s \in Seq(S), NEW i \in 1 .. Len(s)
  PROVE  /\ RemoveAt(s, i) \in Seq(S)
         /\ Len(RemoveAt(s, i)) = Len(s) - 1
         /\ \A j \in 1 .. Len(s) - 1 :
              RemoveAt(s, i)[j] = IF j < i THEN s[j] ELSE s[j + 1]
<1>1. Len(s) \in Nat /\ i \in Nat /\ \A j \in 1 .. Len(s) : s[j] \in S OBVIOUS
<1> DEFINE front == SubSeq(s, 1, i - 1)
           back == SubSeq(s, i + 1, Len(s))
<1>2. /\ front \in Seq(S) /\ Len(front) = i - 1
      /\ \A j \in 1 .. i - 1 : front[j] = s[j]
  <2>1. \A j \in 1 .. i - 1 : s[j] \in S BY <1>1
  <2>2. i - 1 \in Int /\ 1 \in Int BY <1>1
  <2>3. /\ front \in Seq(S)
        /\ Len(front) = IF 1 <= i - 1 THEN (i - 1) - 1 + 1 ELSE 0
        /\ \A j \in 1 .. (i - 1) - 1 + 1 : front[j] = s[1 + j - 1]
    BY <2>1, <2>2, SubSeqProperties
  <2> HIDE DEF front
  <2> QED BY <2>3, <1>1
<1>3. /\ back \in Seq(S) /\ Len(back) = Len(s) - i
      /\ \A j \in 1 .. Len(s) - i : back[j] = s[i + j]
  <2>1. \A j \in i + 1 .. Len(s) : s[j] \in S BY <1>1
  <2>2. i + 1 \in Int /\ Len(s) \in Int BY <1>1
  <2>3. /\ back \in Seq(S)
        /\ Len(back) = IF i + 1 <= Len(s) THEN Len(s) - (i + 1) + 1 ELSE 0
        /\ \A j \in 1 .. Len(s) - (i + 1) + 1 : back[j] = s[(i + 1) + j - 1]
    BY <2>1, <2>2, SubSeqProperties
  <2> HIDE DEF back
  <2>4. Len(s) - (i + 1) + 1 = Len(s) - i BY <1>1
  <2>5. \A j \in 1 .. Len(s) - i : (i + 1) + j - 1 = i + j BY <1>1
  <2>6. Len(back) = Len(s) - i
    <3>1. i + 1 <= Len(s) \/ Len(s) - i = 0 BY <1>1
    <3> QED BY <3>1, <2>3, <2>4, <1>1
  <2>7. ASSUME NEW j \in 1 .. Len(s) - i PROVE back[j] = s[i + j]
    <3>1. back[j] = s[(i + 1) + j - 1] BY <2>3, <2>4
    <3> QED BY <3>1, <2>5
  <2> QED BY <2>3, <2>6, <2>7
<1> HIDE DEF front, back
<1>4. /\ front \o back \in Seq(S)
      /\ Len(front \o back) = Len(front) + Len(back)
      /\ \A j \in 1 .. Len(front) + Len(back) :
           (front \o back)[j] = IF j <= Len(front) THEN front[j] ELSE back[j - Len(front)]
  BY <1>2, <1>3, ConcatProperties
<1>5. RemoveAt(s, i) = front \o back BY DEF RemoveAt, front, back
<1>6. Len(front) + Len(back) = Len(s) - 1 BY <1>1, <1>2, <1>3
<1>7. ASSUME NEW j \in 1 .. Len(s) - 1
      PROVE  (front \o back)[j] = IF j < i THEN s[j] ELSE s[j + 1]
  <2>1. CASE j < i
    <3>1. j \in 1 .. i - 1 /\ j <= Len(front) BY <2>1, <1>1, <1>2
    <3> QED BY <3>1, <2>1, <1>2, <1>4, <1>6
  <2>2. CASE ~ (j < i)
    <3>1. /\ j - Len(front) \in 1 .. Len(s) - i /\ ~ (j <= Len(front))
          /\ i + (j - Len(front)) = j + 1
      BY <2>2, <1>1, <1>2
    <3>2. back[j - Len(front)] = s[j + 1] BY <3>1, <1>3
    <3> QED BY <3>1, <3>2, <2>2, <1>4, <1>6
  <2> QED BY <2>1, <2>2
<1> QED BY <1>4, <1>5, <1>6, <1>7

\* What a row can hold is a string.
LEMMA TextIsSeq == Text \subseteq Seq(Char)
<1>1. KeySize \in Nat \ {0} BY Size
<1>2. Text = UNION {[1 .. m -> Char] : m \in 0 .. KeySize}
  BY DEF Text, BoundedSeq, SeqOf
<1>3. ASSUME NEW k \in Text PROVE k \in Seq(Char)
  <2>1. PICK m \in 0 .. KeySize : k \in [1 .. m -> Char] BY <1>2
  <2>2. m \in Nat BY <1>1
  <2> QED BY <2>1, <2>2
<1> QED BY <1>3

\* A row put below the first.
LEMMA InsertSecond ==
  ASSUME NEW S, NEW s \in Seq(S), Len(s) # 0, NEW e \in S
  PROVE  /\ InsertAt(s, 2, e) \in Seq(S)
         /\ Len(InsertAt(s, 2, e)) = Len(s) + 1
         /\ InsertAt(s, 2, e)[1] = s[1]
         /\ InsertAt(s, 2, e)[2] = e
         /\ \A i \in 3 .. Len(s) + 1 : InsertAt(s, 2, e)[i] = s[i - 1]
<1>1. Len(s) \in Nat /\ Len(s) >= 1 /\ \A j \in 1 .. Len(s) : s[j] \in S OBVIOUS
<1> DEFINE front == SubSeq(s, 1, 1)
           back == SubSeq(s, 2, Len(s))
<1>2. front \in Seq(S) /\ Len(front) = 1 /\ front[1] = s[1]
  <2>1. \A j \in 1 .. 1 : s[j] \in S BY <1>1
  <2> QED BY <2>1, SubSeqProperties
<1>3. /\ back \in Seq(S) /\ Len(back) = Len(s) - 1
      /\ \A j \in 1 .. Len(s) - 1 : back[j] = s[j + 1]
  <2>1. \A j \in 2 .. Len(s) : s[j] \in S BY <1>1
  <2>2. /\ back \in Seq(S)
        /\ Len(back) = IF 2 <= Len(s) THEN Len(s) - 2 + 1 ELSE 0
        /\ \A j \in 1 .. Len(s) - 2 + 1 : back[j] = s[2 + j - 1]
    BY <2>1, <1>1, SubSeqProperties
  <2> HIDE DEF back
  <2>3. Len(s) - 2 + 1 = Len(s) - 1 BY <1>1
  <2>4. Len(back) = Len(s) - 1
    <3>1. \A n \in Nat : n >= 1 => (IF 2 <= n THEN n - 2 + 1 ELSE 0) = n - 1 OBVIOUS
    <3>2. (IF 2 <= Len(s) THEN Len(s) - 2 + 1 ELSE 0) = Len(s) - 1
      <4>1. Len(s) \in Nat /\ Len(s) >= 1 BY <1>1
      <4> QED BY <3>1, <4>1, Zenon
    <3> QED BY <3>2, <2>2, Zenon
  <2>5. ASSUME NEW j \in 1 .. Len(s) - 1 PROVE back[j] = s[j + 1]
    <3>1. back[j] = s[2 + j - 1] BY <2>2, <2>3
    <3>2. 2 + j - 1 = j + 1 BY <1>1
    <3> QED BY <3>1, <3>2
  <2> QED BY <2>2, <2>4, <2>5
<1> HIDE DEF front, back
<1> DEFINE top == front \o <<e>>
<1>4. top \in Seq(S) /\ Len(top) = 2 /\ top[1] = s[1] /\ top[2] = e
  <2>1. <<e>> \in Seq(S) /\ Len(<<e>>) = 1 /\ <<e>>[1] = e OBVIOUS
  <2>2. /\ top \in Seq(S) /\ Len(top) = Len(front) + Len(<<e>>)
        /\ \A i \in 1 .. Len(front) + Len(<<e>>) :
             top[i] = IF i <= Len(front) THEN front[i] ELSE <<e>>[i - Len(front)]
    BY <2>1, <1>2, ConcatProperties
  <2> HIDE DEF top
  <2> QED BY <2>1, <2>2, <1>2
<1> HIDE DEF top
<1>5. /\ top \o back \in Seq(S)
      /\ Len(top \o back) = Len(top) + Len(back)
      /\ \A i \in 1 .. Len(top) + Len(back) :
           (top \o back)[i] = IF i <= Len(top) THEN top[i] ELSE back[i - Len(top)]
  BY <1>3, <1>4, ConcatProperties
<1>6. InsertAt(s, 2, e) = top \o back
  <2>1. 2 - 1 = 1 OBVIOUS
  <2> QED BY <2>1 DEF InsertAt, top, front, back
<1>7. Len(top) + Len(back) = Len(s) + 1 BY <1>1, <1>3, <1>4
<1>8. (top \o back)[1] = s[1] /\ (top \o back)[2] = e
  <2>1. 1 \in 1 .. Len(s) + 1 /\ 2 \in 1 .. Len(s) + 1 BY <1>1
  <2> QED BY <2>1, <1>4, <1>5, <1>7
<1>9. ASSUME NEW i \in 3 .. Len(s) + 1 PROVE (top \o back)[i] = s[i - 1]
  <2>1. /\ i \in 1 .. Len(s) + 1 /\ ~ (i <= 2)
        /\ i - 2 \in 1 .. Len(s) - 1 /\ (i - 2) + 1 = i - 1
    BY <1>1
  <2>2. (top \o back)[i] = back[i - 2] BY <2>1, <1>4, <1>5, <1>7
  <2>3. back[i - 2] = s[(i - 2) + 1] BY <2>1, <1>3
  <2> QED BY <2>1, <2>2, <2>3
<1> QED BY <1>5, <1>6, <1>7, <1>8, <1>9

-----------------------------------------------------------------------------
(* The invariant of the list.                                              *)

Item == [deviceKey : Text, seq : Nat]

\* Row 1 takes new keys and is the only one without a sequence number; the
\* others hold whole keys.
RowsInv ==
  /\ deviceItems \in Seq(Item)
  /\ deviceItems # <<>>
  /\ deviceItems[1].seq = 0
  /\ \A i \in 2 .. Len(deviceItems) :
       deviceItems[i].seq # 0 /\ deviceItems[i].deviceKey \in Key

ViewInv ==
  /\ view # <<>> => view = deviceItems
  /\ phase \in {"stopped", "closing"} => view = <<>>

\* lumint.conf is missing or consists of whole keys.
FileInv ==
  /\ thisKey \in Key \union {<<>>}
  /\ written \in Seq(Key)
  /\ conf = NoConf \/ \E s \in Seq(Key) : Holds(conf, s)

ListInv ==
  /\ phase \in Phase
  /\ seq \in Nat
  /\ RowsInv
  /\ ViewInv
  /\ FileInv

\* lumint.conf holds this device's key and the list last written, unless it
\* is just being written.
ConfInv ==
  /\ phase \notin {"suspending", "closing"} =>
       IF conf = NoConf THEN phase = "stopped" /\ thisKey = <<>> /\ written = <<>>
       ELSE thisKey \in Key /\ Holds(conf, <<thisKey>> \o written)
  /\ phase \in {"suspending", "closing"} => thisKey \in Key

\* The invariant implies the types and that the page shows the list.
LEMMA ListTyped ==
  ASSUME ListInv
  PROVE  ListTypeOK /\ ViewMirrorsList
<1>1. thisKey \in Text BY KeyIsText DEF ListInv, FileInv
<1>2. written \in Seq(Text)
  <2>1. written \in Seq(Key) /\ Key \subseteq Text BY KeyIsText DEF ListInv, FileInv
  <2> QED BY <2>1, SeqMonotonic
<1>3. view \in Seq(Item)
  <2>1. view = <<>> \/ view = deviceItems BY DEF ListInv, ViewInv
  <2>2. <<>> \in Seq(Item) /\ deviceItems \in Seq(Item) BY DEF ListInv, RowsInv
  <2> QED BY <2>1, <2>2, Zenon
<1>4. conf \in Seq(Char) \union {NoConf} BY DEF ListInv, FileInv, Holds
<1>5. ViewMirrorsList BY DEF ListInv, ViewInv, ViewMirrorsList, Rows
<1> QED BY <1>1, <1>2, <1>3, <1>4, <1>5 DEF ListTypeOK, ListInv, RowsInv, Item

\* The keys of the rows below the first.
LEMMA KeysOfRows ==
  ASSUME NEW rows \in Seq(Item), rows # <<>>,
         \A i \in 2 .. Len(rows) : rows[i].deviceKey \in Key,
         NEW keys, keys = [i \in 1 .. Len(rows) - 1 |-> rows[i + 1].deviceKey]
  PROVE  /\ keys \in Seq(Key)
         /\ Len(keys) = Len(rows) - 1
         /\ \A i \in 1 .. Len(rows) - 1 : keys[i] = rows[i + 1].deviceKey
<1> DEFINE n == Len(rows) - 1
<1>1. n \in Nat BY EmptySeq
<1>2. ASSUME NEW i \in 1 .. n PROVE rows[i + 1].deviceKey \in Key
  <2>1. i + 1 \in 2 .. Len(rows) BY <1>1
  <2> QED BY <2>1
<1>3. keys = [i \in 1 .. n |-> rows[i + 1].deviceKey] OBVIOUS
<1> HIDE DEF n
<1>4. keys \in [1 .. n -> Key] BY <1>2, <1>3
<1>5. keys \in Seq(Key) /\ Len(keys) = n BY <1>1, <1>4
<1> QED BY <1>3, <1>5 DEF n

\* The invariants hold before the first launch.
LEMMA ListInitially == ListInit => ListInv /\ ConfInv
<1> SUFFICES ASSUME ListInit PROVE ListInv /\ ConfInv OBVIOUS
<1>1. RowsInv
  <2>1. NewKeyRow \in Item /\ NewKeyRow.seq = 0 BY KeyIsText DEF NewKeyRow, Item
  <2> QED BY <2>1 DEF ListInit, RowsInv
<1> QED BY <1>1 DEF ListInit, ListInv, ConfInv, ViewInv, FileInv, Phase

\* At start the list is read from lumint.conf: what was written is there, and
\* this device's key is the one it had.
LEMMA LaunchReads ==
  ASSUME ListInv, NEW key \in OwnKey, Launch(key)
  PROVE  /\ ListInv'
         /\ ConfInv => ConfInv' /\ Keys' = written /\ (thisKey # <<>> => thisKey' = thisKey)
<1>1. key \in Key /\ Holds(key, <<key>>) BY DeviceListAssumption, KeyIsText, HoldsOne
<1> DEFINE lines == Lines(conf')
<1>2. /\ lines \in Seq(Key) /\ Holds(conf', lines)
      /\ conf = NoConf => lines = <<key>>
      /\ \A s \in Seq(Key) : conf # NoConf /\ Holds(conf, s) => lines = s
  <2>1. CASE conf = NoConf
    <3>1. conf' = key BY <2>1 DEF Launch
    <3>2. <<key>> \in Seq(Key) BY <1>1
    <3>3. lines = <<key>> BY <3>1, <3>2, <1>1, LinesOfKeys
    <3> QED BY <3>1, <3>2, <3>3, <2>1, <1>1
  <2>2. CASE conf # NoConf
    <3>1. conf' = conf BY <2>2 DEF Launch
    <3>2. PICK s \in Seq(Key) : Holds(conf, s) BY <2>2 DEF ListInv, FileInv
    <3>3. \A t \in Seq(Key) : Holds(conf, t) => lines = t BY <3>1, LinesOfKeys
    <3> HIDE DEF lines
    <3> QED BY <3>1, <3>2, <3>3, <2>2
  <2> QED BY <2>1, <2>2
<1>3. /\ thisKey' = IF lines = <<>> THEN <<>> ELSE lines[1]
      /\ deviceItems' = <<NewKeyRow>> \o
           [i \in 1 .. Len(lines) - 1 |-> [deviceKey |-> lines[i + 1], seq |-> i]]
      /\ phase = "stopped" /\ phase' = "running" /\ seq' = 0
      /\ view' = view /\ written' = written
  BY DEF Launch
<1> HIDE DEF lines
<1>4. Len(lines) \in Nat /\ \A i \in 1 .. Len(lines) : lines[i] \in Key BY <1>2
<1> DEFINE rows == [i \in 1 .. Len(lines) - 1 |-> [deviceKey |-> lines[i + 1], seq |-> i]]
           m == IF lines = <<>> THEN 0 ELSE Len(lines) - 1
<1>5. m \in Nat /\ 1 .. Len(lines) - 1 = 1 .. m BY <1>4
<1>6. /\ rows \in Seq(Item) /\ Len(rows) = m
      /\ \A i \in 1 .. m : rows[i] = [deviceKey |-> lines[i + 1], seq |-> i]
  <2>1. ASSUME NEW i \in 1 .. m
        PROVE  [deviceKey |-> lines[i + 1], seq |-> i] \in Item
    <3>1. i + 1 \in 1 .. Len(lines) /\ i \in Nat BY <1>4, <1>5
    <3>2. lines[i + 1] \in Text BY <3>1, <1>4, KeyIsText
    <3> QED BY <3>1, <3>2 DEF Item
  <2>2. rows = [i \in 1 .. m |-> [deviceKey |-> lines[i + 1], seq |-> i]] BY <1>5
  <2> HIDE DEF rows, m
  <2>3. rows \in [1 .. m -> Item] BY <2>1, <2>2
  <2> QED BY <2>2, <2>3, <1>5
<1> HIDE DEF rows, m
<1>7. NewKeyRow \in Item /\ NewKeyRow.seq = 0 BY KeyIsText DEF NewKeyRow, Item
<1>8. /\ deviceItems' \in Seq(Item)
      /\ Len(deviceItems') = m + 1
      /\ deviceItems'[1] = NewKeyRow
      /\ \A i \in 1 .. m : deviceItems'[i + 1] = rows[i]
  <2>1. <<NewKeyRow>> \in Seq(Item) BY <1>7
  <2>2. deviceItems' = <<NewKeyRow>> \o rows BY <1>3 DEF rows
  <2> QED BY <2>1, <2>2, <1>5, <1>6, ConcatProperties
<1>9. RowsInv'
  <2>1. ASSUME NEW i \in 2 .. Len(deviceItems')
        PROVE  deviceItems'[i].seq # 0 /\ deviceItems'[i].deviceKey \in Key
    <3>1. i - 1 \in 1 .. m /\ (i - 1) + 1 = i /\ i \in 1 .. Len(lines) BY <1>8, <1>5, <1>4 DEF m
    <3>2. deviceItems'[i] = [deviceKey |-> lines[i], seq |-> i - 1] BY <3>1, <1>8, <1>6
    <3> QED BY <3>1, <3>2, <1>4
  <2>2. deviceItems' # <<>> BY <1>5, <1>8
  <2> QED BY <2>1, <2>2, <1>7, <1>8 DEF RowsInv
<1>10. ListInv'
  <2>1. thisKey' \in Key \union {<<>>} BY <1>3, <1>4
  <2>2. FileInv' BY <2>1, <1>2, <1>3 DEF ListInv, FileInv
  <2>3. ViewInv' BY <1>3 DEF ListInv, ViewInv
  <2> QED BY <2>2, <2>3, <1>3, <1>9 DEF ListInv, Phase
<1>11. ASSUME ConfInv
       PROVE  ConfInv' /\ Keys' = written /\ (thisKey # <<>> => thisKey' = thisKey)
  <2>1. lines = <<thisKey'>> \o written /\ thisKey' \in Key
        /\ (thisKey # <<>> => thisKey' = thisKey)
    <3>1. CASE conf = NoConf
      <4>1. written = <<>> /\ thisKey = <<>> BY <3>1, <1>3, <1>11 DEF ConfInv
      <4>2. lines = <<key>> /\ thisKey' = key BY <3>1, <1>2, <1>3
      <4> QED BY <4>1, <4>2, <1>1
    <3>2. CASE conf # NoConf
      <4>1. thisKey \in Key /\ Holds(conf, <<thisKey>> \o written)
        BY <3>2, <1>3, <1>11 DEF ConfInv
      <4>2. <<thisKey>> \in Seq(Key) /\ written \in Seq(Key) BY <4>1 DEF ListInv, FileInv
      <4>3. /\ <<thisKey>> \o written \in Seq(Key)
            /\ Len(<<thisKey>> \o written) = 1 + Len(written)
            /\ (<<thisKey>> \o written)[1] = thisKey
        BY <4>2, ConcatProperties
      <4>4. lines = <<thisKey>> \o written BY <4>1, <4>3, <3>2, <1>2
      <4>5. lines # <<>> BY <4>2, <4>3, <4>4
      <4> QED BY <4>1, <4>3, <4>4, <4>5, <1>3
    <3> QED BY <3>1, <3>2
  <2>2. ConfInv'
    <3>1. conf' # NoConf BY <1>2, Size DEF Holds
    <3> QED BY <3>1, <2>1, <1>2, <1>3 DEF ConfInv
  <2>3. Keys' = written
    <3>1. written \in Seq(Key) /\ <<thisKey'>> \in Seq(Key) BY <2>1 DEF ListInv, FileInv
    <3>2. /\ Len(lines) = 1 + Len(written)
          /\ \A i \in 1 .. Len(written) : lines[i + 1] = written[i]
      BY <3>1, <2>1, ConcatProperties
    <3>3. m = Len(written) BY <3>1, <3>2 DEF m
    <3>4. /\ Keys' \in Seq(Key)
          /\ Len(Keys') = Len(deviceItems') - 1
          /\ \A i \in 1 .. Len(deviceItems') - 1 : Keys'[i] = deviceItems'[i + 1].deviceKey
      BY <1>9, KeysOfRows DEF Keys, RowsInv
    <3>5. Len(Keys') = Len(written) BY <3>3, <3>4, <1>8, <1>5
    <3>6. ASSUME NEW i \in 1 .. Len(written) PROVE Keys'[i] = written[i]
      <4>1. i \in 1 .. m /\ i \in 1 .. Len(deviceItems') - 1 BY <3>3, <1>8, <1>5
      <4>2. Keys'[i] = rows[i].deviceKey BY <4>1, <3>4, <1>8
      <4>3. rows[i].deviceKey = lines[i + 1] BY <4>1, <1>6
      <4> QED BY <4>2, <4>3, <3>2
    <3> QED BY <3>1, <3>4, <3>5, <3>6, SeqEqual
  <2> QED BY <2>1, <2>2, <2>3
<1> QED BY <1>10, <1>11

\* No edit on RegisterPage parts its rows from the list, nor touches the file.
LEMMA EditKeeps ==
  ASSUME ListInv, EditList
  PROVE  /\ ListInv'
         /\ ConfInv => ConfInv'
         /\ UNCHANGED <<phase, thisKey, conf, written>>
<1>1. /\ phase = "running"
      /\ UNCHANGED <<phase, thisKey, conf, written>>
  <2>1. CASE OpenPage BY <2>1 DEF OpenPage
  <2>2. CASE ClosePage BY <2>2 DEF ClosePage
  <2>3. CASE \E text \in Typed : EnterKey(text) BY <2>3 DEF EnterKey
  <2>4. CASE InsertItem BY <2>4 DEF InsertItem
  <2>5. CASE \E row \in 2 .. Len(view) : RemoveItem(row) BY <2>5 DEF RemoveItem
  <2> QED BY <2>1, <2>2, <2>3, <2>4, <2>5 DEF EditList
<1>2. FileInv' BY <1>1 DEF ListInv, FileInv
<1>3. ConfInv => ConfInv' BY <1>1 DEF ConfInv
<1>4. SUFFICES RowsInv' /\ (view' # <<>> => view' = deviceItems') /\ seq' \in Nat
  BY <1>1, <1>2, <1>3 DEF ListInv, ViewInv
<1>5. /\ deviceItems \in Seq(Item) /\ Len(deviceItems) \in Nat \ {0}
      /\ deviceItems[1] \in Item /\ deviceItems[1].seq = 0
      /\ \A i \in 2 .. Len(deviceItems) :
           /\ deviceItems[i] \in Item
           /\ deviceItems[i].seq # 0 /\ deviceItems[i].deviceKey \in Key
  BY EmptySeq, ElementOfSeq DEF ListInv, RowsInv
<1>6. seq \in Nat /\ (view # <<>> => view = deviceItems) BY DEF ListInv, ViewInv
<1>7. CASE OpenPage BY <1>7, <1>5, <1>6 DEF OpenPage, Rows, ListInv, RowsInv
<1>8. CASE ClosePage BY <1>8, <1>5, <1>6 DEF ClosePage, ListInv, RowsInv
<1>9. CASE \E text \in Typed : EnterKey(text)
  <2>1. PICK text \in Typed : EnterKey(text) BY <1>9
  <2>2. text \in Text BY DeviceListAssumption
  <2> DEFINE row == [deviceItems[1] EXCEPT !.deviceKey = text]
  <2>3. row \in Item /\ row.seq = 0 BY <2>2, <1>5 DEF Item
  <2>4. /\ deviceItems' = [deviceItems EXCEPT ![1] = row] /\ seq' = seq
        /\ view' = [view EXCEPT ![1] = [view[1] EXCEPT !.deviceKey = text]]
        /\ view # <<>>
    BY <2>1 DEF EnterKey, SetItemAt
  <2>5. view' = deviceItems' BY <2>4, <1>6
  <2> HIDE DEF row
  <2>6. /\ deviceItems' \in Seq(Item) /\ Len(deviceItems') = Len(deviceItems)
        /\ \A i \in 1 .. Len(deviceItems) :
             deviceItems'[i] = IF i = 1 THEN row ELSE deviceItems[i]
    BY <2>3, <2>4, <1>5, ExceptSeq
  <2>7. deviceItems' # <<>> BY <2>6, <1>5
  <2>8. ASSUME NEW i \in 2 .. Len(deviceItems')
        PROVE  deviceItems'[i].seq # 0 /\ deviceItems'[i].deviceKey \in Key
    <3>1. i \in 1 .. Len(deviceItems) /\ i \in 2 .. Len(deviceItems) /\ i # 1
      BY <2>6, <1>5
    <3>2. deviceItems'[i] = deviceItems[i] BY <3>1, <2>6
    <3> QED BY <3>1, <3>2, <1>5
  <2>9. deviceItems'[1] = row BY <2>6, <1>5
  <2>10. RowsInv' BY <2>3, <2>6, <2>7, <2>8, <2>9 DEF RowsInv
  <2> QED BY <2>4, <2>5, <2>10, <1>6
<1>10. CASE InsertItem
  <2> DEFINE new == [deviceKey |-> deviceItems[1].deviceKey, seq |-> seq + 1]
             top == <<NewKeyRow, new>>
  <2>1. /\ Len(deviceItems[1].deviceKey) \in {0, KeySize} /\ deviceItems[1].deviceKey # <<>>
        /\ deviceItems' = top \o Tail(deviceItems)
        /\ seq' = seq + 1
        /\ view # <<>> /\ ShowInserted
    BY <1>10 DEF InsertItem, CheckNewDeviceKey
  <2>2. deviceItems[1].deviceKey \in Key
    <3>1. deviceItems[1].deviceKey \in Text BY <1>5 DEF Item
    <3>2. Len(deviceItems[1].deviceKey) # 0
      <4>1. deviceItems[1].deviceKey \in Seq(Char) BY <3>1, TextIsSeq
      <4> QED BY <4>1, <2>1, EmptySeq
    <3> QED BY <3>1, <3>2, <2>1, KeyIsText
  <2>3. new \in Item /\ new.seq # 0 /\ new.deviceKey \in Key
    <3>1. new.deviceKey \in Text /\ seq + 1 \in Nat /\ seq + 1 # 0
      BY <2>2, <1>6, KeyIsText
    <3> QED BY <3>1, <2>2 DEF Item
  <2>4. NewKeyRow \in Item /\ NewKeyRow.seq = 0 BY KeyIsText DEF NewKeyRow, Item
  <2> HIDE DEF new
  <2>5. /\ Tail(deviceItems) \in Seq(Item)
        /\ Len(Tail(deviceItems)) = Len(deviceItems) - 1
        /\ \A i \in 1 .. Len(deviceItems) - 1 : Tail(deviceItems)[i] = deviceItems[i + 1]
    BY <1>5, HeadTailProperties
  <2>6. top \in Seq(Item) /\ Len(top) = 2 /\ top[1] = NewKeyRow /\ top[2] = new
    BY <2>3, <2>4
  <2> HIDE DEF top
  <2>7. /\ deviceItems' \in Seq(Item)
        /\ Len(deviceItems') = 2 + (Len(deviceItems) - 1)
        /\ \A i \in 1 .. 2 + (Len(deviceItems) - 1) :
             deviceItems'[i] = IF i <= 2 THEN top[i] ELSE Tail(deviceItems)[i - 2]
    <3> DEFINE tail == Tail(deviceItems)
    <3>1. deviceItems' = top \o tail BY <2>1
    <3>2. tail \in Seq(Item) /\ Len(tail) = Len(deviceItems) - 1 BY <2>5
    <3> HIDE DEF tail
    <3>3. /\ deviceItems' \in Seq(Item)
          /\ Len(deviceItems') = Len(top) + Len(tail)
          /\ \A i \in 1 .. Len(top) + Len(tail) :
               deviceItems'[i] = IF i <= Len(top) THEN top[i] ELSE tail[i - Len(top)]
      BY <3>1, <3>2, <2>6, ConcatProperties
    <3>4. Len(top) = 2 /\ Len(tail) = Len(deviceItems) - 1 BY <3>2, <2>6
    <3> QED BY <3>3, <3>4 DEF tail
  <2>8. /\ deviceItems'[1] = NewKeyRow /\ deviceItems'[2] = new
        /\ \A i \in 3 .. Len(deviceItems') :
             i - 1 \in 2 .. Len(deviceItems) /\ deviceItems'[i] = deviceItems[i - 1]
    <3>1. 1 \in 1 .. 2 + (Len(deviceItems) - 1) /\ 2 \in 1 .. 2 + (Len(deviceItems) - 1)
      BY <1>5
    <3>2. ASSUME NEW i \in 3 .. Len(deviceItems')
          PROVE  i - 1 \in 2 .. Len(deviceItems) /\ deviceItems'[i] = deviceItems[i - 1]
      <4>1. /\ i \in 1 .. 2 + (Len(deviceItems) - 1) /\ ~ (i <= 2)
            /\ i - 2 \in 1 .. Len(deviceItems) - 1 /\ (i - 2) + 1 = i - 1
            /\ i - 1 \in 2 .. Len(deviceItems)
        BY <2>7, <1>5
      <4>2. deviceItems'[i] = Tail(deviceItems)[i - 2] BY <4>1, <2>7
      <4>3. Tail(deviceItems)[i - 2] = deviceItems[(i - 2) + 1] BY <4>1, <2>5
      <4> QED BY <4>1, <4>2, <4>3
    <3> QED BY <3>1, <3>2, <2>6, <2>7
  <2>9. RowsInv'
    <3>1. ASSUME NEW i \in 2 .. Len(deviceItems')
          PROVE  deviceItems'[i].seq # 0 /\ deviceItems'[i].deviceKey \in Key
      <4>1. i = 2 \/ i \in 3 .. Len(deviceItems') BY <2>7, <1>5
      <4> QED BY <4>1, <2>8, <2>3, <1>5
    <3>2. deviceItems' # <<>> BY <2>7, <1>5
    <3> QED BY <3>1, <3>2, <2>4, <2>7, <2>8 DEF RowsInv
  <2>10. view' = deviceItems'
    <3> DEFINE cleared == [view EXCEPT ![1].deviceKey = <<>>]
    <3>1. view' = InsertAt(cleared, 2, new) BY <2>1, <2>8 DEF ShowInserted
    <3>2. view = deviceItems BY <2>1, <1>6
    <3>3. [deviceItems[1] EXCEPT !.deviceKey = <<>>] = NewKeyRow
      BY <1>5 DEF Item, NewKeyRow
    <3>4. cleared = [deviceItems EXCEPT ![1] = NewKeyRow] BY <3>2, <3>3
    <3> HIDE DEF cleared
    <3>5. /\ cleared \in Seq(Item) /\ Len(cleared) = Len(deviceItems)
          /\ \A i \in 1 .. Len(deviceItems) :
               cleared[i] = IF i = 1 THEN NewKeyRow ELSE deviceItems[i]
      BY <3>4, <2>4, <1>5, ExceptSeq
    <3>6. /\ InsertAt(cleared, 2, new) \in Seq(Item)
          /\ Len(InsertAt(cleared, 2, new)) = Len(cleared) + 1
          /\ InsertAt(cleared, 2, new)[1] = cleared[1]
          /\ InsertAt(cleared, 2, new)[2] = new
          /\ \A i \in 3 .. Len(cleared) + 1 : InsertAt(cleared, 2, new)[i] = cleared[i - 1]
      <4>1. Len(cleared) # 0 BY <3>5, <1>5
      <4> QED BY <4>1, <3>5, <2>3, InsertSecond
    <3>7. Len(view') = Len(deviceItems') /\ view' \in Seq(Item)
      BY <3>1, <3>5, <3>6, <2>7, <1>5
    <3>8. ASSUME NEW i \in 1 .. Len(view') PROVE view'[i] = deviceItems'[i]
      <4>1. CASE i = 1 BY <4>1, <3>1, <3>5, <3>6, <2>8, <1>5
      <4>2. CASE i = 2 BY <4>2, <3>1, <3>6, <2>8
      <4>3. CASE i >= 3
        <5>1. /\ i \in 3 .. Len(deviceItems') /\ i \in 3 .. Len(cleared) + 1
              /\ i - 1 \in 2 .. Len(deviceItems)
          BY <4>3, <3>5, <3>7, <2>7, <1>5
        <5>2. cleared[i - 1] = deviceItems[i - 1] BY <5>1, <3>5
        <5> QED BY <5>1, <5>2, <3>1, <3>6, <2>8
      <4>4. i = 1 \/ i = 2 \/ i >= 3 BY <3>7, <2>7, <1>5
      <4> QED BY <4>1, <4>2, <4>3, <4>4
    <3> QED BY <3>7, <3>8, <2>7, SeqEqual
  <2> QED BY <2>1, <2>9, <2>10, <1>6
<1>11. CASE \E row \in 2 .. Len(view) : RemoveItem(row)
  <2>1. PICK row \in 2 .. Len(view) : RemoveItem(row) BY <1>11
  <2>2. view = deviceItems /\ row \in 2 .. Len(deviceItems)
    <3>1. view # <<>> BY <2>1
    <3> QED BY <3>1, <2>1, <1>6
  <2> DEFINE same == {i \in 1 .. Len(deviceItems) : deviceItems[i].seq = view[row].seq}
             i == Min(same)
  <2>3. row \in same /\ same \subseteq Nat BY <2>2, <1>5
  <2>4. i \in same
    <3> HIDE DEF same
    <3> QED BY <2>3, MinIsLeast
  <2>5. i \in 2 .. Len(deviceItems)
    <3> HIDE DEF i
    <3>1. i \in 1 .. Len(deviceItems) /\ deviceItems[i].seq = deviceItems[row].seq
      BY <2>4, <2>2
    <3>2. i # 1 BY <3>1, <2>2, <1>5
    <3> QED BY <3>1, <3>2, <1>5
  <2>6. /\ deviceItems' = RemoveAt(deviceItems, i) /\ view' = RemoveAt(view, i)
        /\ seq' = seq
    <3>1. SelectInSeq(deviceItems, LAMBDA item : item.seq = view[row].seq) = i
      <4>1. same # {} BY <2>3
      <4> QED BY <4>1 DEF SelectInSeq
    <3> HIDE DEF i
    <3> QED BY <3>1, <2>1 DEF RemoveItem
  <2> HIDE DEF i
  <2>7. /\ deviceItems' \in Seq(Item)
        /\ Len(deviceItems') = Len(deviceItems) - 1
        /\ \A j \in 1 .. Len(deviceItems) - 1 :
             deviceItems'[j] = IF j < i THEN deviceItems[j] ELSE deviceItems[j + 1]
    <3>1. i \in 1 .. Len(deviceItems) BY <2>5, <1>5
    <3> QED BY <3>1, <2>6, <1>5, RemoveAtProperties
  <2>8. RowsInv'
    <3>1. deviceItems' # <<>> BY <2>7, <2>5, <1>5
    <3>2. deviceItems'[1] = deviceItems[1] BY <2>7, <2>5, <1>5
    <3>3. ASSUME NEW j \in 2 .. Len(deviceItems')
          PROVE  deviceItems'[j].seq # 0 /\ deviceItems'[j].deviceKey \in Key
      <4>1. /\ j \in 1 .. Len(deviceItems) - 1
            /\ j \in 2 .. Len(deviceItems) /\ j + 1 \in 2 .. Len(deviceItems)
        BY <2>7, <1>5
      <4> QED BY <4>1, <2>7, <1>5
    <3> QED BY <3>1, <3>2, <3>3, <2>7, <1>5 DEF RowsInv
  <2> QED BY <2>2, <2>6, <2>8, <1>6
<1> QED BY <1>7, <1>8, <1>9, <1>10, <1>11 DEF EditList

\* Opening lumint.conf empties it.
LEMMA OpenConfKeeps ==
  ASSUME ListInv, NEW state \in {"suspending", "closing"}, OpenConf(state)
  PROVE  ListInv' /\ (ConfInv => ConfInv') /\ phase' # "running"
<1>1. FileInv'
  <2>1. <<>> \in Seq(Key) OBVIOUS
  <2> QED BY <2>1, HoldsNone DEF OpenConf, ListInv, FileInv
<1>2. RowsInv' BY DEF OpenConf, ListInv, RowsInv
<1>3. ViewInv' BY DEF OpenConf, ListInv, ViewInv
<1>4. ConfInv => ConfInv'
  <2>1. ConfInv => thisKey \in Key BY DEF OpenConf, ConfInv
  <2> QED BY <2>1 DEF OpenConf, ConfInv
<1> QED BY <1>1, <1>2, <1>3, <1>4 DEF OpenConf, ListInv, Phase

\* What is then written holds this device's key and the list's.
LEMMA CloseConfKeeps ==
  ASSUME ListInv, CloseConf
  PROVE  ListInv' /\ (ConfInv => ConfInv') /\ phase # "stopped"
<1>1. Keys \in Seq(Key) BY KeysOfRows DEF ListInv, RowsInv, Keys
<1>2. Holds(FlattenSeq(Keys), Keys) BY <1>1, FlattenHolds
<1>3. /\ conf' = thisKey \o FlattenSeq(Keys) /\ written' = Keys
      /\ phase \in {"suspending", "closing"}
      /\ phase' = IF phase = "suspending" THEN "running" ELSE "stopped"
      /\ UNCHANGED <<deviceItems, seq, thisKey, view>>
  BY DEF CloseConf
<1>4. thisKey \in Key => /\ <<thisKey>> \o Keys \in Seq(Key)
                         /\ Holds(conf', <<thisKey>> \o Keys)
  <2> SUFFICES ASSUME thisKey \in Key
               PROVE  <<thisKey>> \o Keys \in Seq(Key) /\ Holds(conf', <<thisKey>> \o Keys)
    OBVIOUS
  <2>1. <<thisKey>> \in Seq(Key) OBVIOUS
  <2>2. Holds(thisKey, <<thisKey>>) BY HoldsOne
  <2> QED BY <2>1, <2>2, <1>1, <1>2, <1>3, HoldsBoth, ConcatProperties
<1>5. thisKey = <<>> => Holds(conf', Keys)
  <2>1. FlattenSeq(Keys) \in Seq(Char) BY <1>2 DEF Holds
  <2> QED BY <2>1, <1>2, <1>3, ConcatEmptySeq
<1>6. FileInv' BY <1>1, <1>3, <1>4, <1>5 DEF ListInv, FileInv
<1>7. RowsInv' /\ ViewInv' BY <1>3 DEF ListInv, RowsInv, ViewInv
<1>8. ConfInv => ConfInv'
  <2>1. ConfInv => thisKey \in Key BY <1>3 DEF ConfInv
  <2>2. thisKey \in Key => conf' # NoConf BY <1>4, Size DEF Holds
  <2> QED BY <2>1, <2>2, <1>3, <1>4 DEF ConfInv
<1> QED BY <1>3, <1>6, <1>7, <1>8 DEF ListInv, Phase

\* Killed while it does not write lumint.conf.
LEMMA CrashKeeps ==
  ASSUME ListInv, Crash
  PROVE  /\ ListInv'
         /\ {"suspending", "closing"} \intersect KilledIn = {} /\ ConfInv => ConfInv'
<1>1. FileInv' /\ RowsInv' /\ ViewInv' BY DEF Crash, ListInv, FileInv, RowsInv, ViewInv
<1> QED BY <1>1 DEF Crash, ListInv, ConfInv, Phase

\* The steps that leave the list alone, between the rewriting of a transfer
\* record and the rest.
LEMMA ListAlone ==
  ASSUME ListInv, UNCHANGED <<deviceItems, seq, thisKey, view, conf, written>>,
         \/ phase' = phase
         \/ phase \in {"running", "recording"} /\ phase' \in {"running", "recording"}
  PROVE  ListInv' /\ (ConfInv => ConfInv')
<1>1. FileInv' /\ RowsInv' /\ ViewInv' BY DEF ListInv, FileInv, RowsInv, ViewInv
<1> QED BY <1>1 DEF ListInv, ConfInv, Phase
=============================================================================
