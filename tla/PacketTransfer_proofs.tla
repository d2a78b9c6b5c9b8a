------------------------ MODULE PacketTransfer_proofs ------------------------
(***************************************************************************)
(* Texts and files byte for byte, proved: for any sizes, however TLS cuts  *)
(* the stream, each message and packet is read whole and as it was         *)
(* written, and a file that is reported as received is the file sent.      *)
(***************************************************************************)
EXTENDS PacketTransfer, SequenceTheorems, TLAPS

-----------------------------------------------------------------------------
(* Numbers in bytes.                                                       *)

\* The largest of numbers up to n, n among them.
LEMMA LastIsMax ==
  ASSUME NEW n \in Nat, NEW s \in SUBSET (1 .. n), n \in s
  PROVE  Max(s) = n
<1>1. \A x \in s : (\A y \in s : x >= y) => x = n OBVIOUS
<1>2. n \in s /\ \A y \in s : n >= y OBVIOUS
<1>3. PICK x \in s : \A y \in s : x >= y BY <1>2
<1>4. Max(s) \in s /\ \A y \in s : Max(s) >= y BY <1>2, Zenon DEF Max
<1> QED BY <1>1, <1>4

\* f is the recursive function that FoldLeft, in FromBytes(b), is defined by.
Folds(f, b, S) ==
  f = [s \in SUBSET S |-> IF s = {} THEN 0
                          ELSE LET x == Max(s) IN f[s \ {x}] * Base + b[x]]

\* FromBytes is its value over all the bytes, if there is one.
LEMMA FromBytesFolds ==
  ASSUME NEW b, NEW n \in Nat, DOMAIN b = 1 .. n
  PROVE  FromBytes(b) = (CHOOSE f : Folds(f, b, 1 .. n))[1 .. n]
BY DEF FromBytes, FoldLeft, MapThenFoldSet, Folds

\* It exists over one byte more.
LEMMA FoldsNext ==
  ASSUME NEW b, NEW n \in Nat, \E f : Folds(f, b, 1 .. n), NEW m, m = n + 1
  PROVE  \E f : Folds(f, b, 1 .. m)
<1>1. PICK f : Folds(f, b, 1 .. n) OBVIOUS
<1> DEFINE g == [s \in SUBSET (1 .. n + 1) |->
                   IF n + 1 \in s THEN f[s \ {n + 1}] * Base + b[n + 1] ELSE f[s]]
<1>2. ASSUME NEW s \in SUBSET (1 .. n + 1)
      PROVE  g[s] = IF s = {} THEN 0 ELSE g[s \ {Max(s)}] * Base + b[Max(s)]
  <2>1. CASE n + 1 \in s
    <3>1. Max(s) = n + 1
      <4>1. n + 1 \in Nat /\ s \in SUBSET (1 .. n + 1) OBVIOUS
      <4> QED BY <2>1, <4>1, LastIsMax, SMTT(20)
    <3>2. s \ {n + 1} \in SUBSET (1 .. n + 1) /\ n + 1 \notin s \ {n + 1} OBVIOUS
    <3> QED BY <2>1, <3>1, <3>2
  <2>2. CASE n + 1 \notin s
    <3>1. s \in SUBSET (1 .. n) BY <2>2
    <3>2. \A x : s \ {x} \in SUBSET (1 .. n + 1) /\ n + 1 \notin s \ {x} BY <2>2
    <3>3. g[s] = f[s] /\ g[s \ {Max(s)}] = f[s \ {Max(s)}] BY <2>2, <3>2
    <3>4. f[s] = IF s = {} THEN 0 ELSE f[s \ {Max(s)}] * Base + b[Max(s)]
      BY <1>1, <3>1, Zenon DEF Folds
    <3> QED BY <3>3, <3>4, Zenon
  <2> QED BY <2>1, <2>2
<1>3. g = [s \in SUBSET (1 .. n + 1) |-> g[s]] OBVIOUS
<1>4. Folds(g, b, 1 .. n + 1)
  <2> HIDE DEF g
  <2> QED BY <1>2, <1>3, Zenon DEF Folds
<1> QED BY <1>4, Zenon

\* It exists over two bytes and over four.
LEMMA FoldsExist ==
  ASSUME NEW b
  PROVE  (\E f : Folds(f, b, 1 .. 2)) /\ (\E f : Folds(f, b, 1 .. 4))
<1>1. \E f : Folds(f, b, 1 .. 0)
  <2> DEFINE g == [s \in SUBSET (1 .. 0) |-> 0]
  <2>1. 1 .. 0 = {} OBVIOUS
  <2>2. Folds(g, b, 1 .. 0)
    <3>1. SUBSET (1 .. 0) = {{}} BY <2>1
    <3> QED BY <3>1 DEF Folds
  <2> QED BY <2>2
<1>2. 1 = 0 + 1 /\ 2 = 1 + 1 /\ 3 = 2 + 1 /\ 4 = 3 + 1 /\ {0, 1, 2, 3} \subseteq Nat OBVIOUS
<1>3. \E f : Folds(f, b, 1 .. 1) BY <1>1, <1>2, FoldsNext, Zenon
<1>4. \E f : Folds(f, b, 1 .. 2) BY <1>2, <1>3, FoldsNext, Zenon
<1>5. \E f : Folds(f, b, 1 .. 3) BY <1>2, <1>4, FoldsNext, Zenon
<1>6. \E f : Folds(f, b, 1 .. 4) BY <1>2, <1>5, FoldsNext, Zenon
<1> QED BY <1>4, <1>6

\* What it says of the first k bytes.
LEMMA FoldsValue ==
  ASSUME NEW b, NEW n \in Nat, NEW f, Folds(f, b, 1 .. n)
  PROVE  \A k \in 1 .. n : f[1 .. k] = f[1 .. k - 1] * Base + b[k]
<1> TAKE k \in 1 .. n
<1>1. 1 .. k \in SUBSET (1 .. n) /\ 1 .. k # {} /\ (1 .. k) \ {k} = 1 .. k - 1 OBVIOUS
<1>2. Max(1 .. k) = k
  <2>1. k \in Nat /\ 1 .. k \in SUBSET (1 .. k) /\ k \in 1 .. k OBVIOUS
  <2> QED BY <2>1, LastIsMax, SMTT(20)
<1>3. f[1 .. k] = f[(1 .. k) \ {Max(1 .. k)}] * Base + b[Max(1 .. k)]
  BY <1>1, Zenon DEF Folds
<1> QED BY <1>1, <1>2, <1>3

\* And of none.
LEMMA FoldsNone ==
  ASSUME NEW b, NEW n \in Nat, NEW f, Folds(f, b, 1 .. n)
  PROVE  f[1 .. 0] = 0
<1>1. 1 .. 0 = {} /\ {} \in SUBSET (1 .. n) OBVIOUS
<1> QED BY <1>1, Zenon DEF Folds

\* The number that two bytes are.
LEMMA TwoBytes ==
  ASSUME NEW b, DOMAIN b = 1 .. 2, b[1] \in Nat, b[2] \in Nat
  PROVE  FromBytes(b) = b[1] * Base + b[2]
<1> DEFINE f == CHOOSE g : Folds(g, b, 1 .. 2)
<1>1. Folds(f, b, 1 .. 2) BY FoldsExist, Zenon
<1>2. FromBytes(b) = f[1 .. 2] BY FromBytesFolds
<1> HIDE DEF f
<1>3. f[1 .. 0] = 0 BY <1>1, FoldsNone
<1>4. \A k \in 1 .. 2 : f[1 .. k] = f[1 .. k - 1] * Base + b[k]
  <2>1. 2 \in Nat OBVIOUS
  <2> QED BY <1>1, <2>1, FoldsValue, Zenon
<1>5. f[1 .. 1] = f[1 .. 0] * Base + b[1] /\ f[1 .. 2] = f[1 .. 1] * Base + b[2] BY <1>4
<1> QED BY <1>2, <1>3, <1>5, MessengerAssumption

\* The number that four bytes are.
LEMMA FourBytes ==
  ASSUME NEW b, DOMAIN b = 1 .. 4, \A i \in 1 .. 4 : b[i] \in Nat
  PROVE  FromBytes(b) = ((b[1] * Base + b[2]) * Base + b[3]) * Base + b[4]
<1> DEFINE f == CHOOSE g : Folds(g, b, 1 .. 4)
<1>1. Folds(f, b, 1 .. 4) BY FoldsExist, Zenon
<1>2. FromBytes(b) = f[1 .. 4] BY FromBytesFolds
<1> HIDE DEF f
<1>3. f[1 .. 0] = 0 BY <1>1, FoldsNone
<1>4. \A k \in 1 .. 4 : f[1 .. k] = f[1 .. k - 1] * Base + b[k]
  <2>1. 4 \in Nat OBVIOUS
  <2> QED BY <1>1, <2>1, FoldsValue, Zenon
<1>5. /\ f[1 .. 1] = f[1 .. 0] * Base + b[1] /\ f[1 .. 2] = f[1 .. 1] * Base + b[2]
      /\ f[1 .. 3] = f[1 .. 2] * Base + b[3] /\ f[1 .. 4] = f[1 .. 3] * Base + b[4]
  BY <1>4
<1>6. f[1 .. 1] = b[1] BY <1>3, <1>5, MessengerAssumption
<1> QED BY <1>2, <1>5, <1>6

\* Dividing twice.
LEMMA DivTwice ==
  ASSUME NEW n \in Nat, NEW a \in Nat \ {0}, NEW b \in Nat \ {0}
  PROVE  (n \div a) \div b = n \div (a * b)
OBVIOUS

\* Quotient and remainder.
LEMMA DivMod ==
  ASSUME NEW n \in Nat, NEW a \in Nat \ {0}
  PROVE  /\ n \div a \in Nat /\ n % a \in 0 .. a - 1
         /\ (n \div a) * a + (n % a) = n
OBVIOUS

\* The bytes of a number.
LEMMA BytesTyped ==
  ASSUME NEW n \in Nat, NEW w \in 1 .. 4
  PROVE  /\ ToBytes(n, w) \in Seq(Nat) /\ Len(ToBytes(n, w)) = w
         /\ DOMAIN ToBytes(n, w) = 1 .. w
<1>1. \A i \in 1 .. w : Place[w - i + 1] \in Nat \ {0}
  BY MessengerAssumption DEF Place
<1>2. \A i \in 1 .. w : (n \div Place[w - i + 1]) % Base \in Nat
  <2> TAKE i \in 1 .. w
  <2>1. Place[w - i + 1] \in Nat \ {0} BY <1>1
  <2>2. n \div Place[w - i + 1] \in Nat BY <2>1, DivMod
  <2> QED BY <2>2, MessengerAssumption
<1> QED BY <1>2 DEF ToBytes

\* A number that fits two bytes is read as it was written.
LEMMA TwoBytesRead ==
  ASSUME NEW n \in 0 .. UINT16 - 1
  PROVE  FromBytes(ToBytes(n, 2)) = n
<1>1. n \in Nat /\ Base \in Nat \ {0} BY MessengerAssumption DEF UINT16
<1> DEFINE b == ToBytes(n, 2)
<1>2. b[1] = (n \div Base) % Base /\ b[2] = (n \div 1) % Base
  BY MessengerAssumption DEF ToBytes, Place
<1>3. DOMAIN b = 1 .. 2 /\ b[1] \in Nat /\ b[2] \in Nat
  <2>1. b \in Seq(Nat) /\ Len(b) = 2 /\ DOMAIN b = 1 .. 2 BY <1>1, BytesTyped
  <2> QED BY <2>1
<1>4. FromBytes(b) = b[1] * Base + b[2] BY <1>3, TwoBytes
<1>5. n \div Base \in 0 .. Base - 1
  <2>1. n < Base * Base BY <1>1 DEF UINT16
  <2> QED BY <1>1, <2>1
<1>6. b[1] = n \div Base /\ b[2] = n % Base BY <1>1, <1>2, <1>5
<1>7. (n \div Base) * Base + (n % Base) = n BY <1>1, DivMod
<1>8. FromBytes(b) = n
  <2> HIDE DEF b
  <2> QED BY <1>4, <1>6, <1>7
<1> QED BY <1>8

\* And one that fits four.
LEMMA FourBytesRead ==
  ASSUME NEW n \in 0 .. UINT32 - 1
  PROVE  FromBytes(ToBytes(n, 4)) = n
<1>1. n \in Nat /\ Base \in Nat \ {0} BY MessengerAssumption DEF UINT32
<1> DEFINE b == ToBytes(n, 4)
           n1 == n \div Base
           n2 == n1 \div Base
           n3 == n2 \div Base
<1>2. /\ b[1] = (n \div (Base * Base * Base)) % Base
      /\ b[2] = (n \div (Base * Base)) % Base
      /\ b[3] = (n \div Base) % Base /\ b[4] = (n \div 1) % Base
  BY MessengerAssumption DEF ToBytes, Place
<1>3. DOMAIN b = 1 .. 4 /\ \A i \in 1 .. 4 : b[i] \in Nat
  <2>1. b \in Seq(Nat) /\ Len(b) = 4 /\ DOMAIN b = 1 .. 4 BY <1>1, BytesTyped
  <2> QED BY <2>1
<1>4. FromBytes(b) = ((b[1] * Base + b[2]) * Base + b[3]) * Base + b[4]
  BY <1>3, FourBytes
<1>5. n1 \in Nat /\ n2 \in Nat /\ n3 \in Nat BY <1>1, DivMod
<1>6. n2 = n \div (Base * Base) /\ n3 = n \div (Base * Base * Base)
  <2>1. Base * Base \in Nat \ {0} BY <1>1
  <2>2. n2 = n \div (Base * Base) BY <1>1, DivTwice
  <2> QED BY <1>1, <2>1, <2>2, DivTwice
<1>7. n3 < Base
  <2>1. n < Base * Base * Base * Base BY <1>1 DEF UINT32
  <2>2. n1 < Base * Base * Base
    <3>1. Base * Base * Base \in Nat BY <1>1
    <3> QED BY <1>1, <2>1, <3>1
  <2>3. n2 < Base * Base
    <3>1. Base * Base \in Nat BY <1>1
    <3> QED BY <1>1, <1>5, <2>2, <3>1
  <2> QED BY <1>1, <1>5, <2>3
<1>8. b[1] = n3 /\ b[2] = n2 % Base /\ b[3] = n1 % Base /\ b[4] = n % Base
  BY <1>1, <1>2, <1>5, <1>6, <1>7
<1>9. n3 * Base + (n2 % Base) = n2 /\ n2 * Base + (n1 % Base) = n1 /\ n1 * Base + (n % Base) = n
  BY <1>1, <1>5, DivMod
<1>10. FromBytes(b) = n
  <2> HIDE DEF b, n1, n2, n3
  <2> QED BY <1>4, <1>8, <1>9
<1> QED BY <1>10

-----------------------------------------------------------------------------
(* Frames.                                                                 *)

\* What frame(Message) accepts.
Framed == {c \in Seq(Nat) : Len(c) \in 1 .. UINT16 - 1}

\* The limits are integers.
LEMMA Widths == UINT16 \in Nat \ {0} /\ UINT32 \in Nat \ {0} /\ INT_MAX \in Int
BY MessengerAssumption DEF UINT16, UINT32, INT_MAX

\* Its parts: identifier, size, content.
LEMMA FrameParts ==
  ASSUME NEW id \in Nat, NEW c \in Framed
  PROVE  /\ Frame(id, c) \in Seq(Nat)
         /\ Len(Frame(id, c)) = 3 + Len(c)
         /\ Frame(id, c)[1] = id
         /\ \A i \in 1 .. 2 : Frame(id, c)[1 + i] = ToBytes(Len(c), 2)[i]
         /\ \A i \in 1 .. Len(c) : Frame(id, c)[3 + i] = c[i]
<1> DEFINE b == ToBytes(Len(c), 2)
<1>1. c \in Seq(Nat) /\ Len(c) \in 1 .. UINT16 - 1 /\ Len(c) \in Nat BY Widths DEF Framed
<1>2. b \in Seq(Nat) /\ Len(b) = 2 BY <1>1, BytesTyped
<1>3. Frame(id, c) = (<<id>> \o b) \o c
  BY <1>1 DEF Frame, MESSAGE_SIZE_INT, MESSAGE_SIZE_BYTES, UINT16
<1> HIDE DEF b
<1>4. <<id>> \in Seq(Nat) /\ Len(<<id>>) = 1 /\ <<id>>[1] = id OBVIOUS
<1>5. /\ <<id>> \o b \in Seq(Nat) /\ Len(<<id>> \o b) = 3
      /\ \A i \in 1 .. 3 : (<<id>> \o b)[i] = IF i <= 1 THEN <<id>>[i] ELSE b[i - 1]
  <2>1. /\ <<id>> \o b \in Seq(Nat) /\ Len(<<id>> \o b) = Len(<<id>>) + Len(b)
        /\ \A i \in 1 .. Len(<<id>>) + Len(b) :
             (<<id>> \o b)[i] = IF i <= Len(<<id>>) THEN <<id>>[i] ELSE b[i - Len(<<id>>)]
    BY <1>2, <1>4, ConcatProperties
  <2> QED BY <1>2, <1>4, <2>1
<1>6. /\ (<<id>> \o b) \o c \in Seq(Nat) /\ Len((<<id>> \o b) \o c) = 3 + Len(c)
      /\ \A i \in 1 .. 3 + Len(c) :
           ((<<id>> \o b) \o c)[i] = IF i <= 3 THEN (<<id>> \o b)[i] ELSE c[i - 3]
  BY <1>1, <1>5, ConcatProperties
<1>7. \A i \in 1 .. 3 : Frame(id, c)[i] = IF i <= 1 THEN <<id>>[i] ELSE b[i - 1]
  BY <1>1, <1>3, <1>5, <1>6
<1>8. \A i \in 1 .. Len(c) : Frame(id, c)[3 + i] = c[i]
  BY <1>1, <1>3, <1>6
<1> QED BY <1>3, <1>4, <1>6, <1>7, <1>8 DEF b

\* The beginning of a stream.
LEMMA Beginning ==
  ASSUME NEW w \in Seq(Nat), NEW m \in 0 .. Len(w)
  PROVE  /\ SubSeq(w, 1, m) \in Seq(Nat) /\ Len(SubSeq(w, 1, m)) = m
         /\ \A i \in 1 .. m : SubSeq(w, 1, m)[i] = w[i]
         /\ m = Len(w) => SubSeq(w, 1, m) = w
<1>1. Len(w) \in Nat /\ m \in Int /\ \A i \in 1 .. m : w[i] \in Nat OBVIOUS
<1>2. /\ SubSeq(w, 1, m) \in Seq(Nat) /\ Len(SubSeq(w, 1, m)) = IF 1 <= m THEN m - 1 + 1 ELSE 0
      /\ \A i \in 1 .. m - 1 + 1 : SubSeq(w, 1, m)[i] = w[1 + i - 1]
  BY <1>1, SubSeqProperties
<1>3. m = Len(w) => SubSeq(w, 1, m) = w BY SubSeqFull
<1> QED BY <1>1, <1>2, <1>3

\* readMessage takes nothing of a frame until it is there, and then all of it,
\* as it was written.
LEMMA FrameReadBack ==
  ASSUME NEW id \in Nat, NEW c \in Framed, NEW m \in 0 .. Len(Frame(id, c))
  PROVE  LET w == Frame(id, c)  a == SubSeq(w, 1, m) IN
           /\ HasMessage(a) <=> m = Len(w)
           /\ MessageType(w) = id /\ MessageContent(w) = c
           /\ Drop(w, MessageSize(w)) = <<>>
<1> DEFINE w == Frame(id, c)
           a == SubSeq(w, 1, m)
<1>1. c \in Seq(Nat) /\ Len(c) \in 1 .. UINT16 - 1 /\ Len(c) \in Nat BY Widths DEF Framed
<1>2. ToBytes(Len(c), 2) \in Seq(Nat) /\ Len(ToBytes(Len(c), 2)) = 2 BY <1>1, BytesTyped
<1>3. /\ w \in Seq(Nat) /\ Len(w) = 3 + Len(c) /\ w[1] = id
      /\ \A i \in 1 .. 2 : w[1 + i] = ToBytes(Len(c), 2)[i]
      /\ \A i \in 1 .. Len(c) : w[3 + i] = c[i]
  BY FrameParts
<1>0. m \in Nat /\ m <= Len(w) BY <1>1, <1>3
<1> HIDE DEF w
<1>4. /\ a \in Seq(Nat) /\ Len(a) = m /\ \A i \in 1 .. m : a[i] = w[i]
      /\ m = Len(w) => a = w
  BY <1>3, Beginning DEF w
<1>5. ASSUME NEW v \in Seq(Nat), Len(v) >= 3, \A i \in 1 .. 3 : v[i] = w[i]
      PROVE  MessageSize(v) = Len(w)
  <2>1. \A i \in 2 .. 3 : v[i] \in Nat BY <1>5
  <2>2. /\ SubSeq(v, 2, 3) \in Seq(Nat)
        /\ Len(SubSeq(v, 2, 3)) = IF 2 <= 3 THEN 3 - 2 + 1 ELSE 0
        /\ \A i \in 1 .. 3 - 2 + 1 : SubSeq(v, 2, 3)[i] = v[2 + i - 1]
    BY <2>1, SubSeqProperties
  <2>3. \A i \in 1 .. 2 : SubSeq(v, 2, 3)[i] = ToBytes(Len(c), 2)[i]
    BY <1>3, <1>5, <2>2
  <2>4. SubSeq(v, 2, 3) = ToBytes(Len(c), 2)
    BY <1>2, <2>2, <2>3, SeqEqual
  <2>5. Len(c) \in 0 .. UINT16 - 1 BY <1>1, Widths
  <2>6. FromBytes(SubSeq(v, 2, 3)) = Len(c) BY <2>4, <2>5, TwoBytesRead
  <2> QED BY <1>3, <2>6 DEF MessageSize, MESSAGE_CONTENT_OFFSET, MESSAGE_SIZE_BYTES
<1>6. HasMessage(a) <=> m = Len(w)
  <2>1. CASE m < 3
    BY <1>1, <1>3, <1>4, <2>1 DEF HasMessage, MESSAGE_CONTENT_OFFSET, MESSAGE_SIZE_BYTES
  <2>2. CASE m >= 3
    <3>1. MessageSize(a) = Len(w)
      <4>1. a \in Seq(Nat) /\ Len(a) >= 3 /\ \A i \in 1 .. 3 : a[i] = w[i]
        BY <1>0, <1>4, <2>2
      <4> HIDE DEF a
      <4> QED BY <1>5, <4>1
    <3> QED BY <1>3, <1>4, <2>2, <3>1
         DEF HasMessage, MESSAGE_CONTENT_OFFSET, MESSAGE_SIZE_BYTES, w
  <2>3. m < 3 \/ m >= 3 BY <1>0
  <2> QED BY <2>1, <2>2, <2>3, Zenon
<1>7. MessageSize(w) = Len(w)
  <2>1. Len(w) >= 3 /\ \A i \in 1 .. 3 : w[i] = w[i] BY <1>1, <1>3
  <2> QED BY <1>3, <1>5, <2>1
<1>8. MessageContent(w) = c
  <2>1. \A i \in 4 .. Len(w) : w[i] \in Nat BY <1>3
  <2>2. /\ SubSeq(w, 4, Len(w)) \in Seq(Nat)
        /\ Len(SubSeq(w, 4, Len(w))) = IF 4 <= Len(w) THEN Len(w) - 4 + 1 ELSE 0
        /\ \A i \in 1 .. Len(w) - 4 + 1 : SubSeq(w, 4, Len(w))[i] = w[4 + i - 1]
    BY <1>3, <2>1, SubSeqProperties
  <2>3. \A i \in 1 .. Len(c) : SubSeq(w, 4, Len(w))[i] = c[i] BY <1>1, <1>3, <2>2
  <2>4. SubSeq(w, 4, Len(w)) = c BY <1>1, <1>3, <2>2, <2>3, SeqEqual
  <2> QED BY <1>7, <2>4 DEF MessageContent, MESSAGE_CONTENT_OFFSET, MESSAGE_SIZE_BYTES
<1>9. Drop(w, MessageSize(w)) = <<>> BY <1>3, <1>7, SubSeqEmpty DEF Drop
<1>10. MessageType(w) = id BY <1>3 DEF MessageType
<1> QED BY <1>6, <1>8, <1>9, <1>10 DEF w

\* readFile likewise, told how long the packet is.
LEMMA PacketReadBack ==
  ASSUME NEW n \in 0 .. UINT16 - 1, NEW d \in Seq(Nat), Len(d) \in 1 .. PACKET_BYTES,
         NEW m \in 0 .. Len(FrameFile(n, d))
  PROVE  LET w == FrameFile(n, d)  a == SubSeq(w, 1, m) IN
           /\ w \in Seq(Nat) /\ w # <<>> /\ Len(w) = 2 + Len(d)
           /\ HasFile(a, Len(d)) <=> m = Len(w)
           /\ FileData(w, Len(d)) = d
           /\ Drop(w, SEQ_BYTES + Len(d)) = <<>>
<1> DEFINE w == FrameFile(n, d)
           b == ToBytes(n, 2)
<1>1. n \in Nat /\ n % UINT16 = n BY Widths
<1>2. b \in Seq(Nat) /\ Len(b) = 2 BY <1>1, BytesTyped
<1>3. w = b \o d BY <1>1 DEF FrameFile, SEQ_BYTES
<1>4. /\ w \in Seq(Nat) /\ Len(w) = 2 + Len(d)
      /\ \A i \in 1 .. 2 + Len(d) : w[i] = IF i <= 2 THEN b[i] ELSE d[i - 2]
  <2> HIDE DEF w, b
  <2>1. /\ b \o d \in Seq(Nat) /\ Len(b \o d) = Len(b) + Len(d)
        /\ \A i \in 1 .. Len(b) + Len(d) :
             (b \o d)[i] = IF i <= Len(b) THEN b[i] ELSE d[i - Len(b)]
    BY <1>2, ConcatProperties
  <2> QED BY <1>2, <1>3, <2>1
<1>5. /\ m \in 0 .. Len(w)
      /\ Len(SubSeq(w, 1, m)) = m
  BY <1>4, Beginning
<1> HIDE DEF w, b
<1>6. Len(d) \in Nat \ {0} /\ w # <<>> BY <1>4
<1>7. HasFile(SubSeq(w, 1, m), Len(d)) <=> m = Len(w)
  BY <1>4, <1>5, <1>6 DEF HasFile, SEQ_BYTES
<1>8. FileData(w, Len(d)) = d
  <2>1. \A i \in 3 .. 2 + Len(d) : w[i] \in Nat BY <1>4, <1>6
  <2>2. /\ SubSeq(w, 3, 2 + Len(d)) \in Seq(Nat)
        /\ Len(SubSeq(w, 3, 2 + Len(d))) = IF 3 <= 2 + Len(d) THEN 2 + Len(d) - 3 + 1 ELSE 0
        /\ \A i \in 1 .. 2 + Len(d) - 3 + 1 : SubSeq(w, 3, 2 + Len(d))[i] = w[3 + i - 1]
    BY <1>6, <2>1, SubSeqProperties
  <2>3. \A i \in 1 .. Len(d) : SubSeq(w, 3, 2 + Len(d))[i] = d[i] BY <1>4, <1>6, <2>2
  <2>4. SubSeq(w, 3, 2 + Len(d)) = d BY <1>6, <2>2, <2>3, SeqEqual
  <2> QED BY <2>4 DEF FileData, SEQ_BYTES
<1>9. Drop(w, SEQ_BYTES + Len(d)) = <<>>
  BY <1>4, <1>6, SubSeqEmpty DEF Drop, SEQ_BYTES
<1> QED BY <1>4, <1>6, <1>7, <1>8, <1>9 DEF w

-----------------------------------------------------------------------------
(* What the Sender puts into frames.                                       *)

\* No packet is so far into a file that its offset outgrows an int (the run
\* BeyondInt has longer files).
WithinInt ==
  \A size \in Sizes, n \in Nat :
    Sendable(size) /\ n * PACKET_BYTES < size => n * PACKET_BYTES <= INT_MAX

InfoContent(size) == <<1>> \o ToBytes(size, UINT32_BYTE_REP) \o <<0>>
PacketOf(size, n) ==
  SubSeq(Bytes(size), n * PACKET_BYTES + 1, Min({n * PACKET_BYTES + PACKET_BYTES, size}))

\* The bytes of a file.
LEMMA BytesOf ==
  ASSUME NEW n \in Nat
  PROVE  /\ Bytes(n) \in Seq(Nat) /\ Len(Bytes(n)) = n
         /\ \A i \in 1 .. n : Bytes(n)[i] = i - 1
<1>1. \A i \in 1 .. n : i - 1 \in Nat OBVIOUS
<1> QED BY <1>1 DEF Bytes

\* The size announced is the size read.
LEMMA InfoReadBack ==
  ASSUME NEW size \in 0 .. UINT32 - 1
  PROVE  /\ InfoContent(size) \in Framed
         /\ FromBytes(SubSeq(InfoContent(size), 2, 5)) % UINT32 = size
<1> DEFINE b == ToBytes(size, 4)
           c == InfoContent(size)
<1>1. size \in Nat BY Widths
<1>2. b \in Seq(Nat) /\ Len(b) = 4 BY <1>1, BytesTyped
<1>3. c = (<<1>> \o b) \o <<0>> BY DEF InfoContent, UINT32_BYTE_REP
<1>4. /\ <<1>> \in Seq(Nat) /\ Len(<<1>>) = 1 /\ <<1>>[1] = 1
      /\ <<0>> \in Seq(Nat) /\ Len(<<0>>) = 1
  OBVIOUS
<1>5. FromBytes(b) = size BY FourBytesRead
<1> HIDE DEF b, c
<1>6. /\ <<1>> \o b \in Seq(Nat) /\ Len(<<1>> \o b) = 5
      /\ \A i \in 1 .. 4 : (<<1>> \o b)[1 + i] = b[i]
  <2>1. /\ <<1>> \o b \in Seq(Nat) /\ Len(<<1>> \o b) = Len(<<1>>) + Len(b)
        /\ \A i \in 1 .. Len(<<1>>) + Len(b) :
             (<<1>> \o b)[i] = IF i <= Len(<<1>>) THEN <<1>>[i] ELSE b[i - Len(<<1>>)]
    BY <1>2, <1>4, ConcatProperties
  <2> QED BY <1>2, <1>4, <2>1
<1> DEFINE h == <<1>> \o b
<1> HIDE DEF h
<1>7. c = h \o <<0>> /\ h \in Seq(Nat) /\ Len(h) = 5 /\ \A i \in 1 .. 4 : h[1 + i] = b[i]
  BY <1>3, <1>6 DEF h
<1>8. /\ c \in Seq(Nat) /\ Len(c) = 6
      /\ \A i \in 1 .. 4 : c[1 + i] = b[i]
  <2>1. /\ h \o <<0>> \in Seq(Nat) /\ Len(h \o <<0>>) = Len(h) + Len(<<0>>)
        /\ \A i \in 1 .. Len(h) + Len(<<0>>) :
             (h \o <<0>>)[i] = IF i <= Len(h) THEN h[i] ELSE <<0>>[i - Len(h)]
    BY <1>4, <1>7, ConcatProperties
  <2> QED BY <1>4, <1>7, <2>1
<1>9. SubSeq(c, 2, 5) = b
  <2>1. \A i \in 2 .. 5 : c[i] \in Nat
    <3>1. c \in [1 .. 6 -> Nat] BY <1>8, LenProperties
    <3> QED BY <3>1
  <2>2. /\ SubSeq(c, 2, 5) \in Seq(Nat)
        /\ Len(SubSeq(c, 2, 5)) = IF 2 <= 5 THEN 5 - 2 + 1 ELSE 0
        /\ \A i \in 1 .. 5 - 2 + 1 : SubSeq(c, 2, 5)[i] = c[2 + i - 1]
    BY <2>1, SubSeqProperties
  <2>3. \A i \in 1 .. 4 : SubSeq(c, 2, 5)[i] = b[i] BY <1>8, <2>2
  <2> QED BY <1>2, <2>2, <2>3, SeqEqual
<1>10. c \in Framed
  <2>1. 6 \in 1 .. UINT16 - 1 BY WidthsAssumption, Widths DEF UINT32_BYTE_REP
  <2> QED BY <1>8, <2>1 DEF Framed
<1>11. size % UINT32 = size BY Widths
<1> QED BY <1>5, <1>9, <1>10, <1>11 DEF c

\* The lesser of two numbers.
LEMMA MinOfTwo ==
  ASSUME NEW m \in Int, NEW n \in Int
  PROVE  Min({m, n}) = IF m <= n THEN m ELSE n
<1> DEFINE l == IF m <= n THEN m ELSE n
<1>1. \A x \in {m, n} : (\A y \in {m, n} : x <= y) => x = l OBVIOUS
<1>2. l \in {m, n} /\ \A y \in {m, n} : l <= y OBVIOUS
<1> HIDE DEF l
<1>3. Min({m, n}) = l BY <1>1, <1>2 DEF Min
<1> QED BY <1>3 DEF l

\* A packet has the bytes that come next, and as many as the Receiver expects.
LEMMA PacketData ==
  ASSUME NEW size \in Nat, NEW n \in Nat, n * PACKET_BYTES < size
  PROVE  LET o == n * PACKET_BYTES
             l == IF size - o >= PACKET_BYTES THEN PACKET_BYTES ELSE size - o
         IN  /\ PacketOf(size, n) \in Seq(Nat)
             /\ Len(PacketOf(size, n)) = l /\ l \in 1 .. PACKET_BYTES
             /\ Bytes(o) \o PacketOf(size, n) = Bytes(o + l)
<1> DEFINE o == n * PACKET_BYTES
           l == IF size - o >= PACKET_BYTES THEN PACKET_BYTES ELSE size - o
           d == PacketOf(size, n)
<1>1. o \in Nat /\ PACKET_BYTES \in Nat \ {0} BY MessengerAssumption
<1>2. d = SubSeq(Bytes(size), o + 1, Min({o + PACKET_BYTES, size})) BY DEF PacketOf
<1>3. o < size OBVIOUS
<1> HIDE DEF o, d
<1>4. l \in 1 .. PACKET_BYTES /\ l \in Nat /\ o + l <= size BY <1>1, <1>3
<1>5. Min({o + PACKET_BYTES, size}) = o + l BY <1>1, <1>3, MinOfTwo
<1> HIDE DEF l
<1>6. /\ Bytes(size) \in Seq(Nat) /\ Len(Bytes(size)) = size
      /\ \A i \in 1 .. size : Bytes(size)[i] = i - 1
  BY BytesOf
<1>7. /\ d \in Seq(Nat) /\ Len(d) = l
      /\ \A i \in 1 .. l : d[i] = o + i - 1
  <2>1. \A i \in o + 1 .. o + l : Bytes(size)[i] \in Nat BY <1>1, <1>4, <1>6
  <2> DEFINE p == o + 1
             q == o + l
             e == SubSeq(Bytes(size), p, q)
  <2>6. p \in Int /\ q \in Int BY <1>1, <1>4
  <2>7. d = e BY <1>2, <1>5
  <2>2. p \in Int /\ q \in Int /\ d = e BY <2>6, <2>7
  <2> HIDE DEF p, q
  <2>3. /\ e \in Seq(Nat) /\ Len(e) = IF p <= q THEN q - p + 1 ELSE 0
        /\ \A i \in 1 .. q - p + 1 : e[i] = Bytes(size)[p + i - 1]
    <3>1. \A i \in p .. q : Bytes(size)[i] \in Nat BY <2>1 DEF p, q
    <3> QED BY <2>2, <3>1, SubSeqProperties
  <2> HIDE DEF e
  <2>4. p <= q /\ q - p + 1 = l BY <1>1, <1>4 DEF p, q
  <2>5. ASSUME NEW i \in 1 .. l PROVE e[i] = o + i - 1
    <3>1. p + i - 1 = o + i /\ o + i \in 1 .. size BY <1>1, <1>4 DEF p
    <3>2. e[i] = Bytes(size)[o + i] BY <2>3, <2>4, <3>1
    <3>3. Bytes(size)[o + i] = (o + i) - 1 BY <1>6, <3>1
    <3> QED BY <1>1, <3>2, <3>3
  <2> QED BY <2>2, <2>3, <2>4, <2>5
<1>8. /\ Bytes(o) \in Seq(Nat) /\ Len(Bytes(o)) = o
      /\ \A i \in 1 .. o : Bytes(o)[i] = i - 1
  BY <1>1, BytesOf
<1>9. /\ Bytes(o + l) \in Seq(Nat) /\ Len(Bytes(o + l)) = o + l
      /\ \A i \in 1 .. o + l : Bytes(o + l)[i] = i - 1
  BY <1>1, <1>4, BytesOf
<1>10. /\ Bytes(o) \o d \in Seq(Nat) /\ Len(Bytes(o) \o d) = o + l
       /\ \A i \in 1 .. o + l :
            (Bytes(o) \o d)[i] = IF i <= o THEN Bytes(o)[i] ELSE d[i - o]
  <2>1. /\ Bytes(o) \o d \in Seq(Nat) /\ Len(Bytes(o) \o d) = Len(Bytes(o)) + Len(d)
        /\ \A i \in 1 .. Len(Bytes(o)) + Len(d) :
             (Bytes(o) \o d)[i] = IF i <= Len(Bytes(o)) THEN Bytes(o)[i]
                                                      ELSE d[i - Len(Bytes(o))]
    BY <1>7, <1>8, ConcatProperties
  <2> QED BY <1>7, <1>8, <2>1
<1>11. \A i \in 1 .. o + l : (Bytes(o) \o d)[i] = Bytes(o + l)[i]
  <2> TAKE i \in 1 .. o + l
  <2>1. Bytes(o + l)[i] = i - 1 /\ i \in Nat BY <1>1, <1>4, <1>9
  <2>2. CASE i <= o BY <1>1, <1>8, <1>10, <2>1, <2>2
  <2>3. CASE i > o
    <3>1. i - o \in 1 .. l /\ o + (i - o) - 1 = i - 1 BY <1>1, <1>4, <2>1, <2>3
    <3>2. (Bytes(o) \o d)[i] = d[i - o] BY <1>1, <1>10, <2>1, <2>3
    <3>3. d[i - o] = o + (i - o) - 1 BY <1>7, <3>1
    <3> QED BY <2>1, <3>1, <3>2, <3>3
  <2>4. i <= o \/ i > o BY <1>1, <2>1
  <2> QED BY <2>2, <2>3, <2>4
<1>12. Bytes(o) \o d = Bytes(o + l) BY <1>9, <1>10, <1>11, SeqEqual
<1> QED BY <1>4, <1>7, <1>12 DEF o, l, d

-----------------------------------------------------------------------------
(* The invariant.                                                          *)

\* The frames under way; of the first, a part may have been delivered.
Pending(i) == IF i = 1 THEN buffer \o records[1] ELSE records[i]

\* n texts come first.
TextsPending(n) ==
  /\ Len(textsSent) = Len(textsShown) + n
  /\ \A i \in 1 .. n : Pending(i) = Frame(TEXT, textsSent[Len(textsShown) + i])

\* What a write puts into the stream.
Written == Seq(Nat) \ {<<>>}

StreamInv ==
  /\ records \in Seq(Written)
  /\ buffer \in Seq(Nat)
  /\ records = <<>> => buffer = <<>>

TextsInv ==
  /\ textsSent \in Seq(Framed) /\ textsShown \in Seq(Framed)
  /\ Len(textsShown) <= Len(textsSent)
  /\ \A i \in 1 .. Len(textsShown) : textsShown[i] = textsSent[i]

NumbersInv ==
  /\ fileSize \in 0 .. UINT32 - 1
  /\ packetNumber \in Nat /\ PACKET_BYTES * packetNumber < UINT32
  /\ currentFile \in Seq(Nat)

\* No file is on its way.
Idle ==
  /\ sMessageState = "MESSAGE" /\ rMessageState = "MESSAGE"
  /\ file = NoSize
  /\ toSender = <<>>
  /\ TextsPending(Len(records))

Sending == sMessageState = "FILE_SENDING" /\ file \in Sizes /\ Sendable(file)

\* A file is announced, behind the texts.
Announced ==
  /\ Sending /\ rMessageState = "MESSAGE"
  /\ toSender = <<>>
  /\ records # <<>>
  /\ TextsPending(Len(records) - 1)
  /\ Pending(Len(records)) = Frame(INFO, InfoContent(file))

\* The Receiver has the packets before packetNumber, which is not the last yet.
Receiving ==
  /\ Sending /\ rMessageState = "FILE_SENDING"
  /\ TextsPending(0)
  /\ fileSize = file
  /\ packetNumber * PACKET_BYTES < file
  /\ currentFile = Bytes(packetNumber * PACKET_BYTES)

\* A packet is asked for; it is on its way; it was the last.
Asked == Receiving /\ records = <<>> /\ toSender = <<FilePacket(packetNumber)>>

Answered ==
  /\ Receiving
  /\ toSender = <<>> /\ Len(records) = 1
  /\ Pending(1) = FrameFile(packetNumber, PacketOf(file, packetNumber))

Delivered ==
  /\ Sending /\ rMessageState = "MESSAGE"
  /\ TextsPending(0)
  /\ records = <<>> /\ toSender = <<FileSuccess>>
  /\ currentFile = Bytes(file)

PhaseInv == Idle \/ Announced \/ Asked \/ Answered \/ Delivered

PInv == StreamInv /\ TextsInv /\ NumbersInv /\ PhaseInv

-----------------------------------------------------------------------------
(* Writing and delivering frames.                                          *)

\* A write adds a frame behind the others.
LEMMA WriteAdds ==
  ASSUME StreamInv, NEW w \in Seq(Nat), w # <<>>, NEW n, n = Len(records),
         records' = Append(records, w), buffer' = buffer
  PROVE  /\ StreamInv'
         /\ n \in Nat /\ Len(records') = n + 1 /\ records' # <<>>
         /\ \A i \in 1 .. n : Pending(i)' = Pending(i)
         /\ Pending(n + 1)' = w
<1>1. /\ records \in Seq(Written) /\ n \in Nat
      /\ buffer \in Seq(Nat) /\ (records = <<>> => buffer = <<>>)
  BY DEF StreamInv
<1>2. /\ records' \in Seq(Written) /\ records' # <<>>
      /\ Len(records') = n + 1
      /\ \A i \in 1 .. n : records'[i] = records[i]
      /\ records'[n + 1] = w
  <2>1. w \in Written BY DEF Written
  <2> DEFINE r == Append(records, w)
  <2>2. /\ r \in Seq(Written) /\ r # <<>>
        /\ Len(r) = Len(records) + 1
        /\ \A i \in 1 .. Len(records) : r[i] = records[i]
        /\ r[Len(records) + 1] = w
    BY <1>1, <2>1, AppendProperties, SMTT(30)
  <2>3. records' = r OBVIOUS
  <2> HIDE DEF r
  <2> QED BY <2>2, <2>3
<1>3. StreamInv' BY <1>1, <1>2 DEF StreamInv
<1>4. ASSUME NEW i \in 1 .. n PROVE Pending(i)' = Pending(i)
  BY <1>1, <1>2 DEF Pending
<1>5. Pending(n + 1)' = w
  <2>1. CASE records = <<>>
    <3>1. n = 0 /\ n + 1 = 1 /\ buffer' = <<>> BY <1>1, <2>1
    <3>2. Pending(n + 1)' = <<>> \o w BY <1>2, <3>1 DEF Pending
    <3>3. <<>> \o w = w BY ConcatEmptySeq
    <3> QED BY <3>2, <3>3
  <2>2. CASE records # <<>>
    <3>1. n # 0 BY <1>1, <2>2, EmptySeq
    <3>2. n + 1 # 1 BY <1>1, <3>1
    <3> QED BY <1>2, <3>2 DEF Pending
  <2> QED BY <2>1, <2>2
<1> QED BY <1>1, <1>2, <1>3, <1>4, <1>5

\* A piece of the first frame arrives: what is then at hand is the beginning
\* of the frame, and the whole of it with the last piece.
LEMMA PieceAtHand ==
  ASSUME StreamInv, records # <<>>, NEW k \in 1 .. Len(Head(records))
  PROVE  /\ Pending(1) \in Seq(Nat)
         /\ Len(buffer) + k \in 0 .. Len(Pending(1))
         /\ AtHand(k) = SubSeq(Pending(1), 1, Len(buffer) + k)
         /\ k = Len(Head(records)) <=> Len(buffer) + k = Len(Pending(1))
         /\ k = Len(Head(records)) => AtHand(k) = Pending(1)
<1> DEFINE h == Head(records)
<1>1. /\ h \in Seq(Nat) /\ h = records[1] /\ Len(h) \in Nat
      /\ buffer \in Seq(Nat) /\ Len(buffer) \in Nat
  BY HeadTailProperties DEF StreamInv, Written
<1>2. k \in Nat /\ k <= Len(h) /\ k \in 0 .. Len(h) BY <1>1
<1>3. Pending(1) = buffer \o h BY <1>1 DEF Pending
<1> HIDE DEF h
<1> DEFINE p == SubSeq(h, 1, k)
           w == buffer \o h
           m == Len(buffer) + k
<1>4. /\ p \in Seq(Nat) /\ Len(p) = k /\ \A i \in 1 .. k : p[i] = h[i]
      /\ k = Len(h) => p = h
  BY <1>1, <1>2, Beginning
<1>5. AtHand(k) = buffer \o p BY DEF AtHand, h
<1> HIDE DEF p
<1>6. /\ w \in Seq(Nat) /\ Len(w) = Len(buffer) + Len(h)
      /\ \A i \in 1 .. Len(buffer) + Len(h) :
           w[i] = IF i <= Len(buffer) THEN buffer[i] ELSE h[i - Len(buffer)]
  BY <1>1, ConcatProperties
<1>7. /\ buffer \o p \in Seq(Nat) /\ Len(buffer \o p) = Len(buffer) + Len(p)
      /\ \A i \in 1 .. Len(buffer) + Len(p) :
           (buffer \o p)[i] = IF i <= Len(buffer) THEN buffer[i] ELSE p[i - Len(buffer)]
  BY <1>1, <1>4, ConcatProperties
<1> HIDE DEF w
<1>8. m \in 0 .. Len(w) /\ (k = Len(h) <=> m = Len(w))
  <2>1. Len(w) = Len(buffer) + Len(h) BY <1>6
  <2>2. m \in Nat /\ m <= Len(w) BY <1>1, <1>2, <2>1
  <2>3. k = Len(h) <=> m = Len(w) BY <1>1, <1>2, <2>1
  <2>4. Len(w) \in Nat BY <1>1, <2>1
  <2> QED BY <2>2, <2>3, <2>4
<1>9. /\ SubSeq(w, 1, m) \in Seq(Nat) /\ Len(SubSeq(w, 1, m)) = m
      /\ \A i \in 1 .. m : SubSeq(w, 1, m)[i] = w[i]
  BY <1>6, <1>8, Beginning
<1>10. ASSUME NEW i \in 1 .. m PROVE (buffer \o p)[i] = SubSeq(w, 1, m)[i]
  <2>1. SubSeq(w, 1, m)[i] = w[i] /\ i \in Nat BY <1>1, <1>2, <1>9
  <2>2. w[i] = IF i <= Len(buffer) THEN buffer[i] ELSE h[i - Len(buffer)]
    <3>1. i \in 1 .. Len(buffer) + Len(h) BY <1>1, <1>2
    <3> QED BY <1>6, <3>1
  <2>3. (buffer \o p)[i] = IF i <= Len(buffer) THEN buffer[i] ELSE p[i - Len(buffer)]
    <3>1. i \in 1 .. Len(buffer) + Len(p) BY <1>4
    <3> QED BY <1>7, <3>1
  <2>4. i > Len(buffer) => p[i - Len(buffer)] = h[i - Len(buffer)]
    <3>1. i > Len(buffer) => i - Len(buffer) \in 1 .. k BY <1>1, <1>2, <2>1
    <3> QED BY <1>4, <3>1
  <2> QED BY <1>1, <2>1, <2>2, <2>3, <2>4
<1>11. Len(buffer \o p) = m BY <1>4, <1>7
<1>12. buffer \o p = SubSeq(w, 1, m) BY <1>7, <1>9, <1>10, <1>11, SeqEqual
<1>13. k = Len(h) => buffer \o p = w BY <1>4 DEF w
<1> QED BY <1>3, <1>5, <1>6, <1>8, <1>12, <1>13 DEF w, h

\* Joining strings of bytes.
LEMMA Joins ==
  \A u, v, w \in Seq(Nat) : (u \o v) \o w = u \o (v \o w)
<1> TAKE u, v, w \in Seq(Nat)
<1> QED BY ConcatAssociative

\* As long as the first frame is not there, the frames under way stay.
LEMMA PieceStays ==
  ASSUME StreamInv, records # <<>>, NEW n, n = Len(records),
         NEW k \in 1 .. Len(Head(records)), k # Len(Head(records)),
         Deliver(k), buffer' = AtHand(k)
  PROVE  /\ StreamInv'
         /\ Len(records') = n
         /\ \A i \in 1 .. n : Pending(i)' = Pending(i)
<1> DEFINE h == Head(records)
           t == Tail(records)
           d == Drop(h, k)
           r == <<d>> \o t
<1>1. /\ h \in Seq(Nat) /\ h = records[1] /\ Len(h) \in Nat
      /\ buffer \in Seq(Nat) /\ Len(buffer) \in Nat
      /\ records \in Seq(Written) /\ n \in Nat \ {0}
      /\ t \in Seq(Written) /\ Len(t) = n - 1
      /\ \A i \in 1 .. n - 1 : t[i] = records[i + 1]
  <2>1. records \in Seq(Written) /\ buffer \in Seq(Nat) BY DEF StreamInv
  <2>2. /\ h \in Written /\ t \in Seq(Written) /\ Len(t) = Len(records) - 1
        /\ \A i \in 1 .. Len(t) : t[i] = records[i + 1]
    BY <2>1, HeadTailProperties
  <2>3. Len(records) \in Nat \ {0} BY <2>1, EmptySeq
  <2>4. h \in Seq(Nat) BY <2>2 DEF Written
  <2>5. h = records[1] OBVIOUS
  <2> QED BY <2>1, <2>2, <2>3, <2>4, <2>5
<1>2. /\ k \in 1 .. Len(h) /\ k \in Nat /\ k < Len(h)
      /\ records' = r /\ buffer' = buffer \o SubSeq(h, 1, k)
  BY <1>1 DEF Deliver, AtHand
<1> HIDE DEF h, t
<1>3. /\ d \in Seq(Nat) /\ Len(d) = Len(h) - k
  <2>1. \A i \in k + 1 .. Len(h) : h[i] \in Nat BY <1>1, <1>2
  <2>2. /\ SubSeq(h, k + 1, Len(h)) \in Seq(Nat)
        /\ Len(SubSeq(h, k + 1, Len(h)))
             = IF k + 1 <= Len(h) THEN Len(h) - (k + 1) + 1 ELSE 0
    BY <1>1, <1>2, <2>1, SubSeqProperties
  <2> QED BY <1>1, <1>2, <2>2 DEF Drop
<1>4. d \in Written
  <2>1. Len(d) # 0 BY <1>1, <1>2, <1>3
  <2> HIDE DEF d
  <2> QED BY <1>3, <2>1 DEF Written
<1>5. (buffer \o SubSeq(h, 1, k)) \o d = buffer \o h
  <2>1. SubSeq(h, 1, k) \in Seq(Nat) BY <1>1, <1>2, Beginning
  <2>2. SubSeq(h, 1, k) \o SubSeq(h, k + 1, Len(h)) = SubSeq(h, 1, Len(h))
    <3>1. /\ 1 \in 1 .. Len(h) + 1 /\ k \in 1 - 1 .. Len(h) /\ Len(h) \in k .. Len(h)
      BY <1>1, <1>2
    <3> QED BY <1>1, <3>1, ConcatAdjacentSubSeq
  <2>3. SubSeq(h, 1, Len(h)) = h BY <1>1, SubSeqFull
  <2>4. d = SubSeq(h, k + 1, Len(h)) BY DEF Drop
  <2> HIDE DEF d
  <2>5. (buffer \o SubSeq(h, 1, k)) \o d = buffer \o (SubSeq(h, 1, k) \o d)
    <3>1. buffer \in Seq(Nat) /\ d \in Seq(Nat) BY <1>1, <1>3
    <3> DEFINE p == SubSeq(h, 1, k)
    <3>2. p \in Seq(Nat) BY <2>1
    <3> HIDE DEF p
    <3>3. (buffer \o p) \o d = buffer \o (p \o d) BY <3>1, <3>2, Joins
    <3> QED BY <3>3 DEF p
  <2> QED BY <2>2, <2>3, <2>4, <2>5
<1> HIDE DEF d
<1>6. /\ r \in Seq(Written) /\ Len(r) = n
      /\ r[1] = d /\ \A i \in 2 .. n : r[i] = records[i]
  <2>1. <<d>> \in Seq(Written) /\ Len(<<d>>) = 1 /\ <<d>>[1] = d BY <1>4
  <2>2. /\ r \in Seq(Written) /\ Len(r) = Len(<<d>>) + Len(t)
        /\ \A i \in 1 .. Len(<<d>>) + Len(t) :
             r[i] = IF i <= Len(<<d>>) THEN <<d>>[i] ELSE t[i - Len(<<d>>)]
    BY <1>1, <2>1, ConcatProperties
  <2> HIDE DEF r
  <2>3. /\ Len(r) = n
        /\ \A i \in 1 .. n : r[i] = IF i <= 1 THEN <<d>>[i] ELSE t[i - 1]
    BY <1>1, <2>1, <2>2
  <2>4. ASSUME NEW i \in 2 .. n PROVE r[i] = records[i]
    <3>1. i - 1 \in 1 .. n - 1 /\ i \in 1 .. n /\ ~ (i <= 1) /\ (i - 1) + 1 = i BY <1>1
    <3>2. t[i - 1] = records[(i - 1) + 1] BY <1>1, <3>1
    <3> QED BY <2>3, <3>1, <3>2
  <2>5. r[1] = d BY <1>1, <2>1, <2>3
  <2> QED BY <2>2, <2>3, <2>4, <2>5
<1> HIDE DEF r
<1>7. SubSeq(h, 1, k) \in Seq(Nat) /\ buffer \o SubSeq(h, 1, k) \in Seq(Nat)
  <2>1. SubSeq(h, 1, k) \in Seq(Nat) BY <1>1, <1>2, Beginning
  <2> QED BY <1>1, <2>1
<1>8. StreamInv'
  <2>1. records' # <<>> BY <1>1, <1>2, <1>6
  <2> QED BY <1>2, <1>6, <1>7, <2>1 DEF StreamInv
<1>9. ASSUME NEW i \in 1 .. n PROVE Pending(i)' = Pending(i)
  <2>1. CASE i = 1 BY <1>1, <1>2, <1>5, <1>6, <2>1 DEF Pending
  <2>2. CASE i # 1
    <3>1. i \in 2 .. n BY <1>1, <2>2
    <3> QED BY <1>2, <1>6, <2>2, <3>1 DEF Pending
  <2> QED BY <2>1, <2>2
<1> QED BY <1>2, <1>6, <1>8, <1>9

\* Once it is read the others move up.
LEMMA FrameTaken ==
  ASSUME StreamInv, records # <<>>, NEW n, n = Len(records),
         Deliver(Len(Head(records))), buffer' = <<>>
  PROVE  /\ StreamInv'
         /\ n \in Nat \ {0} /\ Len(records') = n - 1
         /\ \A i \in 1 .. n - 1 : Pending(i)' = Pending(i + 1)
<1> DEFINE t == Tail(records)
<1>1. /\ records \in Seq(Written) /\ n \in Nat \ {0}
      /\ t \in Seq(Written) /\ Len(t) = n - 1
      /\ \A i \in 1 .. n - 1 : t[i] = records[i + 1]
  <2>1. records \in Seq(Written) BY DEF StreamInv
  <2>2. /\ t \in Seq(Written) /\ Len(t) = Len(records) - 1
        /\ \A i \in 1 .. Len(t) : t[i] = records[i + 1]
    BY <2>1, HeadTailProperties
  <2>3. Len(records) \in Nat \ {0} BY <2>1, EmptySeq
  <2> QED BY <2>1, <2>2, <2>3
<1>2. records' = t BY DEF Deliver
<1> HIDE DEF t
<1>3. StreamInv'
  <2>1. <<>> \in Seq(Nat) OBVIOUS
  <2> QED BY <1>1, <1>2, <2>1 DEF StreamInv
<1>4. ASSUME NEW i \in 1 .. n - 1 PROVE Pending(i)' = Pending(i + 1)
  <2>1. t[i] = records[i + 1] /\ i + 1 # 1 /\ i \in 1 .. Len(t) BY <1>1
  <2>2. t[i] \in Seq(Nat) BY <1>1, <2>1, ElementOfSeq DEF Written
  <2>3. <<>> \o t[i] = t[i] BY <2>2, ConcatEmptySeq
  <2> QED BY <1>2, <2>1, <2>3 DEF Pending
<1> QED BY <1>1, <1>2, <1>3, <1>4

-----------------------------------------------------------------------------
(* The invariant holds at first, and every step keeps it.                  *)

\* At first no file is on its way and nothing was sent.
LEMMA PInitially == Init => PInv
<1> SUFFICES ASSUME Init PROVE PInv OBVIOUS
<1>1. records = <<>> /\ textsSent = <<>> /\ textsShown = <<>> /\ Len(<<>>) = 0
  BY DEF Init
<1>2. StreamInv /\ TextsInv BY <1>1 DEF Init, StreamInv, TextsInv
<1>3. NumbersInv
  <2>1. PACKET_BYTES * 0 = 0 BY MessengerAssumption
  <2> QED BY <2>1, Widths DEF Init, NumbersInv
<1>4. Idle BY <1>1 DEF Init, Idle, TextsPending
<1> QED BY <1>2, <1>3, <1>4 DEF PInv, PhaseInv

\* Only an idle Sender sends texts and files.
LEMMA IdleUnlessSending ==
  ASSUME PInv, sMessageState # "FILE_SENDING"
  PROVE  Idle
BY DEF PInv, PhaseInv, Announced, Asked, Answered, Delivered, Receiving, Sending

\* frame(Message) of what it refuses, and of what it does not, is such.
LEMMA FrameOrNothing ==
  ASSUME NEW id \in Nat, NEW c \in Seq(Nat)
  PROVE  \/ c \in Framed /\ Frame(id, c) \in Seq(Nat) /\ Frame(id, c) # <<>>
         \/ Frame(id, c) = <<>>
<1>1. CASE c \in Framed
  <2>1. Frame(id, c) \in Seq(Nat) /\ Len(Frame(id, c)) = 3 + Len(c)
    BY <1>1, FrameParts
  <2>2. Len(c) \in Nat BY <1>1 DEF Framed
  <2> QED BY <1>1, <2>1, <2>2
<1>2. CASE c \notin Framed
  BY <1>2 DEF Framed, Frame, MESSAGE_SIZE_INT, UINT16
<1> QED BY <1>1, <1>2

\* A text that frame() accepts goes behind the others; another changes nothing.
LEMMA SendTextKeeps ==
  ASSUME PInv, NEW l \in TextSizes, SendTextMessage(l)
  PROVE  PInv'
<1> DEFINE c == Bytes(l)
           w == Frame(TEXT, c)
<1>0. PICK n : n = Len(records) OBVIOUS
<1>1. Idle BY IdleUnlessSending DEF SendTextMessage
<1>2. /\ Write(w) /\ UNCHANGED <<sMessageState, file, buffer, toSender, receiverVars>>
      /\ textsSent' = IF w = <<>> THEN textsSent ELSE Append(textsSent, c)
  BY DEF SendTextMessage
<1>3. c \in Seq(Nat) /\ TEXT \in Nat BY PacketTransferAssumption, BytesOf DEF TEXT
<1>4. StreamInv /\ TextsInv /\ NumbersInv BY DEF PInv
<1>5. NumbersInv' BY <1>2, <1>4 DEF NumbersInv, receiverVars
<1>6. CASE w = <<>>
  <2>1. records' = records /\ textsSent' = textsSent /\ buffer' = buffer
    BY <1>2, <1>6 DEF Write
  <2>2. \A i : Pending(i)' = Pending(i) BY <2>1 DEF Pending
  <2>3. StreamInv' /\ TextsInv' BY <1>2, <1>4, <2>1 DEF StreamInv, TextsInv, receiverVars
  <2>4. Idle'
    BY <1>1, <1>2, <2>1, <2>2 DEF Idle, TextsPending, receiverVars
  <2> QED BY <1>5, <2>3, <2>4 DEF PInv, PhaseInv
<1>7. CASE w # <<>>
  <2>1. c \in Framed /\ w \in Seq(Nat) BY <1>3, <1>7, FrameOrNothing
  <2> HIDE DEF c, w
  <2>2. records' = Append(records, w) /\ textsSent' = Append(textsSent, c) /\ buffer' = buffer
    BY <1>2, <1>7 DEF Write
  <2>3. /\ StreamInv' /\ n \in Nat /\ Len(records') = n + 1
        /\ \A i \in 1 .. n : Pending(i)' = Pending(i)
        /\ Pending(n + 1)' = w
    BY <1>0, <1>4, <1>7, <2>1, <2>2, WriteAdds
  <2>4. /\ textsShown' = textsShown /\ Len(textsShown) \in Nat /\ Len(textsSent) \in Nat
        /\ textsSent \in Seq(Framed)
    BY <1>2, <1>4 DEF TextsInv, receiverVars
  <2>5. /\ textsSent' \in Seq(Framed) /\ Len(textsSent') = Len(textsSent) + 1
        /\ \A i \in 1 .. Len(textsSent) : textsSent'[i] = textsSent[i]
        /\ textsSent'[Len(textsSent) + 1] = c
    BY <2>1, <2>2, <2>4, AppendProperties
  <2>6. TextsInv' BY <1>4, <2>4, <2>5 DEF TextsInv
  <2>7. /\ Len(textsSent) = Len(textsShown) + n
        /\ \A i \in 1 .. n : Pending(i) = Frame(TEXT, textsSent[Len(textsShown) + i])
    BY <1>0, <1>1 DEF Idle, TextsPending
  <2>8. ASSUME NEW i \in 1 .. n + 1
        PROVE  Pending(i)' = Frame(TEXT, textsSent'[Len(textsShown') + i])
    <3>1. CASE i \in 1 .. n
      <4>1. Len(textsShown) + i \in 1 .. Len(textsSent) BY <2>3, <2>4, <2>7, <3>1
      <4> QED BY <2>3, <2>4, <2>5, <2>7, <3>1, <4>1
    <3>2. CASE i = n + 1
      <4>1. Len(textsShown) + i = Len(textsSent) + 1 BY <2>3, <2>4, <2>7, <3>2
      <4> QED BY <2>3, <2>4, <2>5, <3>2, <4>1 DEF w, Pending
    <3>3. i \in 1 .. n \/ i = n + 1 BY <2>3
    <3> QED BY <3>1, <3>2, <3>3
  <2>9. Idle'
    <3>1. Len(textsSent') = Len(textsShown') + Len(records') BY <2>3, <2>4, <2>5, <2>7
    <3>2. \A i \in 1 .. Len(records') :
            Pending(i)' = Frame(TEXT, textsSent'[Len(textsShown') + i])
      BY <2>3, <2>8
    <3> QED BY <1>1, <1>2, <3>1, <3>2 DEF Idle, TextsPending, receiverVars
  <2> QED BY <1>5, <2>3, <2>6, <2>9 DEF PInv, PhaseInv
<1> QED BY <1>6, <1>7

\* The announcement of a file goes behind the texts.
LEMMA SendFileKeeps ==
  ASSUME PInv, NEW size \in Sizes, SendFile(size)
  PROVE  PInv'
<1> DEFINE c == InfoContent(size)
           w == Frame(INFO, c)
<1>0. PICK n : n = Len(records) OBVIOUS
<1>1. Idle BY IdleUnlessSending DEF SendFile
<1>2. /\ Write(w) /\ UNCHANGED <<textsSent, buffer, toSender, receiverVars>>
      /\ Sendable(size) /\ file' = size /\ sMessageState' = "FILE_SENDING"
  BY DEF SendFile, InfoContent
<1>3. c \in Framed
  <2>1. size \in 0 .. UINT32 - 1 BY <1>2, Widths, PacketTransferAssumption DEF Sendable
  <2> QED BY <2>1, InfoReadBack
<1>4. StreamInv /\ TextsInv /\ NumbersInv BY DEF PInv
<1>5. NumbersInv' /\ TextsInv' BY <1>2, <1>4 DEF NumbersInv, TextsInv, receiverVars
<1>6. w \in Seq(Nat) /\ w # <<>>
  <2>1. INFO \in Nat BY DEF INFO
  <2>2. Frame(INFO, c) \in Seq(Nat) /\ Len(Frame(INFO, c)) = 3 + Len(c) BY <1>3, <2>1, FrameParts
  <2>3. Len(c) \in Nat BY <1>3 DEF Framed
  <2> HIDE DEF c
  <2> QED BY <2>2, <2>3
<1> HIDE DEF w
<1>7. records' = Append(records, w) /\ buffer' = buffer BY <1>2, <1>6 DEF Write
<1>8. /\ StreamInv' /\ n \in Nat /\ Len(records') = n + 1 /\ records' # <<>>
      /\ \A i \in 1 .. n : Pending(i)' = Pending(i)
      /\ Pending(n + 1)' = w
  BY <1>0, <1>4, <1>6, <1>7, WriteAdds
<1>9. Announced'
  <2>1. Len(textsSent) = Len(textsShown) + n BY <1>0, <1>1 DEF Idle, TextsPending
  <2>2. \A i \in 1 .. n : Pending(i)' = Frame(TEXT, textsSent[Len(textsShown) + i])
    BY <1>0, <1>1, <1>8 DEF Idle, TextsPending
  <2>3. Len(records') - 1 = n /\ Len(records') = n + 1 BY <1>8
  <2>4. TextsPending(Len(records) - 1)'
    BY <1>2, <2>1, <2>2, <2>3 DEF TextsPending, receiverVars
  <2>5. Pending(Len(records))' = Frame(INFO, InfoContent(file))'
    BY <1>2, <1>8, <2>3 DEF w, Pending
  <2> QED BY <1>1, <1>2, <1>8, <2>4, <2>5 DEF Announced, Sending, Idle, receiverVars
<1> QED BY <1>5, <1>8, <1>9 DEF PInv, PhaseInv

\* The number of the packet asked for has two bytes, and its offset is exact.
LEMMA NumberFits ==
  ASSUME WithinInt, Receiving, PInv
  PROVE  /\ packetNumber \in 0 .. UINT16 - 1
         /\ Offset(packetNumber) = {packetNumber * PACKET_BYTES}
         /\ packetNumber * PACKET_BYTES + PACKET_BYTES < UINT32
         /\ file \in Nat /\ file \in 0 .. UINT32 - 1
<1> DEFINE o == packetNumber * PACKET_BYTES
<1>1. packetNumber \in Nat /\ PACKET_BYTES \in Nat \ {0}
  BY MessengerAssumption DEF PInv, NumbersInv
<1>2. file \in Sizes /\ Sendable(file) /\ o < file BY DEF Receiving, Sending
<1>3. file \in Nat /\ file \in 0 .. UINT32 - 1
  BY <1>2, PacketTransferAssumption, Widths DEF Sendable
<1>4. o <= INT_MAX BY <1>1, <1>2 DEF WithinInt
<1>5. packetNumber < UINT16
  <2>1. packetNumber * PACKET_BYTES < UINT16 * PACKET_BYTES
    BY <1>1, <1>4, Widths, WidthsAssumption
  <2> QED BY <1>1, <2>1, Widths
<1>6. packetNumber % UINT16 = packetNumber BY <1>1, <1>5, Widths
<1>7. Offset(packetNumber) = {o} BY <1>4, <1>6 DEF Offset
<1>8. o + PACKET_BYTES < UINT32 BY <1>1, <1>4, Widths, WidthsAssumption
<1> QED BY <1>1, <1>3, <1>5, <1>7, <1>8, Widths

\* The packet asked for is the one that is sent.
LEMMA HandleFilePacketKeeps ==
  ASSUME WithinInt, PInv, HandleFilePacket
  PROVE  PInv'
<1> DEFINE n == packetNumber
           d == PacketOf(file, n)
           w == FrameFile(n, d)
<1>1. Asked
  <2>1. toSender # <<>> /\ Head(toSender).type = "FILE_PACKET" BY DEF HandleFilePacket, Reads
  <2>2. ~Delivered BY <2>1 DEF Delivered, FileSuccess
  <2>3. ~Idle /\ ~Announced /\ ~Answered BY <2>1 DEF Idle, Announced, Answered
  <2> QED BY <2>2, <2>3 DEF PInv, PhaseInv
<1>2. Head(toSender).packet = n /\ toSender' = <<>> /\ records = <<>> /\ Receiving
  BY <1>1 DEF Asked, FilePacket, HandleFilePacket, Reads
<1>3. /\ n \in 0 .. UINT16 - 1 /\ Offset(n) = {n * PACKET_BYTES} /\ file \in Nat
  BY <1>2, NumberFits
<1>4. Write(w) /\ UNCHANGED <<senderVars, buffer, receiverVars>>
  BY <1>2, <1>3 DEF HandleFilePacket, PacketOf
<1>5. d \in Seq(Nat) /\ Len(d) \in 1 .. PACKET_BYTES
  <2>1. n \in Nat /\ n * PACKET_BYTES < file BY <1>2, <1>3, Widths DEF Receiving
  <2> QED BY <1>3, <2>1, PacketData
<1>6. w \in Seq(Nat) /\ w # <<>>
  <2> HIDE DEF n, d
  <2>1. (w \in Seq(Nat) /\ w # <<>>) \/ 0 \notin 0 .. Len(w) BY <1>3, <1>5, PacketReadBack
  <2>2. Len(w) \in Nat
    <3>1. ToBytes(n % UINT16, SEQ_BYTES) \in Seq(Nat)
      BY <1>3, Widths, BytesTyped DEF SEQ_BYTES
    <3> QED BY <1>5, <3>1 DEF FrameFile
  <2> QED BY <2>1, <2>2
<1>7. StreamInv /\ TextsInv /\ NumbersInv BY DEF PInv
<1>8. TextsInv' /\ NumbersInv'
  BY <1>4, <1>7 DEF TextsInv, NumbersInv, senderVars, receiverVars
<1>9. PICK m : m = Len(records) OBVIOUS
<1>10. /\ StreamInv' /\ Len(records') = 1 /\ Pending(1)' = w
  <2> HIDE DEF w
  <2>1. records' = Append(records, w) /\ buffer' = buffer BY <1>4, <1>6 DEF Write
  <2>2. m = 0 BY <1>2, <1>9
  <2>3. StreamInv' /\ Len(records') = m + 1 /\ Pending(m + 1)' = w
    BY <1>6, <1>7, <1>9, <2>1, WriteAdds
  <2>4. m + 1 = 1 BY <2>2
  <2> QED BY <2>3, <2>4 DEF Pending
<1>11. Answered'
  <2>1. UNCHANGED <<sMessageState, file, textsSent, rMessageState, fileSize, packetNumber,
                    currentFile, textsShown>>
    BY <1>4 DEF senderVars, receiverVars
  <2>2. TextsPending(0)' BY <1>2, <2>1 DEF Receiving, TextsPending
  <2>3. Receiving' BY <1>2, <2>1, <2>2 DEF Receiving, Sending
  <2> QED BY <1>2, <1>10, <2>1, <2>3 DEF Answered
<1> QED BY <1>8, <1>10, <1>11 DEF PInv, PhaseInv

\* After success both ends are where they were before the file.
LEMMA HandleFileSuccessKeeps ==
  ASSUME PInv, HandleFileSuccess
  PROVE  PInv'
<1>1. Delivered
  <2>1. toSender # <<>> /\ Head(toSender).type = "FILE_SUCCESS" BY DEF HandleFileSuccess, Reads
  <2>2. ~Asked BY <2>1 DEF Asked, FilePacket
  <2>3. ~Idle /\ ~Announced /\ ~Answered BY <2>1 DEF Idle, Announced, Answered
  <2> QED BY <2>2, <2>3 DEF PInv, PhaseInv
<1>2. /\ toSender' = <<>> /\ sMessageState' = "MESSAGE" /\ file' = NoSize
      /\ UNCHANGED <<textsSent, records, buffer, receiverVars>>
  BY <1>1 DEF Delivered, HandleFileSuccess, Reads
<1>3. StreamInv' /\ TextsInv' /\ NumbersInv'
  BY <1>2 DEF PInv, StreamInv, TextsInv, NumbersInv, receiverVars
<1>4. Len(records') = 0 BY <1>1, <1>2 DEF Delivered
<1>5. Idle'
  BY <1>1, <1>2, <1>4 DEF Idle, Delivered, TextsPending, receiverVars
<1> QED BY <1>3, <1>5 DEF PInv, PhaseInv

-----------------------------------------------------------------------------
(* Arrivals.                                                               *)

\* Too little is at hand: everything stays as it was.
LEMMA NothingReadKeeps ==
  ASSUME PInv, records # <<>>, NEW k \in 1 .. Len(Head(records)), k # Len(Head(records)),
         Deliver(k), ReadsNothing(k), UNCHANGED senderVars
  PROVE  PInv'
<1>1. StreamInv /\ buffer' = AtHand(k) /\ UNCHANGED <<senderVars, toSender, receiverVars>>
  BY DEF PInv, ReadsNothing
<1>2. PICK n : n = Len(records) OBVIOUS
<1>3. StreamInv' /\ Len(records') = n /\ \A i \in 1 .. n : Pending(i)' = Pending(i)
  BY <1>1, <1>2, PieceStays
<1>4. n \in Nat \ {0} /\ records' # <<>>
  <2>1. n \in Nat \ {0} BY <1>1, <1>2, EmptySeq DEF StreamInv
  <2> QED BY <1>3, <2>1
<1>5. UNCHANGED <<sMessageState, file, textsSent, rMessageState, fileSize, packetNumber,
                  currentFile, textsShown, toSender>>
  BY <1>1 DEF senderVars, receiverVars
<1>6. TextsInv' /\ NumbersInv' BY <1>5 DEF PInv, TextsInv, NumbersInv
<1>7. CASE Idle
  <2>1. TextsPending(Len(records))'
    BY <1>2, <1>3, <1>5, <1>7 DEF Idle, TextsPending
  <2>2. Idle' BY <1>5, <1>7, <2>1 DEF Idle
  <2> QED BY <1>3, <1>6, <2>2 DEF PInv, PhaseInv
<1>8. CASE Announced
  <2>1. TextsPending(Len(records) - 1)'
    <3>1. \A i \in 1 .. n - 1 : i \in 1 .. n BY <1>4
    <3> QED BY <1>2, <1>3, <1>5, <1>8, <3>1 DEF Announced, TextsPending
  <2>2. Pending(n)' = Frame(INFO, InfoContent(file))
    <3>1. n \in 1 .. n BY <1>4
    <3> QED BY <1>2, <1>3, <1>8, <3>1 DEF Announced
  <2>3. Pending(Len(records))' = Frame(INFO, InfoContent(file))'
    BY <1>3, <1>5, <2>2 DEF Pending
  <2>4. Announced' BY <1>4, <1>5, <1>8, <2>1, <2>3 DEF Announced, Sending
  <2> QED BY <1>3, <1>6, <2>4 DEF PInv, PhaseInv
<1>9. CASE Answered
  <2>1. n = 1 BY <1>2, <1>9 DEF Answered
  <2>2. Pending(1)' = FrameFile(packetNumber, PacketOf(file, packetNumber))
    BY <1>3, <1>9, <2>1 DEF Answered
  <2>3. TextsPending(0)' BY <1>5, <1>9 DEF Answered, Receiving, TextsPending
  <2>4. Receiving' BY <1>5, <1>9, <2>3 DEF Answered, Receiving, Sending
  <2>5. Answered' BY <1>3, <1>5, <1>9, <2>1, <2>2, <2>4 DEF Answered
  <2> QED BY <1>3, <1>6, <2>5 DEF PInv, PhaseInv
<1> QED BY <1>7, <1>8, <1>9 DEF PInv, PhaseInv, Asked, Delivered

\* What is at hand of a message, and what is read of it.
LEMMA MessageAtHand ==
  ASSUME StreamInv, records # <<>>, NEW k \in 1 .. Len(Head(records)),
         NEW id \in Nat, NEW c \in Framed, Pending(1) = Frame(id, c)
  PROVE  /\ HasMessage(AtHand(k)) <=> k = Len(Head(records))
         /\ k = Len(Head(records)) =>
              /\ MessageType(AtHand(k)) = id /\ MessageContent(AtHand(k)) = c
              /\ Drop(AtHand(k), MessageSize(AtHand(k))) = <<>>
<1> DEFINE w == Frame(id, c)
<1>1. PICK m : m = Len(buffer) + k OBVIOUS
<1>2. /\ m \in 0 .. Len(w) /\ AtHand(k) = SubSeq(w, 1, m)
      /\ k = Len(Head(records)) <=> m = Len(w)
      /\ k = Len(Head(records)) => AtHand(k) = w
  BY <1>1, PieceAtHand
<1>3. /\ HasMessage(SubSeq(w, 1, m)) <=> m = Len(w)
      /\ MessageType(w) = id /\ MessageContent(w) = c
      /\ Drop(w, MessageSize(w)) = <<>>
  BY <1>2, FrameReadBack
<1> HIDE DEF w
<1> QED BY <1>2, <1>3

\* A text is read whole and shown.
LEMMA TextReadKeeps ==
  ASSUME PInv, records # <<>>, NEW k \in 1 .. Len(Head(records)), Deliver(k),
         ReadsNothing(k) \/ ReadsOtherMessage(k) \/ ReadsFileInfo(k) \/ ReadsPacket(k),
         UNCHANGED senderVars,
         Idle \/ Announced, Announced => Len(records) # 1
  PROVE  PInv'
<1>1. StreamInv /\ TextsInv /\ NumbersInv BY DEF PInv
<1>2. PICK n : n = Len(records) OBVIOUS
<1>3. n \in Nat \ {0} BY <1>1, <1>2, EmptySeq DEF StreamInv
<1>4. PICK l : l = IF Idle THEN n ELSE n - 1 OBVIOUS
<1>5. /\ rMessageState = "MESSAGE" /\ toSender = <<>>
      /\ l \in Nat \ {0} /\ l <= n /\ TextsPending(l)
  BY <1>2, <1>3, <1>4 DEF Idle, Announced
<1>6. PICK s : s = Len(textsShown) OBVIOUS
<1>7. s \in Nat /\ Len(textsSent) = s + l /\ textsSent \in Seq(Framed) /\ textsShown \in Seq(Framed)
  BY <1>1, <1>5, <1>6 DEF TextsInv, TextsPending
<1>8. PICK c : c = textsSent[s + 1] OBVIOUS
<1>9. c \in Framed /\ Pending(1) = Frame(TEXT, c) /\ TEXT \in Nat
  <2>1. s + 1 \in 1 .. Len(textsSent) /\ 1 \in 1 .. l BY <1>5, <1>7
  <2>2. c \in Framed BY <1>7, <1>8, <2>1, ElementOfSeq
  <2> QED BY <1>5, <1>6, <1>8, <2>1, <2>2 DEF TextsPending, TEXT
<1>10. /\ HasMessage(AtHand(k)) <=> k = Len(Head(records))
       /\ k = Len(Head(records)) =>
            /\ MessageType(AtHand(k)) = TEXT /\ MessageContent(AtHand(k)) = c
            /\ Drop(AtHand(k), MessageSize(AtHand(k))) = <<>>
  BY <1>1, <1>9, MessageAtHand
<1>11. CASE k # Len(Head(records))
  <2>1. ReadsNothing(k)
    BY <1>5, <1>10, <1>11 DEF ReadsOtherMessage, ReadsFileInfo, ReadsMessage, ReadsPacket
  <2> QED BY <1>11, <2>1, NothingReadKeeps
<1>12. CASE k = Len(Head(records))
  <2>1. ReadsOtherMessage(k)
    BY <1>5, <1>10, <1>12 DEF ReadsNothing, ReadsFileInfo, ReadsPacket, TEXT, INFO
  <2>2. /\ buffer' = <<>> /\ textsShown' = Append(textsShown, c)
        /\ UNCHANGED <<sMessageState, file, textsSent, toSender, rMessageState, fileSize,
                       packetNumber, currentFile>>
    BY <1>10, <1>12, <2>1 DEF ReadsOtherMessage, ReadsMessage, senderVars
  <2>3. StreamInv' /\ Len(records') = n - 1 /\ \A i \in 1 .. n - 1 : Pending(i)' = Pending(i + 1)
    BY <1>1, <1>2, <1>12, <2>2, FrameTaken
  <2>4. /\ textsShown' \in Seq(Framed) /\ Len(textsShown') = s + 1
        /\ \A i \in 1 .. s : textsShown'[i] = textsShown[i]
        /\ textsShown'[s + 1] = c
    BY <1>6, <1>7, <1>9, <2>2, AppendProperties
  <2>5. TextsInv'
    <3>1. s + 1 <= Len(textsSent) BY <1>5, <1>7
    <3>2. ASSUME NEW i \in 1 .. s + 1 PROVE textsShown'[i] = textsSent[i]
      <4>1. CASE i \in 1 .. s BY <1>1, <1>6, <2>4, <4>1 DEF TextsInv
      <4>2. CASE i = s + 1 BY <1>8, <2>4, <4>2
      <4>3. i \in 1 .. s \/ i = s + 1 BY <1>7
      <4> QED BY <4>1, <4>2, <4>3
    <3> QED BY <1>7, <2>2, <2>4, <3>1, <3>2 DEF TextsInv
  <2>6. NumbersInv' BY <1>1, <2>2 DEF NumbersInv
  <2>7. ASSUME NEW i \in 1 .. l - 1
        PROVE  Pending(i)' = Frame(TEXT, textsSent[(s + 1) + i])
    <3>1. i \in 1 .. n - 1 /\ i + 1 \in 1 .. l /\ s + (i + 1) = (s + 1) + i BY <1>3, <1>5, <1>7
    <3>2. Pending(i)' = Pending(i + 1) BY <2>3, <3>1
    <3>3. Pending(i + 1) = Frame(TEXT, textsSent[s + (i + 1)])
      BY <1>5, <1>6, <3>1 DEF TextsPending
    <3> QED BY <3>1, <3>2, <3>3
  <2>8. Len(textsSent') = Len(textsShown') + (l - 1)
    <3>1. Len(textsSent') = s + l BY <1>7, <2>2
    <3>2. s + l = (s + 1) + (l - 1) BY <1>5, <1>7
    <3> QED BY <2>4, <3>1, <3>2
  <2>9. CASE Idle
    <3>1. Len(records') = l - 1 BY <1>4, <2>3, <2>9
    <3>2. TextsPending(Len(records))' BY <2>2, <2>4, <2>7, <2>8, <3>1 DEF TextsPending
    <3>3. Idle' BY <2>2, <2>9, <3>2 DEF Idle
    <3> QED BY <2>3, <2>5, <2>6, <3>3 DEF PInv, PhaseInv
  <2>10. CASE Announced
    <3>1. ~Idle BY <2>10 DEF Idle, Announced, Sending
    <3>2. l = n - 1 /\ n # 1 /\ Len(records') - 1 = l - 1 /\ records' # <<>>
      BY <1>2, <1>3, <1>4, <2>3, <2>10, <3>1
    <3>3. TextsPending(Len(records) - 1)' BY <2>2, <2>4, <2>7, <2>8, <3>2 DEF TextsPending
    <3>4. Pending(n - 1)' = Frame(INFO, InfoContent(file))
      <4>1. n - 1 \in 1 .. n - 1 /\ (n - 1) + 1 = n BY <1>3, <3>2
      <4>2. Pending(n) = Frame(INFO, InfoContent(file)) BY <1>2, <2>10 DEF Announced
      <4> QED BY <2>3, <4>1, <4>2
    <3>5. Pending(Len(records))' = Frame(INFO, InfoContent(file))'
      BY <2>2, <2>3, <3>4 DEF Pending
    <3>6. Announced' BY <2>2, <2>10, <3>2, <3>3, <3>5 DEF Announced, Sending
    <3> QED BY <2>3, <2>5, <2>6, <3>6 DEF PInv, PhaseInv
  <2> QED BY <2>9, <2>10
<1> QED BY <1>11, <1>12

\* The announcement is read whole, once no text is before it.
LEMMA InfoReadKeeps ==
  ASSUME PInv, records # <<>>, NEW k \in 1 .. Len(Head(records)), Deliver(k),
         ReadsNothing(k) \/ ReadsOtherMessage(k) \/ ReadsFileInfo(k) \/ ReadsPacket(k),
         UNCHANGED senderVars,
         Announced, Len(records) = 1
  PROVE  PInv'
<1>1. StreamInv /\ TextsInv /\ NumbersInv BY DEF PInv
<1>2. PICK c : c = InfoContent(file) OBVIOUS
<1>3. /\ rMessageState = "MESSAGE" /\ toSender = <<>>
      /\ Pending(1) = Frame(INFO, c)
      /\ file \in Sizes /\ Sendable(file) /\ TextsPending(0)
  BY <1>2 DEF Announced, Sending
<1>4. /\ c \in Framed /\ FromBytes(SubSeq(c, 2, 5)) % UINT32 = file /\ INFO \in Nat
      /\ file \in 0 .. UINT32 - 1 /\ file \in Nat /\ file > 0
  <2>1. file \in 0 .. UINT32 - 1 /\ file \in Nat /\ file > 0
    BY <1>3, PacketTransferAssumption, Widths DEF Sendable
  <2> QED BY <1>2, <2>1, InfoReadBack DEF INFO
<1>5. /\ HasMessage(AtHand(k)) <=> k = Len(Head(records))
      /\ k = Len(Head(records)) =>
           /\ MessageType(AtHand(k)) = INFO /\ MessageContent(AtHand(k)) = c
           /\ Drop(AtHand(k), MessageSize(AtHand(k))) = <<>>
  BY <1>1, <1>3, <1>4, MessageAtHand
<1>6. CASE k # Len(Head(records))
  <2>1. ReadsNothing(k)
    BY <1>3, <1>5, <1>6 DEF ReadsOtherMessage, ReadsFileInfo, ReadsMessage, ReadsPacket
  <2> QED BY <1>6, <2>1, NothingReadKeeps
<1>7. CASE k = Len(Head(records))
  <2>1. ReadsFileInfo(k)
    BY <1>3, <1>5, <1>7 DEF ReadsNothing, ReadsOtherMessage, ReadsPacket
  <2>2. /\ buffer' = <<>> /\ fileSize' = file /\ packetNumber' = 0 /\ currentFile' = <<>>
        /\ rMessageState' = "FILE_SENDING" /\ toSender' = <<FilePacket(0)>>
        /\ UNCHANGED <<sMessageState, file, textsSent, textsShown>>
    BY <1>3, <1>4, <1>5, <1>7, <2>1 DEF ReadsFileInfo, ReadsMessage, senderVars, UINT32_BYTE_REP
  <2>3. StreamInv' /\ Len(records') = 0
    <3>1. PICK n : n = Len(records) OBVIOUS
    <3>2. StreamInv' /\ Len(records') = n - 1 BY <1>1, <1>7, <2>2, <3>1, FrameTaken
    <3> QED BY <3>1, <3>2
  <2>4. records' = <<>> BY <2>3, EmptySeq DEF StreamInv
  <2>5. PACKET_BYTES * 0 = 0 /\ 0 * PACKET_BYTES = 0 BY MessengerAssumption
  <2>6. TextsInv' /\ NumbersInv'
    BY <1>1, <1>4, <2>2, <2>5, Widths DEF TextsInv, NumbersInv
  <2>7. Receiving'
    <3>1. TextsPending(0)' BY <1>3, <2>2 DEF TextsPending
    <3>2. Bytes(0) = <<>> BY DEF Bytes
    <3> QED BY <1>3, <1>4, <2>2, <2>5, <3>1, <3>2 DEF Receiving, Sending, Announced
  <2>8. Asked' BY <2>2, <2>4, <2>7 DEF Asked
  <2> QED BY <2>3, <2>6, <2>8 DEF PInv, PhaseInv
<1> QED BY <1>6, <1>7


\* A packet is read whole; it was the last or the next is asked for.
LEMMA PacketReadKeeps ==
  ASSUME WithinInt, PInv, records # <<>>, NEW k \in 1 .. Len(Head(records)), Deliver(k),
         ReadsNothing(k) \/ ReadsOtherMessage(k) \/ ReadsFileInfo(k) \/ ReadsPacket(k),
         UNCHANGED senderVars,
         Answered
  PROVE  PInv'
<1>1. StreamInv /\ TextsInv /\ NumbersInv BY DEF PInv
<1>2. PICK n, o, s : n = packetNumber /\ o = n * PACKET_BYTES /\ s = file OBVIOUS
<1>3. /\ Receiving /\ rMessageState = "FILE_SENDING" /\ toSender = <<>> /\ Len(records) = 1
      /\ Pending(1) = FrameFile(n, PacketOf(s, n))
      /\ s \in Sizes /\ Sendable(s) /\ TextsPending(0)
      /\ fileSize = s /\ o < s /\ currentFile = Bytes(o)
  BY <1>2 DEF Answered, Receiving, Sending
<1>4. /\ n \in 0 .. UINT16 - 1 /\ o + PACKET_BYTES < UINT32
      /\ s \in Nat /\ s \in 0 .. UINT32 - 1
  BY <1>2, <1>3, NumberFits
<1>5. n \in Nat /\ PACKET_BYTES \in Nat \ {0} /\ UINT32 \in Nat \ {0}
  BY <1>4, Widths, MessengerAssumption
<1>6. o \in Nat /\ o = PACKET_BYTES * n /\ (n + 1) * PACKET_BYTES = o + PACKET_BYTES
      /\ PACKET_BYTES * (n + 1) = o + PACKET_BYTES
  BY <1>2, <1>5
<1>7. RemainingBytes = s - o
  <2>1. RemainingBytes = (UINT32 + s - o) % UINT32 BY <1>2, <1>3, <1>6 DEF RemainingBytes
  <2>2. s - o \in Nat /\ s - o < UINT32 BY <1>3, <1>4, <1>5, <1>6
  <2>3. UINT32 + s - o = UINT32 + (s - o) BY <1>4, <1>5, <1>6
  <2>4. (UINT32 + (s - o)) % UINT32 = s - o
    <3>1. \A x \in Nat : x < UINT32 => (UINT32 + x) % UINT32 = x BY <1>5
    <3> QED BY <2>2, <3>1
  <2> QED BY <2>1, <2>3, <2>4
<1>8. PICK l : l = ExpectedPacketSize OBVIOUS
<1>9. PICK d : d = PacketOf(s, n) OBVIOUS
<1>10. /\ l = IF s - o >= PACKET_BYTES THEN PACKET_BYTES ELSE s - o
       /\ d \in Seq(Nat) /\ Len(d) = l /\ l \in 1 .. PACKET_BYTES
       /\ Bytes(o) \o d = Bytes(o + l)
  <2>1. l = IF s - o >= PACKET_BYTES THEN PACKET_BYTES ELSE s - o
    BY <1>7, <1>8 DEF ExpectedPacketSize
  <2> QED BY <1>2, <1>3, <1>4, <1>5, <1>9, <2>1, PacketData
<1>11. PICK w : w = FrameFile(n, d) OBVIOUS
<1>12. PICK m : m = Len(buffer) + k OBVIOUS
<1>13. /\ m \in 0 .. Len(w) /\ AtHand(k) = SubSeq(w, 1, m)
       /\ k = Len(Head(records)) <=> m = Len(w)
       /\ k = Len(Head(records)) => AtHand(k) = w
  BY <1>1, <1>3, <1>9, <1>11, <1>12, PieceAtHand
<1>14. /\ HasFile(SubSeq(w, 1, m), l) <=> m = Len(w)
       /\ FileData(w, l) = d
       /\ Drop(w, SEQ_BYTES + l) = <<>>
  BY <1>4, <1>10, <1>11, <1>13, PacketReadBack
<1>15. CASE k # Len(Head(records))
  <2>1. ~HasFile(AtHand(k), ExpectedPacketSize) BY <1>8, <1>13, <1>14, <1>15
  <2>2. ReadsNothing(k)
    BY <1>3, <2>1 DEF ReadsOtherMessage, ReadsFileInfo, ReadsMessage, ReadsPacket
  <2> QED BY <1>15, <2>2, NothingReadKeeps
<1>16. CASE k = Len(Head(records))
  <2>1. HasFile(AtHand(k), ExpectedPacketSize) /\ AtHand(k) = w BY <1>8, <1>13, <1>14, <1>16
  <2>2. ReadsPacket(k)
    BY <1>3, <2>1 DEF ReadsNothing, ReadsOtherMessage, ReadsFileInfo, ReadsMessage
  <2>3. /\ buffer' = <<>> /\ packetNumber' = n + 1 /\ currentFile' = Bytes(o + l)
        /\ UNCHANGED <<sMessageState, file, textsSent, textsShown, fileSize>>
    BY <1>2, <1>3, <1>8, <1>10, <1>14, <2>1, <2>2 DEF ReadsPacket, senderVars
  <2>4. \/ LastPacket /\ toSender' = <<FileSuccess>> /\ rMessageState' = "MESSAGE"
        \/ /\ ~LastPacket /\ toSender' = <<FilePacket(n + 1)>>
           /\ rMessageState' = "FILE_SENDING"
    BY <1>2, <1>3, <2>2 DEF ReadsPacket
  <2>5. StreamInv' /\ Len(records') = 0
    <3>1. PICK r : r = Len(records) OBVIOUS
    <3>2. StreamInv' /\ Len(records') = r - 1 BY <1>1, <1>16, <2>3, <3>1, FrameTaken
    <3> QED BY <1>3, <3>1, <3>2
  <2>6. records' = <<>> BY <2>5, EmptySeq DEF StreamInv
  <2>7. TextsInv' BY <1>1, <2>3 DEF TextsInv
  <2>8. NumbersInv'
    <3>1. o + l \in Nat BY <1>5, <1>6, <1>10
    <3>2. Bytes(o + l) \in Seq(Nat) BY <3>1, BytesOf
    <3>3. n + 1 \in Nat /\ PACKET_BYTES * (n + 1) < UINT32 BY <1>4, <1>5, <1>6
    <3> QED BY <1>1, <2>3, <3>2, <3>3 DEF NumbersInv
  <2>9. TextsPending(0)' BY <1>3, <2>3 DEF TextsPending
  <2>10. (Sending /\ fileSize = file)' BY <1>2, <1>3, <2>3 DEF Receiving, Sending
  <2>11. CASE LastPacket
    <3>1. s - o <= PACKET_BYTES BY <1>7, <2>11 DEF LastPacket
    <3>2. o + l = s BY <1>4, <1>5, <1>6, <1>10, <3>1
    <3>3. currentFile' = Bytes(file)' BY <1>2, <2>3, <3>2 DEF Bytes
    <3>4. Delivered' BY <2>4, <2>6, <2>9, <2>10, <2>11, <3>3 DEF Delivered
    <3> QED BY <2>5, <2>7, <2>8, <3>4 DEF PInv, PhaseInv
  <2>12. CASE ~LastPacket
    <3>1. s - o > PACKET_BYTES BY <1>4, <1>5, <1>6, <1>7, <2>12 DEF LastPacket
    <3>2. l = PACKET_BYTES /\ o + PACKET_BYTES < s BY <1>4, <1>5, <1>6, <1>10, <3>1
    <3>3. packetNumber' * PACKET_BYTES = o + PACKET_BYTES BY <1>6, <2>3
    <3>4. (packetNumber * PACKET_BYTES < file)' BY <1>2, <2>3, <3>2, <3>3
    <3>5. currentFile' = Bytes(packetNumber * PACKET_BYTES)'
      BY <2>3, <3>2, <3>3 DEF Bytes
    <3>6. Receiving' BY <2>4, <2>9, <2>10, <2>12, <3>4, <3>5 DEF Receiving
    <3>7. Asked' BY <2>3, <2>4, <2>6, <2>12, <3>6 DEF Asked, FilePacket
    <3> QED BY <2>5, <2>7, <2>8, <3>7 DEF PInv, PhaseInv
  <2> QED BY <2>11, <2>12
<1> QED BY <1>15, <1>16

-----------------------------------------------------------------------------
\* Whatever piece of whatever arrives.
LEMMA ArrivalKeeps ==
  ASSUME WithinInt, PInv, Arrival
  PROVE  PInv'
<1>1. records # <<>> BY DEF Arrival
<1>2. PICK k \in 1 .. Len(Head(records)) : HandleReadyRead(k) BY DEF Arrival
<1>3. /\ Deliver(k) /\ UNCHANGED senderVars
      /\ ReadsNothing(k) \/ ReadsOtherMessage(k) \/ ReadsFileInfo(k) \/ ReadsPacket(k)
  BY <1>2 DEF HandleReadyRead
<1>4. CASE Idle
  <2>1. ~Announced BY <1>4 DEF Idle, Announced, Sending
  <2> QED BY <1>1, <1>3, <1>4, <2>1, TextReadKeeps
<1>5. CASE Announced
  <2>1. CASE Len(records) = 1 BY <1>1, <1>3, <1>5, <2>1, InfoReadKeeps
  <2>2. CASE Len(records) # 1 BY <1>1, <1>3, <1>5, <2>2, TextReadKeeps
  <2> QED BY <2>1, <2>2
<1>6. CASE Answered BY <1>1, <1>3, <1>6, PacketReadKeeps
<1>7. Idle \/ Announced \/ Answered BY <1>1 DEF PInv, PhaseInv, Asked, Delivered
<1> QED BY <1>4, <1>5, <1>6, <1>7

\* A step of something else changes nothing of it.
LEMMA StutterKeeps ==
  ASSUME PInv, UNCHANGED vars
  PROVE  PInv'
<1>1. UNCHANGED <<sMessageState, file, textsSent, records, buffer, toSender, rMessageState,
                  fileSize, packetNumber, currentFile, textsShown>>
  BY DEF vars, senderVars, receiverVars
<1> QED BY <1>1 DEF PInv, StreamInv, TextsInv, NumbersInv, PhaseInv, Idle, Announced, Asked,
                    Answered, Delivered, Receiving, Sending, TextsPending, Pending

\* Every step keeps the invariant.
LEMMA PInvariance ==
  ASSUME WithinInt
  PROVE  Spec => []PInv
<1>1. Init => PInv BY PInitially
<1>2. PInv /\ [Next]_vars => PInv'
  <2> SUFFICES ASSUME PInv, [Next]_vars PROVE PInv' OBVIOUS
  <2>1. CASE \E n \in TextSizes : SendTextMessage(n) BY <2>1, SendTextKeeps
  <2>2. CASE \E size \in Sizes : SendFile(size) BY <2>2, SendFileKeeps
  <2>3. CASE HandleFilePacket BY <2>3, HandleFilePacketKeeps
  <2>4. CASE HandleFileSuccess BY <2>4, HandleFileSuccessKeeps
  <2>5. CASE Arrival BY <2>5, ArrivalKeeps
  <2>6. CASE UNCHANGED vars BY <2>6, StutterKeeps
  <2> QED BY <2>1, <2>2, <2>3, <2>4, <2>5, <2>6 DEF Next
<1> QED BY <1>1, <1>2, PTL DEF Spec

-----------------------------------------------------------------------------
\* The state is well typed, and no number outgrows its integer, as long as no
\* packet's offset outgrows an int.
THEOREM TypeCorrect ==
  ASSUME WithinInt
  PROVE  Spec => []TypeOK
<1>1. PInv => TypeOK
  <2> SUFFICES ASSUME PInv PROVE TypeOK OBVIOUS
  <2>1. StreamInv /\ TextsInv /\ NumbersInv BY DEF PInv
  <2>2. /\ sMessageState \in MessageState /\ rMessageState \in MessageState
        /\ file \in Sizes \union {NoSize}
    BY DEF PInv, PhaseInv, Idle, Announced, Asked, Answered, Delivered, Receiving, Sending,
           MessageState
  <2>3. records \in Seq(Seq(Nat)) /\ <<>> \notin Range(records)
    <3>1. records \in [1 .. Len(records) -> Written] BY <2>1, LenProperties DEF StreamInv
    <3>2. <<>> \notin Range(records) BY <3>1 DEF Range, Written
    <3>3. records \in Seq(Seq(Nat))
      <4>1. Written \subseteq Seq(Nat) BY DEF Written
      <4> QED BY <2>1, <4>1, SeqMonotonic DEF StreamInv
    <3> QED BY <3>2, <3>3
  <2>4. toSender \in Seq([type : {"FILE_PACKET", "FILE_SUCCESS"}, packet : 0 .. UINT16 - 1])
    <3>0. \A S, x : x \in S => <<x>> \in Seq(S) OBVIOUS
    <3> DEFINE R == [type : {"FILE_PACKET", "FILE_SUCCESS"}, packet : 0 .. UINT16 - 1]
    <3>1. CASE Asked
      <4>1. packetNumber \in 0 .. UINT16 - 1 BY <3>1, NumberFits DEF Asked
      <4>2. FilePacket(packetNumber) \in R BY <4>1 DEF FilePacket
      <4> QED BY <3>0, <3>1, <4>2, Zenon DEF Asked
    <3>2. CASE Delivered
      <4>1. FileSuccess \in R BY Widths DEF FileSuccess
      <4> QED BY <3>0, <3>2, <4>1, Zenon DEF Delivered
    <3>3. CASE toSender = <<>> BY <3>3
    <3> HIDE DEF R
    <3> QED BY <3>1, <3>2, <3>3 DEF PInv, PhaseInv, Idle, Announced, Answered, R
  <2>5. textsSent \in Seq(Seq(Nat)) /\ textsShown \in Seq(Seq(Nat))
    <3>1. Framed \subseteq Seq(Nat) BY DEF Framed
    <3> QED BY <2>1, <3>1, SeqMonotonic DEF TextsInv
  <2> QED BY <2>1, <2>2, <2>3, <2>4, <2>5 DEF TypeOK, StreamInv, NumbersInv
<1> QED BY <1>1, PInvariance, PTL

\* A file that the Receiver reports as received has every byte of the Sender's.
THEOREM FileWhole ==
  ASSUME WithinInt
  PROVE  Spec => []FileArrivesWhole
<1>1. PInv => FileArrivesWhole
  <2> SUFFICES ASSUME PInv PROVE FileArrivesWhole OBVIOUS
  <2>1. CASE toSender = <<>> BY <2>1 DEF FileArrivesWhole
  <2>2. CASE Asked BY <2>2 DEF Asked, FilePacket, FileSuccess, FileArrivesWhole
  <2>3. CASE Delivered BY <2>3 DEF Delivered, FileArrivesWhole
  <2> QED BY <2>1, <2>2, <2>3 DEF PInv, PhaseInv, Idle, Announced, Answered
<1> QED BY <1>1, PInvariance, PTL

\* Texts are shown as they were sent, and in order.
THEOREM TextsComeThrough ==
  ASSUME WithinInt
  PROVE  Spec => []TextsArrive
<1>1. PInv => TextsArrive
  <2> SUFFICES ASSUME PInv PROVE TextsArrive OBVIOUS
  <2>1. /\ textsSent \in Seq(Framed) /\ textsShown \in Seq(Framed)
        /\ Len(textsShown) <= Len(textsSent)
        /\ \A i \in 1 .. Len(textsShown) : textsShown[i] = textsSent[i]
    BY DEF PInv, TextsInv
  <2> DEFINE p == SubSeq(textsSent, 1, Len(textsShown))
  <2>2. \A i \in 1 .. Len(textsShown) : textsSent[i] \in Framed BY <2>1
  <2>3. /\ p \in Seq(Framed) /\ Len(p) = Len(textsShown)
        /\ \A i \in 1 .. Len(textsShown) : p[i] = textsSent[i]
    <3>1. 1 \in Int /\ Len(textsShown) \in Nat BY <2>1
    <3>2. /\ p \in Seq(Framed)
          /\ Len(p) = IF 1 <= Len(textsShown) THEN Len(textsShown) - 1 + 1 ELSE 0
          /\ \A i \in 1 .. Len(textsShown) - 1 + 1 : p[i] = textsSent[1 + i - 1]
      BY <2>1, <2>2, <3>1, SubSeqProperties
    <3> HIDE DEF p
    <3> QED BY <3>1, <3>2
  <2>4. p = textsShown
    <3> HIDE DEF p
    <3> QED BY <2>1, <2>3, SeqEqual
  <2> QED BY <2>1, <2>4 DEF TextsArrive, IsPrefix
<1> QED BY <1>1, PInvariance, PTL

\* Nothing that has arrived whole is left unread.
THEOREM NothingLeft ==
  ASSUME WithinInt
  PROVE  Spec => []NothingLeftBehind
<1>1. PInv => NothingLeftBehind
  <2> SUFFICES ASSUME PInv, records = <<>>
               PROVE  buffer = <<>> /\ textsShown = textsSent
    BY DEF NothingLeftBehind
  <2>1. buffer = <<>> BY DEF PInv, StreamInv
  <2>2. Len(records) = 0 OBVIOUS
  <2>3. /\ textsSent \in Seq(Framed) /\ textsShown \in Seq(Framed)
        /\ \A i \in 1 .. Len(textsShown) : textsShown[i] = textsSent[i]
    BY DEF PInv, TextsInv
  <2>4. TextsPending(0)
    BY <2>2 DEF PInv, PhaseInv, Idle, Announced, Asked, Answered, Delivered, Receiving
  <2>5. Len(textsSent) = Len(textsShown)
    <3>1. Len(textsSent) = Len(textsShown) + 0 BY <2>4 DEF TextsPending
    <3> QED BY <2>3, <3>1
  <2>6. textsShown = textsSent BY <2>3, <2>5, SeqEqual
  <2> QED BY <2>1, <2>6
<1> QED BY <1>1, PInvariance, PTL
=============================================================================
