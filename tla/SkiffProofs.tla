---------------------------- MODULE SkiffProofs ----------------------------
(***************************************************************************)
(* What a job reads is what the cluster sent, for every stream, layout and *)
(* limit, and wherever the stream is cut (SkiffReader).                    *)
(*                                                                         *)
(* The stream holds no marks, so the proof carries where each row ends and *)
(* where, in a row, each column does.  A cursor that stands where a column *)
(* begins either takes it whole, with the value and the charges it has, or *)
(* stops for a reason that is named: the stream, a read or a limit.  From  *)
(* columns this goes to rows, and from rows to what has been returned.     *)
(* The columns of a row and the items of a column are taken by recursive   *)
(* functions; what these compute is shown by induction on a set of numbers *)
(* that is closed under successor, with the lemmas of StreamProofs.        *)
(*                                                                         *)
(* That skip_row accepts what next_row does is shown apart: two cursors    *)
(* that are Alike, in all but their values, stay so.                       *)
(***************************************************************************)
EXTENDS SkiffReader, StreamProofs, FiniteSetTheorems

(***************************************************************************)
(* What the cluster sends.                                                 *)
(***************************************************************************)
\* What an optional column carries: nothing where the reader knows it already.
RowSent(rows, i) ==
  IF \E j \in Before(rows, i) : rows[i].row = rows[j].row + 1 THEN NoValue ELSE rows[i].row
RangeSent(rows, i) ==
  IF \E j \in Before(rows, i) : rows[i].range = rows[j].range THEN NoValue ELSE rows[i].range

\* An optional value is a tag, and the value where there is one.
LEMMA OptionalIs ==
  ASSUME SkiffAssumption, NEW x \in Nat \cup {NoValue}
  PROVE  /\ Optional(x) \in Seq(Nat)
         /\ x = NoValue => Len(Optional(x)) = 1 /\ Optional(x)[1] = 0
         /\ x # NoValue => Len(Optional(x)) = 2 /\ Optional(x)[1] = 1 /\ Optional(x)[2] = x
<1>1. CASE x = NoValue
  <2>1. Optional(x) = <<0>>
    BY <1>1 DEF Optional
  <2> QED
    BY <1>1, <2>1
<1>2. CASE x # NoValue
  <2>1. Optional(x) = <<1, x>> /\ x \in Nat
    BY <1>2 DEF Optional
  <2> QED
    BY <1>2, <2>1
<1> QED
  BY <1>1, <1>2

\* The first sequences of numbers begin what all of them are together.
LEMMA PrefixOfNumbers ==
  ASSUME NEW f \in Seq(Seq(Nat)), NEW q \in Nat, q <= Len(f)
  PROVE  \A n \in q..Len(f) :
           \E t \in Seq(Nat) : FlattenSeq(SubSeq(f, 1, n)) = FlattenSeq(SubSeq(f, 1, q)) \o t
BY FlattenPrefix, Zenon

\* One more of n sequences.
LEMMA FlattenNext ==
  ASSUME NEW S, NEW n \in Nat, NEW f \in [1..n + 1 -> Seq(S)]
  PROVE  /\ FlattenSeq([i \in 1..n |-> f[i]]) \in Seq(S) /\ f[n + 1] \in Seq(S)
         /\ FlattenSeq([i \in 1..n + 1 |-> f[i]]) = FlattenSeq([i \in 1..n |-> f[i]]) \o f[n + 1]
<1> DEFINE g == [i \in 1..n |-> f[i]]
<1>1. f \in Seq(Seq(S)) /\ Len(f) = n + 1
  <2>1. n + 1 \in Nat
    OBVIOUS
  <2> QED
    BY <2>1, FunIsSeq
<1>2. f = [i \in 1..n + 1 |-> f[i]]
  OBVIOUS
<1>3. g \in Seq(Seq(S)) /\ Len(g) = n /\ \A i \in 1..n : g[i] = f[i]
  <2>1. g \in [1..n -> Seq(S)] /\ \A i \in 1..n : g[i] = f[i]
    OBVIOUS
  <2> HIDE DEF g
  <2> QED
    BY <2>1, FunIsSeq
<1> DEFINE h == SubSeq(f, 1, n)
<1>4. h \in Seq(Seq(S)) /\ Len(h) = n /\ \A i \in 1..n : h[i] = f[i]
  <2>1. \A i \in 1..n : f[i] \in Seq(S)
    OBVIOUS
  <2> QED
    BY <1>1, <2>1, SubSeqProperties
<1> HIDE DEF g, h
<1>5. g = h
  BY <1>3, <1>4, SeqEqual
<1>6. FlattenSeq(SubSeq(f, 1, n)) \in Seq(S) /\ f[n + 1] \in Seq(S)
      /\ FlattenSeq(SubSeq(f, 1, n + 1)) = FlattenSeq(SubSeq(f, 1, n)) \o f[n + 1]
  <2>1. f \in Seq(Seq(S)) /\ n \in Nat /\ n < Len(f)
    BY <1>1
  <2> QED
    BY <2>1, FlattenTake
<1>7. SubSeq(f, 1, n + 1) = f
  BY <1>1, SubSeqFull
<1>8. FlattenSeq(f) = FlattenSeq(g) \o f[n + 1] /\ FlattenSeq(g) \in Seq(S) /\ f[n + 1] \in Seq(S)
  BY <1>5, <1>6, <1>7 DEF h
<1> QED
  BY <1>2, <1>8 DEF g

\* The items of a column: a tag and a value each.
ItemSeq(n) == FlattenSeq([k \in 1..n |-> Optional(k)])
LEMMA ItemsAre ==
  ASSUME SkiffAssumption, NEW n \in Nat
  PROVE  /\ ItemSeq(n) \in Seq(Nat) /\ Len(ItemSeq(n)) = 2 * n
         /\ \A k \in 1..n : ItemSeq(n)[2 * k - 1] = 1 /\ ItemSeq(n)[2 * k] = k
<1> DEFINE Are(s, m) == /\ s \in Seq(Nat) /\ Len(s) = 2 * m
                        /\ \A k \in 1..m : s[2 * k - 1] = 1 /\ s[2 * k] = k
           P == {m \in Nat : Are(ItemSeq(m), m)}
<1>0. \A k \in Nat \ {0} : /\ Optional(k) \in Seq(Nat) /\ Len(Optional(k)) = 2
                           /\ Optional(k)[1] = 1 /\ Optional(k)[2] = k
  <2> SUFFICES ASSUME NEW k \in Nat \ {0} PROVE /\ Optional(k) \in Seq(Nat) /\ Len(Optional(k)) = 2
                           /\ Optional(k)[1] = 1 /\ Optional(k)[2] = k
    OBVIOUS
  <2>1. k # NoValue /\ k \in Nat \cup {NoValue}
    BY DEF SkiffAssumption
  <2> QED
    BY <2>1, OptionalIs
<1>1. 0 \in P
  <2>1. [k \in 1..0 |-> Optional(k)] = <<>>
    OBVIOUS
  <2>2. ItemSeq(0) = <<>>
    BY <2>1, FlattenEmpty DEF ItemSeq
  <2>3. Are(<<>>, 0)
    OBVIOUS
  <2> HIDE DEF Are
  <2> QED
    BY <2>2, <2>3
<1>2. ASSUME NEW m \in P PROVE m + 1 \in P
  <2>0. m \in Nat /\ m + 1 \in Nat /\ Are(ItemSeq(m), m)
    OBVIOUS
  <2> DEFINE f == [k \in 1..m + 1 |-> Optional(k)]
  <2>1. f \in [1..m + 1 -> Seq(Nat)]
    BY <1>0, <2>0
  <2>2. [k \in 1..m |-> f[k]] = [k \in 1..m |-> Optional(k)] /\ [k \in 1..m + 1 |-> f[k]] = f
        /\ f[m + 1] = Optional(m + 1)
    BY <2>0
  <2> HIDE DEF f
  <2>4. FlattenSeq([k \in 1..m + 1 |-> f[k]]) = FlattenSeq([k \in 1..m |-> f[k]]) \o f[m + 1]
    BY <2>0, <2>1, FlattenNext
  <2>5. ItemSeq(m) = FlattenSeq([k \in 1..m |-> f[k]]) /\ ItemSeq(m + 1) = FlattenSeq([k \in 1..m + 1 |-> f[k]])
    BY <2>2 DEF ItemSeq, f
  <2>6. ItemSeq(m + 1) = ItemSeq(m) \o Optional(m + 1)
    BY <2>2, <2>4, <2>5
  <2>7. PICK a : a = ItemSeq(m) /\ a \in Seq(Nat) /\ Len(a) = 2 * m
                 /\ \A k \in 1..m : a[2 * k - 1] = 1 /\ a[2 * k] = k
    BY <2>0
  <2>8. PICK b : b = Optional(m + 1) /\ b \in Seq(Nat) /\ Len(b) = 2 /\ b[1] = 1 /\ b[2] = m + 1
    <3>1. m + 1 \in Nat \ {0}
      BY <2>0
    <3> QED
      BY <1>0, <3>1
  <2>9. PICK s : /\ s = ItemSeq(m + 1) /\ s \in Seq(Nat) /\ Len(s) = Len(a) + Len(b)
                 /\ \A i \in 1..Len(a) : s[i] = a[i]
                 /\ \A i \in 1..Len(b) : s[Len(a) + i] = b[i]
    <3>1. /\ a \o b \in Seq(Nat) /\ Len(a \o b) = Len(a) + Len(b)
          /\ \A i \in 1..Len(a) : (a \o b)[i] = a[i]
          /\ \A i \in 1..Len(b) : (a \o b)[Len(a) + i] = b[i]
      <4>1. a \in Seq(Nat) /\ b \in Seq(Nat)
        BY <2>7, <2>8
      <4> QED
        BY <4>1, TwoParts
    <3>2. ItemSeq(m + 1) = a \o b
      BY <2>6, <2>7, <2>8
    <3> QED
      BY <3>1, <3>2
  <2>10. ASSUME NEW k \in 1..m + 1 PROVE s[2 * k - 1] = 1 /\ s[2 * k] = k
    <3>1. CASE k \in 1..m
      <4>1. 2 * k - 1 \in 1..Len(a) /\ 2 * k \in 1..Len(a)
        BY <2>0, <2>7, <3>1
      <4> QED
        BY <2>7, <2>9, <3>1, <4>1
    <3>2. CASE k = m + 1
      <4>1. 2 * k - 1 = Len(a) + 1 /\ 2 * k = Len(a) + 2 /\ 1 \in 1..Len(b) /\ 2 \in 1..Len(b)
        BY <2>0, <2>7, <2>8, <3>2
      <4>2. s[Len(a) + 1] = b[1] /\ s[Len(a) + 2] = b[2]
        BY <2>9, <4>1
      <4> QED
        BY <2>8, <3>2, <4>1, <4>2
    <3> QED
      BY <2>0, <3>1, <3>2
  <2>11. Len(s) = 2 * (m + 1)
    <3>1. Len(s) = Len(a) + Len(b) /\ Len(a) = 2 * m /\ Len(b) = 2 /\ m \in Nat
      BY <2>0, <2>7, <2>8, <2>9
    <3>2. 2 * (m + 1) = 2 * m + 2
      BY <2>0
    <3> QED
      BY <3>1, <3>2
  <2>12. Are(s, m + 1)
    BY <2>9, <2>10, <2>11
  <2> QED
    BY <2>0, <2>9, <2>12
<1>3. P = Nat
  <2>1. P \in SUBSET Nat
    OBVIOUS
  <2> HIDE DEF P
  <2> QED
    BY <1>1, <1>2, <2>1, Inductive
<1>4. n \in P
  <2> HIDE DEF P
  <2> QED
    BY <1>3
<1> QED
  BY <1>4

\* What the cluster sends for each column of a row.
LEMMA ColumnIs ==
  ASSUME SkiffAssumption, NEW rows \in Seq(InputRow), NEW i \in 1..Len(rows)
  PROVE  /\ Column(rows, i, "key") = <<IF rows[i].key THEN 1 ELSE 0>>
         /\ Column(rows, i, "row") = Optional(RowSent(rows, i))
         /\ Column(rows, i, "range") = Optional(RangeSent(rows, i))
         /\ Column(rows, i, "blob") = <<rows[i].data>> \o [k \in 1..rows[i].data |-> 0]
         /\ Column(rows, i, "items") = ItemSeq(rows[i].data) \o <<RepeatedEnd>>
         /\ RowSent(rows, i) \in Nat \cup {NoValue} /\ RangeSent(rows, i) \in Nat \cup {NoValue}
         /\ rows[i].data \in Nat /\ rows[i].table \in SkiffTables /\ rows[i].key \in BOOLEAN
         /\ rows[i].row \in Nat /\ rows[i].range \in Nat
<1>1. rows[i] \in InputRow
  OBVIOUS
<1>2. rows[i].row \in Nat /\ rows[i].range \in Nat /\ rows[i].data \in Nat
      /\ rows[i].table \in SkiffTables /\ rows[i].key \in BOOLEAN
  BY <1>1 DEF InputRow
<1>3. Column(rows, i, "key") = <<IF rows[i].key THEN 1 ELSE 0>>
  BY DEF Column
<1>4. Column(rows, i, "row") = Optional(RowSent(rows, i))
  BY DEF Column, RowSent
<1>5. Column(rows, i, "range") = Optional(RangeSent(rows, i))
  BY DEF Column, RangeSent
<1>6. Column(rows, i, "blob") = <<rows[i].data>> \o [k \in 1..rows[i].data |-> 0]
  BY DEF Column
<1>7. Column(rows, i, "items") = ItemSeq(rows[i].data) \o <<RepeatedEnd>>
  BY DEF Column, ItemSeq
<1>8. RowSent(rows, i) \in Nat \cup {NoValue} /\ RangeSent(rows, i) \in Nat \cup {NoValue}
  BY <1>2 DEF RowSent, RangeSent
<1> QED
  BY <1>2, <1>3, <1>4, <1>5, <1>6, <1>7, <1>8

\* A sequence of which one element is known.
LEMMA OneMore ==
  ASSUME NEW S, NEW s \in Seq(S), NEW x \in S
  PROVE  /\ s \o <<x>> \in Seq(S) /\ Len(s \o <<x>>) = Len(s) + 1 /\ Len(s) \in Nat
         /\ (s \o <<x>>)[Len(s) + 1] = x /\ \A i \in 1..Len(s) : (s \o <<x>>)[i] = s[i]
         /\ <<x>> \o s \in Seq(S) /\ Len(<<x>> \o s) = Len(s) + 1
         /\ (<<x>> \o s)[1] = x
<1>1. <<x>> \in Seq(S) /\ Len(<<x>>) = 1 /\ <<x>>[1] = x /\ 1 \in 1..1
  OBVIOUS
<1> DEFINE o == <<x>>
<1>2. o \in Seq(S) /\ Len(o) = 1 /\ o[1] = x
  BY <1>1
<1> HIDE DEF o
<1>3. /\ s \o o \in Seq(S) /\ Len(s) \in Nat /\ Len(s \o o) = Len(s) + Len(o)
      /\ \A i \in 1..Len(s) : (s \o o)[i] = s[i]
      /\ \A i \in 1..Len(o) : (s \o o)[Len(s) + i] = o[i]
  <2>1. s \in Seq(S) /\ o \in Seq(S)
    BY <1>2
  <2> QED
    BY <2>1, TwoParts
<1>4. /\ o \o s \in Seq(S) /\ Len(o \o s) = Len(o) + Len(s)
      /\ \A i \in 1..Len(o) : (o \o s)[i] = o[i]
  BY <1>2, TwoParts
<1>5. (s \o o)[Len(s) + 1] = x /\ (o \o s)[1] = x
  BY <1>1, <1>2, <1>3, <1>4
<1>6. Len(s \o o) = Len(s) + 1 /\ Len(o \o s) = Len(s) + 1
  BY <1>2, <1>3, <1>4
<1> QED
  BY <1>3, <1>4, <1>5, <1>6 DEF o

\* Zeros are as many as there are.
LEMMA ZerosAre ==
  ASSUME NEW n \in Nat
  PROVE  [k \in 1..n |-> 0] \in Seq(Nat) /\ Len([k \in 1..n |-> 0]) = n
<1>1. [k \in 1..n |-> 0] \in [1..n -> Nat]
  OBVIOUS
<1> QED
  BY <1>1, FunIsSeq

\* ... number by number.
ColumnBytes(rows, i, column, s) ==
  LET d == rows[i].data
  IN  /\ column = "key" => Len(s) = 1 /\ s[1] = (IF rows[i].key THEN 1 ELSE 0)
      /\ column = "row" => LET x == RowSent(rows, i)
                           IN  IF x = NoValue THEN Len(s) = 1 /\ s[1] = 0
                               ELSE Len(s) = 2 /\ s[1] = 1 /\ s[2] = x
      /\ column = "range" => LET x == RangeSent(rows, i)
                             IN  IF x = NoValue THEN Len(s) = 1 /\ s[1] = 0
                                 ELSE Len(s) = 2 /\ s[1] = 1 /\ s[2] = x
      /\ column = "blob" => Len(s) = 1 + d /\ s[1] = d
      /\ column = "items" => /\ Len(s) = 2 * d + 1 /\ s[2 * d + 1] = RepeatedEnd
                             /\ \A k \in 1..d : s[2 * k - 1] = 1 /\ s[2 * k] = k

\* A column is sent as the numbers ColumnBytes says.
LEMMA ColumnBytesAre ==
  ASSUME SkiffAssumption, NEW rows \in Seq(InputRow), NEW i \in 1..Len(rows), NEW column \in Columns
  PROVE  /\ Column(rows, i, column) \in Seq(Nat)
         /\ ColumnBytes(rows, i, column, Column(rows, i, column))
<1> DEFINE s == Column(rows, i, column)
           d == rows[i].data
<1>0. d \in Nat /\ RowSent(rows, i) \in Nat \cup {NoValue} /\ RangeSent(rows, i) \in Nat \cup {NoValue}
  BY ColumnIs
<1>1. CASE column = "key"
  <2>1. s = <<IF rows[i].key THEN 1 ELSE 0>>
    BY <1>1, ColumnIs
  <2>2. s \in Seq(Nat) /\ Len(s) = 1 /\ s[1] = (IF rows[i].key THEN 1 ELSE 0)
    BY <2>1
  <2> QED
    BY <1>1, <2>2 DEF ColumnBytes
<1>2. CASE column = "row"
  <2>1. s = Optional(RowSent(rows, i))
    BY <1>2, ColumnIs
  <2>2. PICK x \in Nat \cup {NoValue} : x = RowSent(rows, i)
    BY <1>0
  <2>3. s \in Seq(Nat) /\ IF x = NoValue THEN Len(s) = 1 /\ s[1] = 0 ELSE Len(s) = 2 /\ s[1] = 1 /\ s[2] = x
    BY <2>1, <2>2, OptionalIs
  <2> QED
    BY <1>2, <2>2, <2>3 DEF ColumnBytes
<1>3. CASE column = "range"
  <2>1. s = Optional(RangeSent(rows, i))
    BY <1>3, ColumnIs
  <2>2. PICK x \in Nat \cup {NoValue} : x = RangeSent(rows, i)
    BY <1>0
  <2>3. s \in Seq(Nat) /\ IF x = NoValue THEN Len(s) = 1 /\ s[1] = 0 ELSE Len(s) = 2 /\ s[1] = 1 /\ s[2] = x
    BY <2>1, <2>2, OptionalIs
  <2> QED
    BY <1>3, <2>2, <2>3 DEF ColumnBytes
<1>4. CASE column = "blob"
  <2>1. s = <<d>> \o [k \in 1..d |-> 0]
    BY <1>4, ColumnIs
  <2>2. PICK z : z = [k \in 1..d |-> 0] /\ z \in Seq(Nat) /\ Len(z) = d
    BY <1>0, ZerosAre
  <2>3. <<d>> \o z \in Seq(Nat) /\ Len(<<d>> \o z) = Len(z) + 1 /\ (<<d>> \o z)[1] = d
    <3> HIDE DEF d
    <3> QED
      BY <1>0, <2>2, OneMore
  <2>4. s = <<d>> \o z
    BY <2>1, <2>2
  <2>5. s \in Seq(Nat) /\ Len(s) = 1 + d /\ s[1] = d
    <3> HIDE DEF s, d
    <3> QED
      BY <1>0, <2>2, <2>3, <2>4
  <2> QED
    BY <1>4, <2>5 DEF ColumnBytes
<1>5. CASE column = "items"
  <2>1. s = ItemSeq(d) \o <<RepeatedEnd>>
    BY <1>5, ColumnIs
  <2>2. PICK z : /\ z = ItemSeq(d) /\ z \in Seq(Nat) /\ Len(z) = 2 * d
                 /\ \A k \in 1..d : z[2 * k - 1] = 1 /\ z[2 * k] = k
    <3> HIDE DEF d
    <3>1. d \in Nat
      BY <1>0
    <3>2. /\ ItemSeq(d) \in Seq(Nat) /\ Len(ItemSeq(d)) = 2 * d
          /\ \A k \in 1..d : ItemSeq(d)[2 * k - 1] = 1 /\ ItemSeq(d)[2 * k] = k
      BY <3>1, ItemsAre
    <3> QED
      BY <3>2
  <2>3. RepeatedEnd \in Nat
    BY DEF RepeatedEnd
  <2>4. /\ z \o <<RepeatedEnd>> \in Seq(Nat) /\ Len(z \o <<RepeatedEnd>>) = Len(z) + 1
        /\ (z \o <<RepeatedEnd>>)[Len(z) + 1] = RepeatedEnd
        /\ \A k \in 1..Len(z) : (z \o <<RepeatedEnd>>)[k] = z[k]
    <3>1. z \in Seq(Nat)
      BY <2>2
    <3> QED
      BY <2>3, <3>1, OneMore
  <2>5. s = z \o <<RepeatedEnd>>
    BY <2>1, <2>2
  <2>6. /\ s \in Seq(Nat) /\ Len(s) = 2 * d + 1 /\ s[2 * d + 1] = RepeatedEnd
        /\ \A k \in 1..Len(z) : s[k] = z[k]
    <3> HIDE DEF s, d
    <3> QED
      BY <1>0, <2>2, <2>4, <2>5
  <2>7. ASSUME NEW k \in 1..d PROVE s[2 * k - 1] = 1 /\ s[2 * k] = k
    <3> HIDE DEF s, d
    <3>1. 2 * k - 1 \in 1..Len(z) /\ 2 * k \in 1..Len(z)
      BY <1>0, <2>2
    <3> QED
      BY <2>2, <2>6, <3>1
  <2> QED
    BY <1>5, <2>6, <2>7 DEF ColumnBytes
<1> QED
  BY <1>1, <1>2, <1>3, <1>4, <1>5 DEF Columns, System

(***************************************************************************)
(* Rows and the stream.                                                    *)
(***************************************************************************)
LayoutOf(rows, i) == Layout(rows[i].table)
ColumnOf(rows, i, k) == Column(rows, i, LayoutOf(rows, i)[k])
\* The first k columns of a row, and the first n rows of a stream.
ColumnsTo(rows, i, k) == FlattenSeq([c \in 1..k |-> ColumnOf(rows, i, c)])
StreamTo(rows, n) == FlattenSeq([i \in 1..n |-> EncodedRow(rows, i)])

\* A layout is a sequence of columns.
LEMMA LayoutIs ==
  ASSUME SkiffAssumption, NEW t \in SkiffTables
  PROVE  Layout(t) \in Seq(Columns) /\ Len(Layout(t)) \in Nat /\ DOMAIN Layout(t) = 1..Len(Layout(t))
         /\ GoodLayout(Layout(t))
<1>1. t \in Int /\ 0 <= t /\ t <= Len(SkiffLayouts) - 1 /\ SkiffLayouts \in Seq(Seq(Columns))
  BY DEF SkiffTables, SkiffAssumption
<1>2. t + 1 \in 1..Len(SkiffLayouts)
  BY <1>1
<1>3. Layout(t) \in Seq(Columns)
  BY <1>1, <1>2 DEF Layout
<1>4. GoodLayout(Layout(t))
  BY DEF SkiffAssumption
<1> QED
  BY <1>3, <1>4

\* One more column.
LEMMA ColumnsGrow ==
  ASSUME SkiffAssumption, NEW rows \in Seq(InputRow), NEW i \in 1..Len(rows)
  PROVE  LET m == Len(LayoutOf(rows, i))
         IN  /\ m \in Nat
             /\ ColumnsTo(rows, i, 0) = <<>>
             /\ \A k \in 0..m : ColumnsTo(rows, i, k) \in Seq(Nat)
             /\ \A k \in 1..m : ColumnOf(rows, i, k) \in Seq(Nat)
             /\ \A k \in 0..m - 1 :
                  ColumnsTo(rows, i, k + 1) = ColumnsTo(rows, i, k) \o ColumnOf(rows, i, k + 1)
<1> DEFINE layout == LayoutOf(rows, i)
           m == Len(layout)
<1>1. layout \in Seq(Columns) /\ m \in Nat /\ \A k \in 1..m : layout[k] \in Columns
  <2>1. rows[i].table \in SkiffTables
    BY ColumnIs
  <2>2. layout \in Seq(Columns) /\ m \in Nat
    BY <2>1, LayoutIs DEF LayoutOf
  <2> QED
    BY <2>2
<1>2. \A k \in 1..m : ColumnOf(rows, i, k) \in Seq(Nat)
  <2> SUFFICES ASSUME NEW k \in 1..m PROVE ColumnOf(rows, i, k) \in Seq(Nat)
    OBVIOUS
  <2>1. layout[k] \in Columns
    BY <1>1
  <2> HIDE DEF m
  <2>2. Column(rows, i, layout[k]) \in Seq(Nat)
    BY <2>1, ColumnBytesAre
  <2> QED
    BY <2>2 DEF ColumnOf
<1> HIDE DEF layout, m
<1> DEFINE f == [c \in 1..m |-> ColumnOf(rows, i, c)]
<1>3. f \in Seq(Seq(Nat)) /\ Len(f) = m /\ \A k \in 1..m : f[k] = ColumnOf(rows, i, k)
  <2>1. f \in [1..m -> Seq(Nat)] /\ \A k \in 1..m : f[k] = ColumnOf(rows, i, k)
    BY <1>2
  <2> HIDE DEF f
  <2> QED
    BY <1>1, <2>1, FunIsSeq
<1> HIDE DEF f
<1>4. ASSUME NEW k \in 0..m PROVE SubSeq(f, 1, k) = [c \in 1..k |-> ColumnOf(rows, i, c)]
  <2>1. k \in Nat /\ k <= m /\ \A c \in 1..k : f[c] \in Seq(Nat)
    BY <1>1, <1>2, <1>3
  <2>2. /\ SubSeq(f, 1, k) \in Seq(Seq(Nat)) /\ Len(SubSeq(f, 1, k)) = k
        /\ \A c \in 1..k : SubSeq(f, 1, k)[c] = f[c]
    BY <2>1, <1>3, SubSeqProperties
  <2> DEFINE g == [c \in 1..k |-> ColumnOf(rows, i, c)]
             h == SubSeq(f, 1, k)
  <2>3. \A c \in 1..k : g[c] = f[c]
    BY <1>1, <1>3, <2>1
  <2>4. g \in Seq(Seq(Nat)) /\ Len(g) = k
    <3>1. g \in [1..k -> Seq(Nat)]
      BY <1>1, <1>2, <2>1
    <3> HIDE DEF g
    <3> QED
      BY <2>1, <3>1, FunIsSeq
  <2> HIDE DEF g, h
  <2>5. h = g
    BY <2>2, <2>3, <2>4, SeqEqual DEF h
  <2> QED
    BY <2>5 DEF g, h
<1>5. ASSUME NEW k \in 0..m PROVE ColumnsTo(rows, i, k) = FlattenSeq(SubSeq(f, 1, k))
  BY <1>4 DEF ColumnsTo
<1>6. ASSUME NEW k \in 0..m - 1
      PROVE  /\ ColumnsTo(rows, i, k + 1) = ColumnsTo(rows, i, k) \o ColumnOf(rows, i, k + 1)
             /\ ColumnsTo(rows, i, k) \in Seq(Nat)
  <2>1. k \in Nat /\ k < Len(f) /\ k \in 0..m /\ k + 1 \in 0..m /\ k + 1 \in 1..m /\ f \in Seq(Seq(Nat))
    BY <1>1, <1>3
  <2>2. /\ FlattenSeq(SubSeq(f, 1, k)) \in Seq(Nat)
        /\ FlattenSeq(SubSeq(f, 1, k + 1)) = FlattenSeq(SubSeq(f, 1, k)) \o f[k + 1]
    BY <2>1, FlattenTake
  <2>3. f[k + 1] = ColumnOf(rows, i, k + 1)
    BY <1>3, <2>1
  <2>4. ColumnsTo(rows, i, k) = FlattenSeq(SubSeq(f, 1, k))
    BY <1>5, <2>1
  <2>5. ColumnsTo(rows, i, k + 1) = FlattenSeq(SubSeq(f, 1, k + 1))
    BY <1>5, <2>1
  <2> QED
    BY <2>2, <2>3, <2>4, <2>5
<1>7. ColumnsTo(rows, i, m) \in Seq(Nat)
  <2>1. ColumnsTo(rows, i, m) = FlattenSeq(f)
    <3>1. m \in 0..m
      BY <1>1
    <3>2. ColumnsTo(rows, i, m) = FlattenSeq(SubSeq(f, 1, m))
      BY <1>5, <3>1
    <3>3. SubSeq(f, 1, Len(f)) = f
      BY <1>3, SubSeqFull
    <3> QED
      BY <1>3, <3>2, <3>3
  <2> QED
    BY <1>3, <2>1, FlattenIn
<1>8. ColumnsTo(rows, i, 0) = <<>>
  <2>1. [c \in 1..0 |-> ColumnOf(rows, i, c)] = <<>>
    OBVIOUS
  <2> QED
    BY <2>1, FlattenEmpty DEF ColumnsTo
<1>9. ASSUME NEW k \in 0..m PROVE ColumnsTo(rows, i, k) \in Seq(Nat)
  <2>1. k = m \/ k \in 0..m - 1
    BY <1>1
  <2> QED
    BY <1>6, <1>7, <2>1
<1> QED
  BY <1>1, <1>2, <1>6, <1>8, <1>9 DEF m, layout

\* Where a column is in its row.
LEMMA ColumnsPlaced ==
  ASSUME SkiffAssumption, NEW rows \in Seq(InputRow), NEW i \in 1..Len(rows)
  PROVE  LET m == Len(LayoutOf(rows, i))
             bytes == EncodedRow(rows, i)
             at(k) == 2 + Len(ColumnsTo(rows, i, k))
         IN  /\ bytes \in Seq(Nat) /\ Len(bytes) = at(m) /\ Len(bytes) >= 2
             /\ bytes[1] = rows[i].table /\ bytes[2] = 0
             /\ at(0) = 2
             /\ \A k \in 0..m - 1 :
                  /\ at(k) \in Nat /\ at(k + 1) = at(k) + Len(ColumnOf(rows, i, k + 1))
                  /\ at(k + 1) <= Len(bytes)
                  /\ \A j \in 1..Len(ColumnOf(rows, i, k + 1)) :
                       bytes[at(k) + j] = ColumnOf(rows, i, k + 1)[j]
<1> DEFINE m == Len(LayoutOf(rows, i))
           bytes == EncodedRow(rows, i)
           cols(k) == ColumnsTo(rows, i, k)
           col(k) == ColumnOf(rows, i, k)
<1>1. /\ m \in Nat /\ cols(0) = <<>> /\ (\A k \in 0..m : cols(k) \in Seq(Nat))
      /\ (\A k \in 1..m : col(k) \in Seq(Nat))
      /\ \A k \in 0..m - 1 : cols(k + 1) = cols(k) \o col(k + 1)
  BY ColumnsGrow
<1>2. rows[i].table \in SkiffTables /\ rows[i].table \in Nat
  <2>1. rows[i].table \in SkiffTables
    BY ColumnIs
  <2> QED
    BY <2>1 DEF SkiffTables
<1>3. PICK head : head = <<rows[i].table, 0>> /\ head \in Seq(Nat) /\ Len(head) = 2
                  /\ head[1] = rows[i].table /\ head[2] = 0
  <2>1. <<rows[i].table, 0>> \in Seq(Nat) /\ Len(<<rows[i].table, 0>>) = 2
        /\ <<rows[i].table, 0>>[1] = rows[i].table /\ <<rows[i].table, 0>>[2] = 0
    BY <1>2
  <2> QED
    BY <2>1
<1>4. bytes = head \o cols(m)
  <2>0. DOMAIN Layout(rows[i].table) = 1..m
    BY <1>2, LayoutIs DEF LayoutOf
  <2>1. bytes = <<rows[i].table, 0>> \o FlattenSeq([c \in 1..m |-> Column(rows, i, Layout(rows[i].table)[c])])
    BY <2>0 DEF EncodedRow
  <2>2. cols(m) = FlattenSeq([c \in 1..m |-> Column(rows, i, Layout(rows[i].table)[c])])
    BY DEF ColumnsTo, ColumnOf, LayoutOf
  <2> QED
    BY <1>3, <2>1, <2>2
<1> HIDE DEF m, bytes, cols, col
<1>5. /\ bytes \in Seq(Nat) /\ Len(bytes) = 2 + Len(cols(m)) /\ Len(cols(m)) \in Nat
      /\ bytes[1] = rows[i].table /\ bytes[2] = 0
      /\ \A j \in 1..Len(cols(m)) : bytes[2 + j] = cols(m)[j]
  <2>1. PICK c : c = cols(m) /\ c \in Seq(Nat)
    BY <1>1
  <2>2. head \in Seq(Nat) /\ c \in Seq(Nat)
    BY <1>3, <2>1
  <2>3. /\ head \o c \in Seq(Nat) /\ Len(c) \in Nat /\ Len(head \o c) = Len(head) + Len(c)
        /\ \A j \in 1..Len(head) : (head \o c)[j] = head[j]
        /\ \A j \in 1..Len(c) : (head \o c)[Len(head) + j] = c[j]
    BY <2>2, TwoParts
  <2>4. 1 \in 1..Len(head) /\ 2 \in 1..Len(head) /\ bytes = head \o c
    BY <1>3, <1>4, <2>1
  <2> QED
    BY <1>3, <2>1, <2>3, <2>4
<1>6. Len(cols(0)) = 0
  BY <1>1
<1>7. ASSUME NEW k \in 0..m - 1
      PROVE  /\ Len(cols(k)) \in Nat /\ Len(cols(k + 1)) = Len(cols(k)) + Len(col(k + 1))
             /\ Len(cols(k + 1)) <= Len(cols(m)) /\ Len(col(k + 1)) \in Nat
             /\ \A j \in 1..Len(col(k + 1)) : cols(m)[Len(cols(k)) + j] = col(k + 1)[j]
  <2>1. k \in 0..m /\ k + 1 \in 1..m /\ k + 1 \in 0..m /\ k + 1 \in Nat
    BY <1>1
  <2>2. PICK a, b : a = cols(k) /\ b = col(k + 1) /\ a \in Seq(Nat) /\ b \in Seq(Nat)
    BY <1>1, <2>1
  <2>3. /\ a \o b \in Seq(Nat) /\ Len(a) \in Nat /\ Len(b) \in Nat /\ Len(a \o b) = Len(a) + Len(b)
        /\ \A j \in 1..Len(b) : (a \o b)[Len(a) + j] = b[j]
    BY <2>2, TwoParts
  <2>4. cols(k + 1) = a \o b
    BY <1>1, <2>2
  <2>5. PICK t \in Seq(Nat) : cols(m) = cols(k + 1) \o t
    <3> DEFINE f == [c \in 1..m |-> col(c)]
    <3>1. f \in Seq(Seq(Nat)) /\ Len(f) = m
      <4>1. f \in [1..m -> Seq(Nat)]
        BY <1>1
      <4> HIDE DEF f
      <4> QED
        BY <1>1, <4>1, FunIsSeq
    <3>2. \A q \in 0..m : cols(q) = FlattenSeq(SubSeq(f, 1, q))
      <4> SUFFICES ASSUME NEW q \in 0..m PROVE cols(q) = FlattenSeq(SubSeq(f, 1, q))
        OBVIOUS
      <4> DEFINE g == [c \in 1..q |-> col(c)]
                 h == SubSeq(f, 1, q)
      <4>0. q \in Nat /\ q <= m
        BY <1>1
      <4>1. g \in Seq(Seq(Nat)) /\ Len(g) = q /\ \A c \in 1..q : g[c] = f[c]
        <5>1. g \in [1..q -> Seq(Nat)] /\ \A c \in 1..q : g[c] = f[c]
          BY <1>1, <4>0
        <5> HIDE DEF f, g
        <5> QED
          BY <4>0, <5>1, FunIsSeq
      <4> HIDE DEF f, g
      <4>2. h \in Seq(Seq(Nat)) /\ Len(h) = q /\ \A c \in 1..q : h[c] = f[c]
        <5>1. \A c \in 1..q : f[c] \in Seq(Nat)
          BY <3>1, <4>0
        <5> QED
          BY <3>1, <4>0, <5>1, SubSeqProperties
      <4> HIDE DEF h
      <4>3. g = h
        BY <4>1, <4>2, SeqEqual
      <4> QED
        BY <4>3 DEF g, h, cols, col, ColumnsTo
    <3> HIDE DEF f
    <3>3. \E t \in Seq(Nat) : FlattenSeq(SubSeq(f, 1, m)) = FlattenSeq(SubSeq(f, 1, k + 1)) \o t
      <4>1. PICK q \in Nat : q = k + 1 /\ q <= Len(f) /\ m \in q..Len(f)
        BY <1>1, <2>1, <3>1
      <4>2. \A n \in q..Len(f) :
              \E t \in Seq(Nat) : FlattenSeq(SubSeq(f, 1, n)) = FlattenSeq(SubSeq(f, 1, q)) \o t
        BY <3>1, <4>1, PrefixOfNumbers
      <4>3. \E t \in Seq(Nat) : FlattenSeq(SubSeq(f, 1, m)) = FlattenSeq(SubSeq(f, 1, q)) \o t
        BY <4>1, <4>2, Zenon
      <4> QED
        BY <4>1, <4>3, Zenon
    <3>4. m \in 0..m
      BY <1>1
    <3> QED
      BY <2>1, <3>2, <3>3, <3>4
  <2>6. PICK e : e = cols(k + 1) /\ e \in Seq(Nat) /\ Len(e) = Len(a) + Len(b)
                 /\ \A j \in 1..Len(b) : e[Len(a) + j] = b[j]
    BY <2>3, <2>4
  <2>7. /\ e \o t \in Seq(Nat) /\ Len(t) \in Nat /\ Len(e \o t) = Len(e) + Len(t)
        /\ \A j \in 1..Len(e) : (e \o t)[j] = e[j]
    BY <2>6, TwoParts
  <2>8. cols(m) = e \o t
    BY <2>5, <2>6
  <2>9. PICK la, lb, le, lt \in Nat : la = Len(a) /\ lb = Len(b) /\ le = Len(e) /\ lt = Len(t) /\ le = la + lb
    BY <2>3, <2>6, <2>7
  <2>10. ASSUME NEW j \in 1..lb PROVE (e \o t)[la + j] = b[j]
    <3>1. la + j \in 1..le
      BY <2>9
    <3>2. (e \o t)[la + j] = e[la + j]
      BY <2>7, <2>9, <3>1
    <3>3. e[la + j] = b[j]
      BY <2>6, <2>9
    <3> QED
      BY <3>2, <3>3
  <2>11. Len(cols(k)) = la /\ Len(col(k + 1)) = lb /\ Len(cols(k + 1)) = la + lb /\ Len(cols(m)) = le + lt
    BY <2>2, <2>6, <2>7, <2>8, <2>9
  <2>12. \A j \in 1..lb : cols(m)[la + j] = col(k + 1)[j]
    BY <2>2, <2>8, <2>10
  <2>13. la + lb <= le + lt
    BY <2>9
  <2> QED
    BY <2>9, <2>11, <2>12, <2>13
<1>8. Len(bytes) >= 2
  BY <1>5
<1>9. ASSUME NEW k \in 0..m - 1
      PROVE  /\ 2 + Len(cols(k)) \in Nat /\ 2 + Len(cols(k + 1)) = 2 + Len(cols(k)) + Len(col(k + 1))
             /\ 2 + Len(cols(k + 1)) <= Len(bytes)
             /\ \A j \in 1..Len(col(k + 1)) : bytes[2 + Len(cols(k)) + j] = col(k + 1)[j]
  <2>1. /\ Len(cols(k)) \in Nat /\ Len(cols(k + 1)) = Len(cols(k)) + Len(col(k + 1))
        /\ Len(cols(k + 1)) <= Len(cols(m)) /\ Len(col(k + 1)) \in Nat
        /\ \A j \in 1..Len(col(k + 1)) : cols(m)[Len(cols(k)) + j] = col(k + 1)[j]
    BY <1>7
  <2>2. PICK la, lb, lm \in Nat : la = Len(cols(k)) /\ lb = Len(col(k + 1)) /\ lm = Len(cols(m))
                                  /\ Len(cols(k + 1)) = la + lb /\ la + lb <= lm
    BY <1>5, <2>1
  <2>3. ASSUME NEW j \in 1..lb PROVE bytes[2 + la + j] = col(k + 1)[j]
    <3>1. la + j \in 1..lm /\ 2 + la + j = 2 + (la + j)
      BY <2>2
    <3>2. bytes[2 + (la + j)] = cols(m)[la + j]
      BY <1>5, <2>2, <3>1
    <3>3. cols(m)[la + j] = col(k + 1)[j]
      BY <2>1, <2>2
    <3> QED
      BY <3>1, <3>2, <3>3
  <2>4. Len(bytes) = 2 + lm
    BY <1>5, <2>2
  <2> HIDE DEF bytes, cols, col
  <2>5. 2 + la \in Nat /\ 2 + (la + lb) = 2 + la + lb /\ 2 + (la + lb) <= 2 + lm
    BY <2>2
  <2> QED
    BY <2>2, <2>3, <2>4, <2>5
<1> QED
  BY <1>5, <1>6, <1>8, <1>9 DEF m, bytes, cols, col

\* One more row.
LEMMA StreamGrows ==
  ASSUME SkiffAssumption, NEW rows \in Seq(InputRow)
  PROVE  LET m == Len(rows)
         IN  /\ m \in Nat
             /\ \A n \in 0..m : StreamTo(rows, n) \in Seq(Nat)
             /\ StreamTo(rows, 0) = <<>>
             /\ Encoded(rows) = StreamTo(rows, m)
             /\ \A n \in 0..m - 1 :
                  /\ StreamTo(rows, n + 1) = StreamTo(rows, n) \o EncodedRow(rows, n + 1)
                  /\ \E t \in Seq(Nat) : StreamTo(rows, m) = StreamTo(rows, n + 1) \o t
             /\ \A n \in 0..m : \A k \in n..m : \E t \in Seq(Nat) : StreamTo(rows, k) = StreamTo(rows, n) \o t
<1> DEFINE m == Len(rows)
           f == [i \in 1..m |-> EncodedRow(rows, i)]
<1>1. m \in Nat /\ DOMAIN rows = 1..m
  OBVIOUS
<1>2. \A i \in 1..m : EncodedRow(rows, i) \in Seq(Nat)
  BY ColumnsPlaced
<1>3. Encoded(rows) = StreamTo(rows, m)
  BY <1>1 DEF Encoded, StreamTo
<1> HIDE DEF m
<1>4. f \in Seq(Seq(Nat)) /\ Len(f) = m /\ \A i \in 1..m : f[i] = EncodedRow(rows, i)
  <2>1. f \in [1..m -> Seq(Nat)] /\ \A i \in 1..m : f[i] = EncodedRow(rows, i)
    BY <1>2
  <2> HIDE DEF f
  <2> QED
    BY <1>1, <2>1, FunIsSeq
<1> HIDE DEF f
<1>5. ASSUME NEW n \in 0..m PROVE StreamTo(rows, n) = FlattenSeq(SubSeq(f, 1, n))
  <2> DEFINE g == [i \in 1..n |-> EncodedRow(rows, i)]
             h == SubSeq(f, 1, n)
  <2>0. n \in Nat /\ n <= m
    BY <1>1
  <2>1. g \in Seq(Seq(Nat)) /\ Len(g) = n /\ \A i \in 1..n : g[i] = f[i]
    <3>1. g \in [1..n -> Seq(Nat)] /\ \A i \in 1..n : g[i] = f[i]
      BY <1>1, <1>2, <1>4, <2>0
    <3> HIDE DEF g
    <3> QED
      BY <2>0, <3>1, FunIsSeq
  <2> HIDE DEF g
  <2>2. h \in Seq(Seq(Nat)) /\ Len(h) = n /\ \A i \in 1..n : h[i] = f[i]
    <3>1. \A i \in 1..n : f[i] \in Seq(Nat)
      BY <1>4, <2>0
    <3> QED
      BY <1>4, <2>0, <3>1, SubSeqProperties
  <2> HIDE DEF h
  <2>3. g = h
    BY <2>1, <2>2, SeqEqual
  <2> QED
    BY <2>3 DEF g, h, StreamTo
<1>6. ASSUME NEW n \in 0..m PROVE StreamTo(rows, n) \in Seq(Nat)
  <2>1. \A i \in 1..n : f[i] \in Seq(Nat)
    BY <1>1, <1>4
  <2>2. SubSeq(f, 1, n) \in Seq(Seq(Nat))
    <3>1. n \in Nat
      BY <1>1
    <3> QED
      BY <1>4, <2>1, <3>1, SubSeqProperties
  <2>3. FlattenSeq(SubSeq(f, 1, n)) \in Seq(Nat)
    BY <2>2, FlattenIn
  <2> QED
    BY <1>5, <2>3
<1>7. ASSUME NEW n \in 0..m - 1 PROVE StreamTo(rows, n + 1) = StreamTo(rows, n) \o EncodedRow(rows, n + 1)
  <2>1. n \in Nat /\ n < Len(f) /\ n \in 0..m /\ n + 1 \in 0..m /\ n + 1 \in 1..m /\ f \in Seq(Seq(Nat))
    BY <1>1, <1>4
  <2>2. FlattenSeq(SubSeq(f, 1, n + 1)) = FlattenSeq(SubSeq(f, 1, n)) \o f[n + 1]
    BY <2>1, FlattenTake
  <2>3. f[n + 1] = EncodedRow(rows, n + 1)
    BY <1>4, <2>1
  <2>4. StreamTo(rows, n) = FlattenSeq(SubSeq(f, 1, n))
    BY <1>5, <2>1
  <2>5. StreamTo(rows, n + 1) = FlattenSeq(SubSeq(f, 1, n + 1))
    BY <1>5, <2>1
  <2> QED
    BY <2>2, <2>3, <2>4, <2>5
<1>8. ASSUME NEW n \in 0..m, NEW k \in n..m
      PROVE  \E t \in Seq(Nat) : StreamTo(rows, k) = StreamTo(rows, n) \o t
  <2>1. n \in Nat /\ n <= Len(f) /\ k \in n..Len(f) /\ k \in 0..m /\ f \in Seq(Seq(Nat))
    BY <1>1, <1>4
  <2>2. \E t \in Seq(Nat) : FlattenSeq(SubSeq(f, 1, k)) = FlattenSeq(SubSeq(f, 1, n)) \o t
    <3>1. \A j \in n..Len(f) :
            \E t \in Seq(Nat) : FlattenSeq(SubSeq(f, 1, j)) = FlattenSeq(SubSeq(f, 1, n)) \o t
      BY <2>1, PrefixOfNumbers
    <3> QED
      BY <2>1, <3>1, Zenon
  <2>3. StreamTo(rows, n) = FlattenSeq(SubSeq(f, 1, n))
    BY <1>5
  <2>4. StreamTo(rows, k) = FlattenSeq(SubSeq(f, 1, k))
    BY <1>5, <2>1
  <2> QED
    BY <2>2, <2>3, <2>4
<1>9. StreamTo(rows, 0) = <<>>
  <2>1. [i \in 1..0 |-> EncodedRow(rows, i)] = <<>>
    OBVIOUS
  <2> QED
    BY <2>1, FlattenEmpty DEF StreamTo
<1>10. ASSUME NEW n \in 0..m - 1 PROVE \E t \in Seq(Nat) : StreamTo(rows, m) = StreamTo(rows, n + 1) \o t
  <2>1. n + 1 \in 0..m /\ m \in n + 1..m
    BY <1>1
  <2> QED
    BY <1>8, <2>1
<1> QED
  BY <1>1, <1>3, <1>6, <1>7, <1>8, <1>9, <1>10 DEF m

\* Where the n-th row ends.
RowEnd(rows, n) == Len(StreamTo(rows, n))
LEMMA RowEndsGrow ==
  ASSUME SkiffAssumption, NEW rows \in Seq(InputRow)
  PROVE  /\ RowEnd(rows, 0) = 0
         /\ \A n \in 0..Len(rows) : RowEnd(rows, n) \in Nat
         /\ \A n \in 0..Len(rows) - 1 :
              /\ RowEnd(rows, n + 1) = RowEnd(rows, n) + Len(EncodedRow(rows, n + 1))
              /\ RowEnd(rows, n) + 2 <= RowEnd(rows, n + 1)
         /\ \A n \in 0..Len(rows) : \A k \in n..Len(rows) :
              RowEnd(rows, n) <= RowEnd(rows, k) /\ (n < k => RowEnd(rows, n) < RowEnd(rows, k))
         /\ Len(Encoded(rows)) = RowEnd(rows, Len(rows))
<1> DEFINE m == Len(rows)
<1>1. /\ m \in Nat /\ (\A n \in 0..m : StreamTo(rows, n) \in Seq(Nat)) /\ StreamTo(rows, 0) = <<>>
      /\ Encoded(rows) = StreamTo(rows, m)
      /\ \A n \in 0..m - 1 : StreamTo(rows, n + 1) = StreamTo(rows, n) \o EncodedRow(rows, n + 1)
      /\ \A n \in 0..m : \A k \in n..m : \E t \in Seq(Nat) : StreamTo(rows, k) = StreamTo(rows, n) \o t
  BY StreamGrows
<1>2. \A i \in 1..m : EncodedRow(rows, i) \in Seq(Nat) /\ Len(EncodedRow(rows, i)) >= 2
  BY ColumnsPlaced
<1>3. RowEnd(rows, 0) = 0
  BY <1>1 DEF RowEnd
<1>4. \A n \in 0..m : RowEnd(rows, n) \in Nat
  BY <1>1 DEF RowEnd
<1> HIDE DEF m
<1>5. ASSUME NEW n \in 0..m - 1
      PROVE  /\ RowEnd(rows, n + 1) = RowEnd(rows, n) + Len(EncodedRow(rows, n + 1))
             /\ RowEnd(rows, n) + 2 <= RowEnd(rows, n + 1)
  <2>1. n \in 0..m /\ n + 1 \in 1..m
    BY <1>1
  <2>2. PICK a, b : a = StreamTo(rows, n) /\ b = EncodedRow(rows, n + 1) /\ a \in Seq(Nat) /\ b \in Seq(Nat)
                    /\ Len(b) >= 2
    BY <1>1, <1>2, <2>1
  <2>3. Len(a) \in Nat /\ Len(b) \in Nat /\ Len(a \o b) = Len(a) + Len(b)
    BY <2>2, TwoParts
  <2>4. StreamTo(rows, n + 1) = a \o b
    BY <1>1, <2>2
  <2> QED
    BY <2>2, <2>3, <2>4 DEF RowEnd
<1>6. ASSUME NEW n \in 0..m, NEW k \in n..m PROVE RowEnd(rows, n) <= RowEnd(rows, k)
  <2>1. PICK t \in Seq(Nat) : StreamTo(rows, k) = StreamTo(rows, n) \o t
    BY <1>1
  <2>2. PICK a \in Seq(Nat) : a = StreamTo(rows, n)
    BY <1>1
  <2>3. Len(a) \in Nat /\ Len(t) \in Nat /\ Len(a \o t) = Len(a) + Len(t)
    BY <2>1, <2>2, TwoParts
  <2> QED
    BY <2>1, <2>2, <2>3 DEF RowEnd
<1>7. ASSUME NEW n \in 0..m, NEW k \in n..m, n < k PROVE RowEnd(rows, n) < RowEnd(rows, k)
  <2>1. n \in 0..m - 1 /\ n + 1 \in 0..m /\ k \in n + 1..m /\ k \in 0..m
    BY <1>1, <1>7
  <2>2. RowEnd(rows, n) + 2 <= RowEnd(rows, n + 1) /\ RowEnd(rows, n + 1) <= RowEnd(rows, k)
    BY <1>5, <1>6, <2>1
  <2>3. RowEnd(rows, n) \in Nat /\ RowEnd(rows, n + 1) \in Nat /\ RowEnd(rows, k) \in Nat
    BY <1>4, <2>1
  <2> QED
    BY <2>2, <2>3
<1>8. Len(Encoded(rows)) = RowEnd(rows, m)
  BY <1>1 DEF RowEnd
<1> QED
  BY <1>3, <1>4, <1>5, <1>6, <1>7, <1>8 DEF m

\* The first n rows alone are encoded as they are among the others.
LEMMA EncodedPart ==
  ASSUME SkiffAssumption, NEW rows \in Seq(InputRow), NEW n \in 0..Len(rows)
  PROVE  Encoded(SubSeq(rows, 1, n)) = StreamTo(rows, n)
<1> DEFINE some == SubSeq(rows, 1, n)
<1>1. n \in Nat /\ n <= Len(rows) /\ \A i \in 1..n : rows[i] \in InputRow
  OBVIOUS
<1>2. some \in Seq(InputRow) /\ Len(some) = n /\ \A i \in 1..n : some[i] = rows[i]
  BY <1>1, SubSeqProperties
<1> HIDE DEF some
<1>3. ASSUME NEW i \in 1..n PROVE EncodedRow(some, i) = EncodedRow(rows, i)
  <2>1. some[i] = rows[i] /\ \A j \in 1..i - 1 : some[j] = rows[j]
    BY <1>1, <1>2
  <2>2. Before(some, i) = Before(rows, i)
    <3>1. ASSUME NEW j \in 1..i - 1
          PROVE  (some[j].table = some[i].table /\ \A k \in j + 1..i - 1 : some[k].table # some[i].table)
                 <=> (rows[j].table = rows[i].table /\ \A k \in j + 1..i - 1 : rows[k].table # rows[i].table)
      <4>1. \A k \in j + 1..i - 1 : k \in 1..i - 1
        BY <1>1
      <4> QED
        BY <2>1, <4>1
    <3> QED
      BY <3>1 DEF Before
  <2>3. \A j \in Before(rows, i) : some[j] = rows[j]
    BY <2>1 DEF Before
  <2>4. ASSUME NEW column PROVE Column(some, i, column) = Column(rows, i, column)
    <3>1. (\E j \in Before(some, i) : some[i].row = some[j].row + 1)
          = (\E j \in Before(rows, i) : rows[i].row = rows[j].row + 1)
      BY <2>1, <2>2, <2>3
    <3>2. (\E j \in Before(some, i) : some[i].range = some[j].range)
          = (\E j \in Before(rows, i) : rows[i].range = rows[j].range)
      BY <2>1, <2>2, <2>3
    <3> QED
      BY <2>1, <3>1, <3>2 DEF Column
  <2> QED
    BY <2>1, <2>4 DEF EncodedRow
<1>4. DOMAIN some = 1..n
  BY <1>2
<1>5. [i \in DOMAIN some |-> EncodedRow(some, i)] = [i \in 1..n |-> EncodedRow(rows, i)]
  BY <1>3, <1>4
<1> QED
  BY <1>5 DEF Encoded, StreamTo, some

(***************************************************************************)
(* The decoder, piece by piece.                                            *)
(***************************************************************************)
SkiffValue == Nat \cup BOOLEAN \cup {NoValue}
Stops == {"no", "none", "truncated", "read", "rowTooLarge", "blobTooLarge", "invalidTag", "invalidTable",
          "end"}
Cursors == [at : Nat, left : Nat, values : Seq(SkiffValue), stop : Stops]
Arrives == skiffInput \in Seq(Nat) /\ skiffBad \in Nat

\* Reading some numbers leaves all but the place alone.
ReadsOn(c, n, d) ==
  /\ d \in Cursors /\ d.left = c.left /\ d.values = c.values
  /\ c.stop # "no" => d = c
  /\ c.stop = "no" =>
       \/ /\ d.stop = "no" /\ d.at = c.at + n /\ c.at + n <= Len(skiffInput)
          /\ skiffBad \notin c.at + 1..c.at + n
       \/ /\ d.stop = "read" /\ d.at = skiffBad - 1
          /\ skiffBad \in c.at + 1..c.at + n
       \/ /\ d.stop = "truncated" /\ d.at = Len(skiffInput) /\ c.at + n > Len(skiffInput)
          /\ skiffBad \in c.at + 1..c.at + n => skiffBad > Len(skiffInput) + 1
LEMMA ExactlyIs ==
  ASSUME Arrives, NEW c \in Cursors, NEW n \in Nat
  PROVE  Exactly(c, n) \in Cursors /\ ReadsOn(c, n, Exactly(c, n))
<1> USE DEF ReadsOn
<1>0. Len(skiffInput) \in Nat /\ skiffBad \in Nat /\ c.at \in Nat /\ c.left \in Nat /\ c.stop \in Stops
      /\ c.values \in Seq(SkiffValue)
  BY DEF Arrives, Cursors
<1>1. CASE c.stop # "no"
  BY <1>1 DEF Exactly, On
<1>2. CASE c.stop = "no" /\ skiffBad \in c.at + 1..c.at + n /\ skiffBad <= Len(skiffInput) + 1
  <2>1. Exactly(c, n) = [at |-> skiffBad - 1, left |-> c.left, values |-> c.values, stop |-> "read"]
    BY <1>2 DEF Exactly, On, Cursor
  <2>2. skiffBad - 1 \in Nat
    BY <1>0, <1>2
  <2>3. Exactly(c, n) \in Cursors
    BY <1>0, <2>1, <2>2 DEF Cursors, Stops
  <2> QED
    BY <1>0, <1>2, <2>1, <2>3
<1>3. CASE c.stop = "no" /\ ~(skiffBad \in c.at + 1..c.at + n /\ skiffBad <= Len(skiffInput) + 1)
           /\ c.at + n > Len(skiffInput)
  <2>1. Exactly(c, n) = [at |-> Len(skiffInput), left |-> c.left, values |-> c.values, stop |-> "truncated"]
    BY <1>3 DEF Exactly, On, Cursor
  <2>2. Exactly(c, n) \in Cursors
    BY <1>0, <2>1 DEF Cursors, Stops
  <2> QED
    BY <1>0, <1>3, <2>1, <2>2
<1>4. CASE c.stop = "no" /\ ~(skiffBad \in c.at + 1..c.at + n /\ skiffBad <= Len(skiffInput) + 1)
           /\ ~(c.at + n > Len(skiffInput))
  <2>1. Exactly(c, n) = [c EXCEPT !.at = c.at + n]
    BY <1>4 DEF Exactly, On
  <2>2. c.at + n \in Nat
    BY <1>0
  <2>3. Exactly(c, n) \in Cursors
    BY <2>1, <2>2 DEF Cursors
  <2>4. Exactly(c, n).at = c.at + n /\ Exactly(c, n).left = c.left /\ Exactly(c, n).values = c.values
        /\ Exactly(c, n).stop = c.stop
    BY <2>1 DEF Cursors
  <2>5. c.at + n <= Len(skiffInput) /\ skiffBad \notin c.at + 1..c.at + n
    BY <1>0, <1>4
  <2> QED
    BY <1>4, <2>3, <2>4, <2>5
<1> QED
  BY <1>1, <1>2, <1>3, <1>4

\* A refusal changes nothing else.
LEMMA StoppedIs ==
  ASSUME NEW c \in Cursors, NEW why \in Stops
  PROVE  /\ Stopped(c, why) \in Cursors
         /\ Stopped(c, why).at = c.at /\ Stopped(c, why).left = c.left
         /\ Stopped(c, why).values = c.values /\ Stopped(c, why).stop = why
BY DEF Stopped, Cursors

\* A charge leaves all but the budget alone.
Charges(c, n, d) ==
  /\ d \in Cursors /\ d.at = c.at /\ d.values = c.values
  /\ c.stop # "no" => d = c
  /\ c.stop = "no" =>
       \/ d.stop = "no" /\ d.left = c.left - n /\ n <= c.left
       \/ d.stop = "rowTooLarge" /\ d.left = c.left /\ c.left < n
LEMMA ChargeIs ==
  ASSUME NEW c \in Cursors, NEW n \in Nat
  PROVE  Charge(c, n) \in Cursors /\ Charges(c, n, Charge(c, n))
<1> USE DEF Charges
<1>0. c.at \in Nat /\ c.left \in Nat /\ c.stop \in Stops /\ c.values \in Seq(SkiffValue)
  BY DEF Cursors
<1>1. CASE c.stop # "no"
  BY <1>1 DEF Charge, On
<1>2. CASE c.stop = "no" /\ c.left < n
  <2>1. Charge(c, n) = Stopped(c, "rowTooLarge")
    BY <1>2 DEF Charge, On
  <2>2. Charge(c, n) \in Cursors /\ Charge(c, n).at = c.at /\ Charge(c, n).values = c.values
        /\ Charge(c, n).left = c.left /\ Charge(c, n).stop = "rowTooLarge"
    <3>1. "rowTooLarge" \in Stops
      BY DEF Stops
    <3> QED
      BY <2>1, <3>1, StoppedIs
  <2> QED
    BY <1>2, <2>2
<1>3. CASE c.stop = "no" /\ ~(c.left < n)
  <2>1. Charge(c, n) = [c EXCEPT !.left = c.left - n]
    BY <1>3 DEF Charge, On
  <2>2. c.left - n \in Nat /\ n <= c.left
    BY <1>0, <1>3
  <2>3. Charge(c, n) \in Cursors /\ Charge(c, n).at = c.at /\ Charge(c, n).values = c.values
        /\ Charge(c, n).left = c.left - n /\ Charge(c, n).stop = c.stop
    BY <2>1, <2>2 DEF Cursors
  <2> QED
    BY <1>3, <2>2, <2>3
<1> QED
  BY <1>1, <1>2, <1>3

\* A value is put after the others.
Appends(c, v, d) ==
  /\ d \in Cursors /\ d.at = c.at /\ d.left = c.left /\ d.stop = c.stop
  /\ c.stop # "no" => d = c
  /\ c.stop = "no" => d.values = Append(c.values, v)
LEMMA ValueIs ==
  ASSUME NEW c \in Cursors, NEW v \in SkiffValue
  PROVE  Value(c, v) \in Cursors /\ Appends(c, v, Value(c, v))
<1> USE DEF Appends
<1>1. CASE c.stop # "no"
  BY <1>1 DEF Value, On
<1>2. CASE c.stop = "no"
  <2>1. Value(c, v) = [c EXCEPT !.values = Append(c.values, v)]
    BY <1>2 DEF Value, On
  <2>2. Append(c.values, v) \in Seq(SkiffValue)
    BY AppendProperties DEF Cursors
  <2> QED
    BY <1>2, <2>1, <2>2 DEF Cursors
<1> QED
  BY <1>1, <1>2

\* At a place of the stream there is a number.
LEMMA NumberIs ==
  ASSUME Arrives, NEW c \in Cursors, c.at \in 1..Len(skiffInput)
  PROVE  Number(c) \in Nat /\ Number(c) = skiffInput[c.at]
BY DEF Arrives, Number, Cursors

\* Some numbers are in the stream, as far as it has arrived.
Carries(p, s) == \A j \in 1..Len(s) : p + j <= Len(skiffInput) => skiffInput[p + j] = s[j]

\* Why a piece that ends at end and costs so much was not read, and what it is
\* to have been read.
Excused(d, end, cost, left, big) ==
  /\ d.stop \in {"truncated", "read", "rowTooLarge", "blobTooLarge"}
  /\ d.stop = "truncated" => Len(skiffInput) < end
  /\ d.stop = "read" => d.at = skiffBad - 1
  /\ d.stop = "rowTooLarge" => left < cost
  /\ d.stop = "blobTooLarge" => big
ReadAs(c, d, size, cost, v, big) ==
  /\ d \in Cursors
  /\ \/ /\ d.stop = "no" /\ d.at = c.at + size /\ d.at <= Len(skiffInput)
        /\ d.left = c.left - cost /\ d.values = Append(c.values, v)
     \/ Excused(d, c.at + size, cost, c.left, big)

\* The child of an optional value that is nothing costs one.
LEMMA ChildIsNothing ==
  ASSUME SkiffAssumption, Arrives, NEW c \in Cursors, c.stop = "no", c.at <= Len(skiffInput), Number(c) = 0
  PROVE  ReadAs(c, Child(c), 0, 1, NoValue, FALSE)
<1>0. c.at \in Nat /\ c.left \in Nat /\ NoValue \in SkiffValue
  BY DEF Cursors, SkiffValue
<1>1. PICK e \in Cursors : e = Charge(c, 1) /\ Charges(c, 1, e)
  BY ChargeIs
<1>2. PICK d \in Cursors : d = Value(e, NoValue) /\ Appends(e, NoValue, d)
  BY <1>0, ValueIs
<1>3. Child(c) = d
  BY <1>1, <1>2 DEF Child, On
<1>4. ReadAs(c, d, 0, 1, NoValue, FALSE)
  <2>1. d.at = e.at /\ d.left = e.left /\ d.stop = e.stop /\ e.at = c.at /\ e.values = c.values
    BY <1>1, <1>2 DEF Charges, Appends
  <2>2. CASE e.stop = "no"
    <3>1. e.left = c.left - 1 /\ d.values = Append(c.values, NoValue)
      BY <1>1, <1>2, <2>1, <2>2 DEF Charges, Appends
    <3>2. d.at = c.at + 0
      BY <1>0, <2>1
    <3> QED
      BY <1>2, <2>1, <2>2, <3>1, <3>2 DEF ReadAs
  <2>3. CASE e.stop # "no"
    <3>1. e.stop = "rowTooLarge" /\ c.left < 1
      BY <1>1, <2>3 DEF Charges
    <3> QED
      BY <1>2, <2>1, <3>1 DEF ReadAs, Excused
  <2> QED
    BY <2>2, <2>3
<1> QED
  BY <1>3, <1>4

\* ... and so does one that is a number.
LEMMA ChildIsNumber ==
  ASSUME SkiffAssumption, Arrives, NEW c \in Cursors, c.stop = "no", Number(c) = 1,
         NEW v \in Nat, c.at + 1 <= Len(skiffInput) => skiffInput[c.at + 1] = v
  PROVE  ReadAs(c, Child(c), 1, 1, v, FALSE)
<1>0. c.at \in Nat /\ c.left \in Nat /\ v \in SkiffValue /\ Len(skiffInput) \in Nat
  BY DEF Cursors, SkiffValue, Arrives
<1>1. PICK e \in Cursors : e = Charge(c, 1) /\ Charges(c, 1, e)
  BY ChargeIs
<1>2. PICK r \in Cursors : r = Exactly(e, 1) /\ ReadsOn(e, 1, r)
  BY ExactlyIs
<1>3. Child(c) = IF r.stop = "no" THEN Value(r, Number(r)) ELSE r
  BY <1>1, <1>2 DEF Child, On
<1>4. CASE r.stop = "no"
  <2>1. e.stop = "no" /\ r.at = c.at + 1 /\ c.at + 1 <= Len(skiffInput) /\ r.left = c.left - 1
        /\ r.values = c.values
    BY <1>1, <1>2, <1>4 DEF Charges, ReadsOn
  <2>2. Number(r) = v
    BY <1>0, <2>1 DEF Number
  <2>3. Child(c) = Value(r, v)
    BY <1>3, <1>4, <2>2
  <2>4. PICK d \in Cursors : d = Value(r, v) /\ Appends(r, v, d)
    BY <1>0, ValueIs
  <2>5. ReadAs(c, d, 1, 1, v, FALSE)
    BY <1>0, <1>4, <2>1, <2>4 DEF ReadAs, Appends
  <2> QED
    BY <2>3, <2>4, <2>5
<1>5. CASE r.stop # "no"
  <2>1. Child(c) = r
    BY <1>3, <1>5
  <2>2. Excused(r, c.at + 1, 1, c.left, FALSE)
    BY <1>0, <1>1, <1>2, <1>5 DEF Excused, Charges, ReadsOn
  <2> QED
    BY <2>1, <2>2 DEF ReadAs
<1> QED
  BY <1>4, <1>5

\* A system column that is sent or not.
LEMMA OptionalIsRead ==
  ASSUME SkiffAssumption, Arrives, NEW c \in Cursors, c.stop = "no", c.at <= Len(skiffInput),
         NEW x \in Nat \cup {NoValue}, NEW s \in Seq(Nat), Carries(c.at, s),
         IF x = NoValue THEN Len(s) = 1 /\ s[1] = 0 ELSE Len(s) = 2 /\ s[1] = 1 /\ s[2] = x
  PROVE  ReadAs(c, Child(Exactly(c, 1)), Len(s), 1, x, FALSE)
<1>0. c.at \in Nat /\ c.left \in Nat /\ Len(skiffInput) \in Nat /\ Len(s) \in 1..2
  BY DEF Cursors, Arrives
<1>1. PICK r \in Cursors : r = Exactly(c, 1) /\ ReadsOn(c, 1, r)
  BY ExactlyIs
<1>2. CASE r.stop # "no"
  <2>1. Child(r) = r
    BY <1>2 DEF Child, On
  <2>2. Excused(r, c.at + Len(s), 1, c.left, FALSE)
    BY <1>0, <1>1, <1>2 DEF Excused, ReadsOn
  <2> QED
    BY <1>1, <2>1, <2>2 DEF ReadAs
<1>3. CASE r.stop = "no"
  <2>1. r.at = c.at + 1 /\ c.at + 1 <= Len(skiffInput) /\ r.left = c.left /\ r.values = c.values
    BY <1>1, <1>3 DEF ReadsOn
  <2>2. Number(r) = s[1]
    BY <1>0, <2>1 DEF Number, Carries
  <2>3. CASE x = NoValue
    <3>1. ReadAs(r, Child(r), 0, 1, NoValue, FALSE)
      BY <1>0, <1>3, <2>1, <2>2, <2>3, ChildIsNothing
    <3>2. Len(s) = 1
      BY <2>3
    <3>3. PICK d : d = Child(r)
      OBVIOUS
    <3>4. ReadAs(c, d, 1, 1, x, FALSE)
      BY <1>0, <2>1, <2>3, <3>1, <3>3 DEF ReadAs, Excused
    <3> QED
      BY <1>1, <3>2, <3>3, <3>4
  <2>4. CASE x # NoValue
    <3>1. x \in Nat /\ Len(s) = 2 /\ s[1] = 1 /\ s[2] = x
      BY <2>4
    <3>2. r.at + 1 <= Len(skiffInput) => skiffInput[r.at + 1] = x
      BY <1>0, <2>1, <3>1 DEF Carries
    <3>3. Number(r) = 1
      BY <2>2, <3>1
    <3>4. ReadAs(r, Child(r), 1, 1, x, FALSE)
      BY <1>3, <3>1, <3>2, <3>3, ChildIsNumber
    <3>5. PICK d : d = Child(r)
      OBVIOUS
    <3>6. ReadAs(c, d, 2, 1, x, FALSE)
      BY <1>0, <2>1, <3>4, <3>5 DEF ReadAs, Excused
    <3> QED
      BY <1>1, <3>1, <3>5, <3>6
  <2> QED
    BY <2>3, <2>4
<1> QED
  BY <1>2, <1>3

\* A blob.
LEMMA BlobIsRead ==
  ASSUME SkiffAssumption, Arrives, NEW c \in Cursors, c.stop = "no", c.at <= Len(skiffInput),
         NEW n \in Nat, NEW s \in Seq(Nat), Carries(c.at, s), Len(s) = 1 + n, s[1] = n
  PROVE  ReadAs(c, Blob(c), 1 + n, n, n, n > MaxBlobBytes)
<1>0. c.at \in Nat /\ c.left \in Nat /\ Len(skiffInput) \in Nat /\ n \in SkiffValue /\ MaxBlobBytes \in Nat
  BY DEF Cursors, Arrives, SkiffValue, SkiffAssumption
<1>1. PICK r \in Cursors : r = Exactly(c, 1) /\ ReadsOn(c, 1, r)
  BY ExactlyIs
<1>2. Blob(c) = IF r.stop # "no" THEN r
                ELSE IF Number(r) > MaxBlobBytes THEN Stopped(r, "blobTooLarge")
                ELSE Value(Exactly(Charge(r, Number(r)), Number(r)), Number(r))
  BY <1>1 DEF Blob, On
<1>3. CASE r.stop # "no"
  <2>1. Blob(c) = r
    BY <1>2, <1>3
  <2>2. Excused(r, c.at + (1 + n), n, c.left, n > MaxBlobBytes)
    BY <1>0, <1>1, <1>3 DEF Excused, ReadsOn
  <2> QED
    BY <2>1, <2>2 DEF ReadAs
<1>4. CASE r.stop = "no"
  <2>1. r.at = c.at + 1 /\ c.at + 1 <= Len(skiffInput) /\ r.left = c.left /\ r.values = c.values
    BY <1>1, <1>4 DEF ReadsOn
  <2>2. Number(r) = n
    <3>1. 1 \in 1..Len(s)
      BY <1>0
    <3> QED
      BY <2>1, <3>1 DEF Number, Carries
  <2>3. CASE n > MaxBlobBytes
    <3>1. Blob(c) = Stopped(r, "blobTooLarge")
      BY <1>2, <1>4, <2>2, <2>3
    <3>2. "blobTooLarge" \in Stops
      BY DEF Stops
    <3>3. PICK d : d = Stopped(r, "blobTooLarge") /\ d \in Cursors /\ d.stop = "blobTooLarge"
      BY <3>2, StoppedIs
    <3>4. ReadAs(c, d, 1 + n, n, n, n > MaxBlobBytes)
      BY <2>3, <3>3 DEF ReadAs, Excused
    <3> QED
      BY <3>1, <3>3, <3>4
  <2>4. CASE ~(n > MaxBlobBytes)
    <3>1. PICK e \in Cursors : e = Charge(r, n) /\ Charges(r, n, e)
      BY ChargeIs
    <3>2. PICK t \in Cursors : t = Exactly(e, n) /\ ReadsOn(e, n, t)
      BY ExactlyIs
    <3>3. PICK d \in Cursors : d = Value(t, n) /\ Appends(t, n, d)
      BY <1>0, ValueIs
    <3>4. Blob(c) = d
      BY <1>2, <1>4, <2>2, <2>4, <3>1, <3>2, <3>3
    <3>5. ReadAs(c, d, 1 + n, n, n, n > MaxBlobBytes)
      <4>1. CASE t.stop = "no"
        <5>1. e.stop = "no" /\ t.at = c.at + (1 + n) /\ t.at <= Len(skiffInput) /\ t.left = c.left - n /\ t.values = c.values
          <6>1. /\ e.stop = "no" /\ t.at = e.at + n /\ e.at + n <= Len(skiffInput)
                /\ t.left = e.left /\ t.values = e.values
            BY <3>1, <3>2, <4>1 DEF ReadsOn
          <6>2. e.at = r.at /\ e.left = r.left - n /\ e.values = r.values
            BY <1>4, <3>1, <6>1 DEF Charges
          <6>3. PICK a \in Nat : a = c.at
            BY <1>0
          <6>4. e.at = a + 1
            BY <2>1, <6>2, <6>3
          <6>5. e.at + n = a + (1 + n)
            BY <6>4
          <6> QED
            BY <2>1, <6>1, <6>2, <6>3, <6>5
        <5>2. d.stop = "no" /\ d.at = t.at /\ d.left = t.left /\ d.values = Append(t.values, n)
          BY <3>3, <4>1 DEF Appends
        <5>3. d.at = c.at + (1 + n)
          BY <5>1, <5>2
        <5> QED
          BY <5>1, <5>2, <5>3 DEF ReadAs
      <4>2. CASE t.stop # "no"
        <5>1. d = t
          BY <3>3, <4>2 DEF Appends
        <5>2. Excused(t, c.at + (1 + n), n, c.left, n > MaxBlobBytes)
          BY <1>0, <2>1, <1>4, <3>1, <3>2, <4>2 DEF Excused, ReadsOn, Charges
        <5> QED
          BY <5>1, <5>2 DEF ReadAs
      <4> QED
        BY <4>1, <4>2
    <3> QED
      BY <3>4, <3>5
  <2> QED
    BY <2>3, <2>4
<1> QED
  BY <1>3, <1>4

\* A child is decoded to a cursor, whatever there is.
LEMMA ChildIn ==
  ASSUME SkiffAssumption, Arrives, NEW c \in Cursors, c.stop = "no" => c.at \in 1..Len(skiffInput)
  PROVE  Child(c) \in Cursors
<1>0. NoValue \in SkiffValue /\ Len(skiffInput) \in Nat
  BY DEF SkiffValue, Arrives
<1>1. CASE c.stop # "no"
  BY <1>1 DEF Child, On
<1>2. CASE c.stop = "no"
  <2>1. PICK e \in Cursors : e = Charge(c, 1) /\ Charges(c, 1, e)
    BY ChargeIs
  <2>2. PICK r \in Cursors : r = Exactly(e, 1) /\ ReadsOn(e, 1, r)
    BY ExactlyIs
  <2>3. Value(e, NoValue) \in Cursors
    BY <1>0, ValueIs
  <2>4. r.stop = "no" => Value(r, Number(r)) \in Cursors
    <3> SUFFICES ASSUME r.stop = "no" PROVE Value(r, Number(r)) \in Cursors
      OBVIOUS
    <3>1. e.stop = "no"
      BY <2>2 DEF ReadsOn
    <3>2. e.at \in Nat /\ r.at = e.at + 1 /\ r.at <= Len(skiffInput)
      BY <2>2, <3>1 DEF ReadsOn, Cursors
    <3>3. r.at \in 1..Len(skiffInput)
      BY <1>0, <3>2
    <3>4. Number(r) \in SkiffValue
      BY <3>3, NumberIs DEF SkiffValue
    <3> QED
      BY <3>4, ValueIs
  <2>5. "invalidTag" \in Stops
    BY DEF Stops
  <2>6. Stopped(c, "invalidTag") \in Cursors
    BY <2>5, StoppedIs
  <2>7. Child(c) = IF Number(c) = 0 THEN Value(e, NoValue)
                   ELSE IF Number(c) # 1 THEN Stopped(c, "invalidTag")
                   ELSE IF r.stop = "no" THEN Value(r, Number(r)) ELSE r
    BY <1>2, <2>1, <2>2 DEF Child, On
  <2> QED
    BY <2>2, <2>3, <2>4, <2>6, <2>7
<1> QED
  BY <1>1, <1>2

\* So is an item, and the loop of a column of them has its turns.
LEMMA ItemIn ==
  ASSUME SkiffAssumption, Arrives, NEW c \in Cursors
  PROVE  Item(c) \in Cursors
<1>0. c.at \in Nat /\ Len(skiffInput) \in Nat
  BY DEF Cursors, Arrives
<1>1. PICK r \in Cursors : r = Exactly(c, 1) /\ ReadsOn(c, 1, r)
  BY ExactlyIs
<1>2. r.stop = "no" => r.at \in 1..Len(skiffInput)
  BY <1>0, <1>1 DEF ReadsOn
<1>3. Child(r) \in Cursors
  BY <1>2, ChildIn
<1>4. "end" \in Stops
  BY DEF Stops
<1>5. Stopped(r, "end") \in Cursors
  BY <1>4, StoppedIs
<1>6. Item(c) = c \/ Item(c) = Stopped(r, "end") \/ Item(c) = Child(r)
  BY <1>1 DEF Item
<1> QED
  BY <1>3, <1>5, <1>6

\* As many turns as the loop may take.
Turns == Len(skiffInput) + 1

\* A repeated variant is as many turns as there are numbers and one more.
LEMMA RepeatedIs ==
  ASSUME SkiffAssumption, Arrives, NEW c \in Cursors
  PROVE  \E f \in [0..Turns -> Cursors] :
           /\ f[0] = [c EXCEPT !.values = <<>>]
           /\ \A k \in 1..Turns : f[k] = Item(f[k - 1])
           /\ Repeated(c) = IF f[Turns].stop = "end"
                            THEN Cursor(f[Turns].at, f[Turns].left, Append(c.values, Len(f[Turns].values)), "no")
                            ELSE [f[Turns] EXCEPT !.values = c.values]
<1> DEFINE N == Turns
           base == [c EXCEPT !.values = <<>>]
           F(f) == [n \in 0..N |-> IF n = 0 THEN base ELSE Item(f[n - 1])]
           a == CHOOSE f : f = F(f)
           step == [i \in 1..N |-> [v \in Cursors |-> Item(v)]]
<1>1. N \in Nat
  BY DEF Turns, Arrives
<1>2. base \in Cursors
  <2>1. <<>> \in Seq(SkiffValue)
    OBVIOUS
  <2> QED
    BY <2>1 DEF Cursors
<1>3. step \in [1..N -> [Cursors -> Cursors]]
  BY ItemIn
<1>4. PICK g \in [0..N -> Cursors] : Recurs(g, N, base, step)
  <2> HIDE DEF N, base, step
  <2> QED
    BY <1>1, <1>2, <1>3, Recursion
<1>5. g = F(g)
  <2>1. ASSUME NEW n \in 0..N PROVE g[n] = IF n = 0 THEN base ELSE Item(g[n - 1])
    <3>1. CASE n = 0
      BY <1>4, <3>1 DEF Recurs
    <3>2. CASE n # 0
      <4>1. n \in 1..N /\ n - 1 \in 0..N
        BY <1>1, <3>2
      <4>2. g[n] = step[n][g[n - 1]]
        BY <1>4, <4>1 DEF Recurs
      <4> HIDE DEF N
      <4> QED
        BY <3>2, <4>1, <4>2
    <3> QED
      BY <3>1, <3>2
  <2> HIDE DEF N, base
  <2> QED
    BY <2>1
<1>6. a = F(a)
  <2> HIDE DEF F
  <2> QED
    BY <1>5
<1> HIDE DEF a
<1>7. a[0] = base /\ (\A k \in 1..N : a[k] = Item(a[k - 1])) /\ a = [n \in 0..N |-> a[n]]
  <2>1. ASSUME NEW n \in 0..N PROVE a[n] = IF n = 0 THEN base ELSE Item(a[n - 1])
    <3>1. F(a)[n] = IF n = 0 THEN base ELSE Item(a[n - 1])
      BY Zenon
    <3> HIDE DEF F, N, base
    <3> QED
      BY <1>6, <3>1
  <2>2. a = [n \in 0..N |-> a[n]]
    <3>1. DOMAIN F(a) = 0..N /\ F(a) = [n \in 0..N |-> F(a)[n]]
      BY Zenon
    <3> HIDE DEF F, N
    <3> QED
      BY <1>6, <3>1
  <2> HIDE DEF N, base, F
  <2>3. 0 \in 0..N /\ \A k \in 1..N : k \in 0..N /\ k # 0
    BY <1>1
  <2> QED
    BY <2>1, <2>2, <2>3
<1>8. \A k \in 0..N : a[k] \in Cursors
  <2> DEFINE P == {k \in Nat : k <= N => a[k] \in Cursors}
  <2>1. 0 \in P
    BY <1>2, <1>7
  <2>2. ASSUME NEW k \in P PROVE k + 1 \in P
    <3> SUFFICES ASSUME k + 1 <= N PROVE a[k + 1] \in Cursors
      OBVIOUS
    <3> HIDE DEF N
    <3>1. k + 1 \in 1..N /\ (k + 1) - 1 = k /\ a[k] \in Cursors
      BY <1>1
    <3>2. Item(a[k]) \in Cursors
      BY <3>1, ItemIn
    <3>3. a[k + 1] = Item(a[(k + 1) - 1])
      BY <1>7, <3>1
    <3> QED
      BY <3>1, <3>2, <3>3
  <2>3. P = Nat
    <3>1. P \in SUBSET Nat
      OBVIOUS
    <3> HIDE DEF P
    <3> QED
      BY <2>1, <2>2, <3>1, Inductive
  <2> SUFFICES ASSUME NEW k \in 0..N PROVE a[k] \in Cursors
    OBVIOUS
  <2>4. k \in Nat /\ k <= N
    BY <1>1
  <2>5. k \in P
    <3> HIDE DEF P
    <3> QED
      BY <2>3, <2>4
  <2> QED
    BY <2>4, <2>5
<1>9. a \in [0..N -> Cursors]
  <2> HIDE DEF N
  <2> QED
    BY <1>7, <1>8
<1>10. Repeated(c) = IF a[N].stop = "end" THEN Cursor(a[N].at, a[N].left, Append(c.values, Len(a[N].values)), "no")
                     ELSE [a[N] EXCEPT !.values = c.values]
  BY DEF Repeated, a, Turns
<1> QED
  BY <1>7, <1>9, <1>10

\* Where the loop is after k turns over n items.
TurnAt(c, n, k, d) ==
  /\ d \in Cursors
  /\ \/ /\ k <= n /\ d.stop = "no" /\ d.at = c.at + 2 * k /\ d.at <= Len(skiffInput)
        /\ d.left = c.left - k /\ Len(d.values) = k
     \/ /\ k > n /\ d.stop = "end" /\ d.at = c.at + (2 * n + 1) /\ d.at <= Len(skiffInput)
        /\ d.left = c.left - n /\ Len(d.values) = n
     \/ Excused(d, c.at + (2 * n + 1), n, c.left, FALSE)

\* n items, as they are sent.
ItemBytes(n, s) ==
  /\ s \in Seq(Nat) /\ Len(s) = 2 * n + 1 /\ s[2 * n + 1] = RepeatedEnd
  /\ \A k \in 1..n : s[2 * k - 1] = 1 /\ s[2 * k] = k

\* A turn reads an item, or finds the end where it is.
LEMMA TurnIsTaken ==
  ASSUME SkiffAssumption, Arrives, NEW c \in Cursors, NEW n \in Nat, NEW s, ItemBytes(n, s),
         Carries(c.at, s), NEW k \in Nat, NEW d \in Cursors, TurnAt(c, n, k, d)
  PROVE  TurnAt(c, n, k + 1, Item(d))
<1> DEFINE N == Len(skiffInput)
<1>0. c.at \in Nat /\ c.left \in Nat /\ N \in Nat /\ d.at \in Nat /\ d.left \in Nat
  BY DEF Cursors, Arrives
<1>1. PICK r \in Cursors : r = Exactly(d, 1) /\ ReadsOn(d, 1, r)
  BY ExactlyIs
<1>2. CASE d.stop # "no"
  <2>1. Item(d) = d
    BY <1>2 DEF Item, On
  <2>2. k + 1 > n \/ d.stop # "end"
    BY <1>2 DEF TurnAt, Excused
  <2>3. TurnAt(c, n, k + 1, d)
    BY <1>2, <2>2 DEF TurnAt
  <2> QED
    BY <2>1, <2>3
<1>3. CASE d.stop = "no"
  <2>1. k <= n /\ d.at = c.at + 2 * k /\ d.at <= N /\ d.left = c.left - k /\ Len(d.values) = k
    BY <1>3 DEF TurnAt, Excused
  <2>2. Item(d) = IF r.stop = "no" /\ Number(r) = RepeatedEnd THEN Stopped(r, "end") ELSE Child(r)
    BY <1>1, <1>3 DEF Item, On
  <2>3. CASE r.stop # "no"
    <3>1. Item(d) = r
      BY <2>2, <2>3 DEF Child, On
    <3>2. PICK a, q \in Nat : a = c.at /\ q = 2 * k /\ q <= 2 * n /\ d.at = a + q
      BY <1>0, <2>1
    <3>3. /\ r.stop \in {"read", "truncated"}
          /\ r.stop = "read" => r.at = skiffBad - 1
          /\ r.stop = "truncated" => N < d.at + 1
      BY <1>0, <1>1, <1>3, <2>3 DEF ReadsOn
    <3>4. d.at + 1 <= a + (2 * n + 1)
      BY <3>2
    <3>5. Excused(r, c.at + (2 * n + 1), n, c.left, FALSE)
      <4>1. PICK end : end = c.at + (2 * n + 1) /\ end = a + (2 * n + 1) /\ end \in Int
        BY <3>2
      <4>2. N < d.at + 1 => N < end
        <5>1. d.at + 1 <= end
          BY <3>4, <4>1
        <5>2. PICK x, y \in Int : x = N /\ y = d.at + 1
          BY <1>0
        <5>3. x < y /\ y <= end => x < end
          BY <4>1
        <5> QED
          BY <5>1, <5>2, <5>3
      <4>3. Excused(r, end, n, c.left, FALSE)
        BY <3>3, <4>2 DEF Excused
      <4> QED
        BY <4>1, <4>3, Zenon
    <3> QED
      BY <3>1, <3>5 DEF TurnAt
  <2>4. CASE r.stop = "no"
    <3>1. r.at = d.at + 1 /\ d.at + 1 <= N /\ r.left = d.left /\ r.values = d.values
      BY <1>1, <1>3, <2>4 DEF ReadsOn
    <3>2. CASE k = n
      <4>1. 2 * n + 1 \in 1..Len(s) /\ r.at = c.at + (2 * n + 1)
        <5>1. Len(s) = 2 * n + 1
          BY DEF ItemBytes
        <5>2. PICK a, q \in Nat : a = c.at /\ q = 2 * n /\ d.at = a + q
          BY <1>0, <2>1, <3>2
        <5> QED
          BY <3>1, <5>1, <5>2
      <4>2. Number(r) = RepeatedEnd
        BY <3>1, <4>1 DEF Number, Carries, ItemBytes
      <4>3. Item(d) = Stopped(r, "end")
        BY <2>2, <2>4, <4>2
      <4>4. "end" \in Stops
        BY DEF Stops
      <4>5. PICK e \in Cursors : e = Stopped(r, "end") /\ e.at = r.at /\ e.left = r.left /\ e.values = r.values
                                 /\ e.stop = "end"
        BY <4>4, StoppedIs
      <4>6. k + 1 > n
        BY <3>2
      <4>7. TurnAt(c, n, k + 1, e)
        BY <2>1, <3>1, <3>2, <4>1, <4>5, <4>6 DEF TurnAt
      <4> QED
        BY <4>3, <4>5, <4>7
    <3>3. CASE k # n
      <4>1. k + 1 \in 1..n /\ k + 1 \in Nat
        BY <2>1, <3>3
      <4>2. PICK a, q \in Nat : a = c.at /\ q = 2 * k /\ q + 2 <= 2 * n /\ d.at = a + q
                                /\ 2 * (k + 1) - 1 = q + 1 /\ 2 * (k + 1) = q + 2
        BY <1>0, <2>1, <4>1
      <4>3. s[q + 1] = 1 /\ s[q + 2] = k + 1 /\ q + 1 \in 1..Len(s) /\ q + 2 \in 1..Len(s)
        <5>1. s[2 * (k + 1) - 1] = 1 /\ s[2 * (k + 1)] = k + 1 /\ Len(s) = 2 * n + 1
          BY <4>1 DEF ItemBytes
        <5>2. s[q + 1] = 1 /\ s[q + 2] = k + 1
          BY <4>2, <5>1
        <5>3. q + 1 \in 1..Len(s) /\ q + 2 \in 1..Len(s)
          BY <4>2, <5>1
        <5> QED
          BY <5>2, <5>3
      <4>4. r.at = a + (q + 1) /\ r.at + 1 = a + (q + 2)
        BY <3>1, <4>2
      <4>5. Number(r) = 1
        BY <3>1, <4>2, <4>3, <4>4 DEF Number, Carries
      <4>6. r.at + 1 <= Len(skiffInput) => skiffInput[r.at + 1] = k + 1
        BY <4>2, <4>3, <4>4 DEF Carries
      <4>7. ReadAs(r, Child(r), 1, 1, k + 1, FALSE)
        BY <2>4, <4>1, <4>5, <4>6, ChildIsNumber
      <4>8. Item(d) = Child(r)
        BY <2>2, <4>5 DEF RepeatedEnd
      <4>9. PICK e : e = Child(r)
        OBVIOUS
      <4>10. TurnAt(c, n, k + 1, e)
        <5>1. e \in Cursors
          BY <4>7, <4>9 DEF ReadAs
        <5>2. CASE e.stop = "no"
          <6>1. e.at = r.at + 1 /\ e.at <= N /\ e.left = r.left - 1 /\ e.values = Append(r.values, k + 1)
            BY <4>7, <4>9, <5>2 DEF ReadAs, Excused
          <6>2. e.at = c.at + 2 * (k + 1)
            BY <4>2, <4>4, <6>1
          <6>3. Len(e.values) = k + 1
            <7>1. r.values \in Seq(SkiffValue) /\ k + 1 \in SkiffValue
              BY <4>1 DEF Cursors, SkiffValue
            <7>2. Len(Append(r.values, k + 1)) = Len(r.values) + 1
              BY <7>1, AppendProperties
            <7>3. Len(r.values) = k
              BY <2>1, <3>1
            <7> QED
              BY <6>1, <7>2, <7>3
          <6>4. e.left = c.left - (k + 1)
            <7>1. PICK l \in Nat : l = c.left
              BY <1>0
            <7>2. r.left = l - k /\ e.left = (l - k) - 1
              BY <2>1, <3>1, <6>1, <7>1
            <7> QED
              BY <7>1, <7>2
          <6>5. k + 1 <= n /\ e.at <= Len(skiffInput)
            BY <4>1, <6>1
          <6> QED
            BY <5>1, <5>2, <6>2, <6>3, <6>4, <6>5 DEF TurnAt
        <5>3. CASE e.stop # "no"
          <6>1. Excused(e, r.at + 1, 1, r.left, FALSE)
            BY <4>7, <4>9, <5>3 DEF ReadAs
          <6>2. r.at + 1 <= a + (2 * n + 1)
            BY <4>2, <4>4
          <6>3. r.left < 1 => c.left < n
            BY <1>0, <2>1, <3>1, <4>1
          <6>4. Excused(e, c.at + (2 * n + 1), n, c.left, FALSE)
            <7>1. e.stop = "truncated" => N < r.at + 1
              BY <6>1 DEF Excused
            <7>2. PICK x, y, z \in Int : x = N /\ y = r.at + 1 /\ z = a + (2 * n + 1) /\ z = c.at + (2 * n + 1)
              <8>1. N \in Int /\ c.at \in Int /\ n \in Int
                BY <1>0
              <8>2. r.at + 1 \in Int /\ a = c.at
                BY <4>2, <4>4
              <8>3. c.at + (2 * n + 1) \in Int
                BY <8>1
              <8> QED
                BY <8>1, <8>2, <8>3, Zenon
            <7>3. e.stop = "truncated" => N < z
              <8>1. y <= z
                BY <6>2, <7>2
              <8>2. x < y => x < z
                BY <7>2, <8>1
              <8> QED
                BY <7>1, <7>2, <8>2
            <7>4. Excused(e, z, n, c.left, FALSE)
              BY <6>1, <6>3, <7>3 DEF Excused
            <7> QED
              BY <7>2, <7>4, Zenon
          <6> QED
            BY <5>1, <6>4 DEF TurnAt
        <5> QED
          BY <5>2, <5>3
      <4> QED
        BY <4>8, <4>9, <4>10
    <3> QED
      BY <3>2, <3>3
  <2> QED
    BY <2>3, <2>4
<1> QED
  BY <1>2, <1>3

\* A column of items is read to its end.
LEMMA ItemsAreRead ==
  ASSUME SkiffAssumption, Arrives, NEW c \in Cursors, c.stop = "no", c.at <= Len(skiffInput),
         NEW n \in Nat, NEW s, ItemBytes(n, s), Carries(c.at, s)
  PROVE  ReadAs(c, Repeated(c), 2 * n + 1, n, n, FALSE)
<1>0. c.at \in Nat /\ c.left \in Nat /\ Len(skiffInput) \in Nat /\ Turns = Len(skiffInput) + 1 /\ n \in SkiffValue
  BY DEF Cursors, Arrives, Turns, SkiffValue
<1>1. PICK f \in [0..Turns -> Cursors] :
        /\ f[0] = [c EXCEPT !.values = <<>>]
        /\ \A k \in 1..Turns : f[k] = Item(f[k - 1])
        /\ Repeated(c) = IF f[Turns].stop = "end"
                         THEN Cursor(f[Turns].at, f[Turns].left, Append(c.values, Len(f[Turns].values)), "no")
                         ELSE [f[Turns] EXCEPT !.values = c.values]
  BY RepeatedIs
<1>2. TurnAt(c, n, 0, f[0])
  <2>1. f[0] \in Cursors
    BY <1>0, <1>1
  <2>2. f[0].at = c.at /\ f[0].left = c.left /\ f[0].values = <<>> /\ f[0].stop = "no"
    BY <1>1 DEF Cursors
  <2>3. c.at = c.at + 2 * 0 /\ c.left = c.left - 0 /\ Len(<<>>) = 0 /\ 0 <= n
    BY <1>0
  <2> QED
    BY <2>1, <2>2, <2>3 DEF TurnAt
<1> DEFINE P == {k \in Nat : k <= Turns => TurnAt(c, n, k, f[k])}
<1>3. 0 \in P
  BY <1>2
<1>4. ASSUME NEW k \in P PROVE k + 1 \in P
  <2> SUFFICES ASSUME k + 1 <= Turns PROVE TurnAt(c, n, k + 1, f[k + 1])
    OBVIOUS
  <2>1. k \in Nat /\ k \in 0..Turns /\ k + 1 \in 1..Turns /\ (k + 1) - 1 = k /\ TurnAt(c, n, k, f[k])
    BY <1>0
  <2>2. f[k + 1] = Item(f[k])
    BY <1>1, <2>1
  <2>3. f[k] \in Cursors
    BY <2>1
  <2>4. TurnAt(c, n, k + 1, Item(f[k]))
    BY <2>1, <2>3, TurnIsTaken
  <2> QED
    BY <2>2, <2>4
<1>5. P = Nat
  <2>1. P \in SUBSET Nat
    OBVIOUS
  <2> HIDE DEF P
  <2> QED
    BY <1>3, <1>4, <2>1, Inductive
<1>6. TurnAt(c, n, Turns, f[Turns])
  <2>1. Turns \in Nat /\ Turns <= Turns
    BY <1>0
  <2>2. Turns \in P
    <3> HIDE DEF P
    <3> QED
      BY <1>5, <2>1
  <2> QED
    BY <2>1, <2>2
<1>7. PICK e \in Cursors : e = f[Turns] /\ TurnAt(c, n, Turns, e)
  BY <1>6 DEF TurnAt
<1>8. CASE e.stop = "end"
  <2>1. e.at = c.at + (2 * n + 1) /\ e.at <= Len(skiffInput) /\ e.left = c.left - n /\ Len(e.values) = n
    BY <1>7, <1>8 DEF TurnAt, Excused
  <2>2. PICK d : d = Cursor(e.at, e.left, Append(c.values, n), "no")
    OBVIOUS
  <2>3. Repeated(c) = d
    BY <1>1, <1>7, <1>8, <2>1, <2>2
  <2>4. Append(c.values, n) \in Seq(SkiffValue)
    BY <1>0, AppendProperties DEF Cursors
  <2>5. d.at = e.at /\ d.left = e.left /\ d.values = Append(c.values, n) /\ d.stop = "no"
    BY <2>2 DEF Cursor
  <2>6. d \in Cursors
    BY <2>2, <2>4 DEF Cursor, Cursors, Stops
  <2>7. ReadAs(c, d, 2 * n + 1, n, n, FALSE)
    BY <2>1, <2>5, <2>6 DEF ReadAs
  <2> QED
    BY <2>3, <2>7
<1>9. CASE e.stop # "end"
  <2>1. ~(c.at + 2 * Turns <= Len(skiffInput))
    BY <1>0
  <2>2. Excused(e, c.at + (2 * n + 1), n, c.left, FALSE)
    BY <1>7, <1>9, <2>1 DEF TurnAt
  <2>3. PICK d : d = [e EXCEPT !.values = c.values]
    OBVIOUS
  <2>4. Repeated(c) = d
    BY <1>1, <1>7, <1>9, <2>3
  <2>5. d \in Cursors /\ d.at = e.at /\ d.stop = e.stop
    BY <2>3 DEF Cursors
  <2>6. ReadAs(c, d, 2 * n + 1, n, n, FALSE)
    BY <2>2, <2>5 DEF ReadAs, Excused
  <2> QED
    BY <2>4, <2>6
<1> QED
  BY <1>8, <1>9

\* What is read of a column, and when it may be refused for its size.
ValueOf(rows, i, column) ==
  CASE column = "key"   -> rows[i].key
    [] column = "row"   -> RowSent(rows, i)
    [] column = "range" -> RangeSent(rows, i)
    [] column \in {"blob", "items"} -> rows[i].data
TooBig(rows, i, column) == column = "blob" /\ rows[i].data > MaxBlobBytes

\* What a column carries is a value, and it costs something.
LEMMA ValueOfIs ==
  ASSUME SkiffAssumption, NEW rows \in Seq(InputRow), NEW i \in 1..Len(rows), NEW column \in Columns
  PROVE  /\ ValueOf(rows, i, column) \in SkiffValue
         /\ Cost(rows[i], column) \in Nat /\ Cost(rows[i], column) >= 1
         /\ column = "key" => ValueOf(rows, i, column) = rows[i].key
         /\ column = "row" => ValueOf(rows, i, column) = RowSent(rows, i)
         /\ column = "range" => ValueOf(rows, i, column) = RangeSent(rows, i)
         /\ column \in {"blob", "items"} => ValueOf(rows, i, column) = rows[i].data
         /\ column = "key" => Cost(rows[i], column) = 1
         /\ column \in {"row", "range"} => Cost(rows[i], column) = 2
         /\ column \in {"blob", "items"} => Cost(rows[i], column) = 1 + rows[i].data
<1>1. /\ RowSent(rows, i) \in Nat \cup {NoValue} /\ RangeSent(rows, i) \in Nat \cup {NoValue}
      /\ rows[i].data \in Nat /\ rows[i].key \in BOOLEAN
  BY ColumnIs
<1>2. CASE column = "key"
  BY <1>1, <1>2 DEF ValueOf, Cost, SkiffValue
<1>3. CASE column = "row"
  BY <1>1, <1>3 DEF ValueOf, Cost, SkiffValue
<1>4. CASE column = "range"
  BY <1>1, <1>4 DEF ValueOf, Cost, SkiffValue
<1>5. CASE column = "blob"
  BY <1>1, <1>5 DEF ValueOf, Cost, SkiffValue
<1>6. CASE column = "items"
  BY <1>1, <1>6 DEF ValueOf, Cost, SkiffValue
<1> QED
  BY <1>2, <1>3, <1>4, <1>5, <1>6 DEF Columns, System

\* A boolean is a number that is not zero.
LEMMA KeyIsRead ==
  ASSUME SkiffAssumption, Arrives, NEW c \in Cursors, c.stop = "no", c.at <= Len(skiffInput),
         NEW b \in BOOLEAN, NEW s \in Seq(Nat), Carries(c.at, s), Len(s) = 1, s[1] = (IF b THEN 1 ELSE 0),
         NEW k, k = Exactly(c, 1)
  PROVE  ReadAs(c, IF k.stop = "no" THEN Value(k, Number(k) # 0) ELSE k, 1, 0, b, FALSE)
<1>0. c.at \in Nat /\ c.left \in Nat /\ Len(skiffInput) \in Nat /\ b \in SkiffValue
  BY DEF Cursors, Arrives, SkiffValue
<1>1. k \in Cursors /\ ReadsOn(c, 1, k)
  BY ExactlyIs
<1>2. CASE k.stop # "no"
  <2>1. Excused(k, c.at + 1, 0, c.left, FALSE)
    BY <1>0, <1>1, <1>2 DEF Excused, ReadsOn
  <2> QED
    BY <1>1, <1>2, <2>1 DEF ReadAs
<1>3. CASE k.stop = "no"
  <2>1. k.at = c.at + 1 /\ c.at + 1 <= Len(skiffInput) /\ k.left = c.left /\ k.values = c.values
    BY <1>1, <1>3 DEF ReadsOn
  <2>2. Number(k) = s[1]
    BY <1>0, <2>1 DEF Number, Carries
  <2>3. (Number(k) # 0) = b
    BY <2>2
  <2>4. PICK d : d = Value(k, b) /\ d \in Cursors /\ Appends(k, b, d)
    BY <1>0, <1>1, ValueIs
  <2>5. ReadAs(c, d, 1, 0, b, FALSE)
    <3>1. d.stop = "no" /\ d.at = c.at + 1 /\ d.at <= Len(skiffInput) /\ d.values = Append(c.values, b)
      BY <1>0, <1>3, <2>1, <2>4 DEF Appends
    <3>2. d.left = c.left - 0
      BY <1>0, <2>1, <2>4 DEF Appends
    <3> QED
      BY <2>4, <3>1, <3>2 DEF ReadAs
  <2>6. Value(k, Number(k) # 0) = d
    BY <2>3, <2>4
  <2> QED
    BY <1>3, <2>5, <2>6
<1> QED
  BY <1>2, <1>3

\* decode_value charges a Value for a column before it reads it.
LEMMA ChargedFirst ==
  ASSUME Arrives, NEW c \in Cursors, NEW e \in Cursors, c.stop = "no", Charges(c, 1, e), e.stop = "no",
         NEW d, NEW size \in Nat, NEW cost \in Nat, NEW v, NEW big,
         ReadAs(e, d, size, cost, v, big)
  PROVE  ReadAs(c, d, size, 1 + cost, v, big)
<1>0. e.left = c.left - 1 /\ 1 <= c.left /\ e.at = c.at /\ e.values = c.values
  BY DEF Charges
<1>1. PICK l \in Nat : l = c.left
  BY DEF Cursors
<1>2. e.left = l - 1 /\ (l - 1) - cost = l - (1 + cost) /\ (l - 1 < cost => l < 1 + cost)
  BY <1>0, <1>1
<1> QED
  BY <1>0, <1>1, <1>2 DEF ReadAs, Excused

\* A column that stands at the cursor is read whole, with its value and at its
\* cost, or the reader stops for a reason.
LEMMA ColumnIsRead ==
  ASSUME SkiffAssumption, Arrives, NEW c \in Cursors, c.stop = "no", c.at <= Len(skiffInput),
         NEW rows \in Seq(InputRow), NEW i \in 1..Len(rows), NEW column \in Columns,
         Carries(c.at, Column(rows, i, column))
  PROVE  ReadAs(c, DecodeValue(c, column), Len(Column(rows, i, column)), Cost(rows[i], column),
                ValueOf(rows, i, column), TooBig(rows, i, column))
<1> DEFINE v == ValueOf(rows, i, column)
           cost == Cost(rows[i], column)
           big == TooBig(rows, i, column)
<1>0. c.at \in Nat /\ c.left \in Nat /\ Len(skiffInput) \in Nat
  BY DEF Cursors, Arrives
<1>1. /\ RowSent(rows, i) \in Nat \cup {NoValue} /\ RangeSent(rows, i) \in Nat \cup {NoValue}
      /\ rows[i].data \in Nat /\ rows[i].key \in BOOLEAN
  BY ColumnIs
<1>2. /\ v \in SkiffValue /\ cost \in Nat /\ cost >= 1
      /\ column = "key" => v = rows[i].key
      /\ column = "row" => v = RowSent(rows, i)
      /\ column = "range" => v = RangeSent(rows, i)
      /\ column \in {"blob", "items"} => v = rows[i].data
      /\ column = "key" => cost = 1
      /\ column \in {"row", "range"} => cost = 2
      /\ column \in {"blob", "items"} => cost = 1 + rows[i].data
  BY ValueOfIs
<1>3. PICK s : s = Column(rows, i, column) /\ s \in Seq(Nat) /\ ColumnBytes(rows, i, column, s)
  BY ColumnBytesAre
<1>4. PICK e \in Cursors : e = Charge(c, 1) /\ Charges(c, 1, e)
  BY ChargeIs
<1>5. Carries(c.at, s) /\ Len(s) \in Nat
  BY <1>3
<1> HIDE DEF v, cost, big
<1>6. CASE e.stop # "no"
  <2>1. DecodeValue(c, column) = e
    BY <1>4, <1>6 DEF DecodeValue, On
  <2>2. e.stop = "rowTooLarge" /\ c.left < 1
    BY <1>4, <1>6 DEF Charges
  <2>3. ReadAs(c, e, Len(s), cost, v, big)
    BY <1>0, <1>2, <2>2 DEF ReadAs, Excused
  <2> QED
    BY <1>3, <2>1, <2>3 DEF v, cost, big
<1>7. CASE e.stop = "no"
  <2>0. e.at = c.at /\ Carries(e.at, s) /\ e.at <= Len(skiffInput)
    BY <1>4, <1>5 DEF Charges
  <2> SUFFICES ReadAs(c, DecodeValue(c, column), Len(s), cost, v, big)
    BY <1>3 DEF v, cost, big
  <2>1. CASE column = "key"
    <3>1. Len(s) = 1 /\ s[1] = (IF rows[i].key THEN 1 ELSE 0) /\ v = rows[i].key /\ cost = 1
      BY <1>2, <1>3, <2>1 DEF ColumnBytes
    <3>2. PICK k : k = Exactly(e, 1)
      OBVIOUS
    <3>3. PICK d : d = IF k.stop = "no" THEN Value(k, Number(k) # 0) ELSE k
      OBVIOUS
    <3>4. DecodeValue(c, column) = d
      BY <1>4, <1>7, <2>1, <3>2, <3>3 DEF DecodeValue, On
    <3>5. ReadAs(e, IF k.stop = "no" THEN Value(k, Number(k) # 0) ELSE k, 1, 0, rows[i].key, FALSE)
      BY <1>1, <1>3, <1>7, <2>0, <3>1, <3>2, KeyIsRead
    <3>6. ReadAs(e, d, 1, 0, rows[i].key, FALSE) /\ 1 \in Nat /\ 0 \in Nat
      BY <3>3, <3>5
    <3>7. ReadAs(c, d, 1, 1 + 0, rows[i].key, FALSE)
      BY <1>4, <1>7, <3>6, ChargedFirst
    <3>8. big = FALSE /\ 1 + 0 = 1
      BY <2>1 DEF big, TooBig
    <3> QED
      BY <3>1, <3>4, <3>7, <3>8
  <2>2. ASSUME column \in {"row", "range"} PROVE ReadAs(c, DecodeValue(c, column), Len(s), cost, v, big)
    <3>1. v \in Nat \cup {NoValue} /\ cost = 2
          /\ IF v = NoValue THEN Len(s) = 1 /\ s[1] = 0 ELSE Len(s) = 2 /\ s[1] = 1 /\ s[2] = v
      BY <1>1, <1>2, <1>3, <2>2 DEF ColumnBytes
    <3>2. PICK d : d = Child(Exactly(e, 1))
      OBVIOUS
    <3>3. DecodeValue(c, column) = d
      BY <1>4, <1>7, <2>2, <3>2 DEF DecodeValue, On
    <3>4. ReadAs(e, Child(Exactly(e, 1)), Len(s), 1, v, FALSE)
      BY <1>3, <1>7, <2>0, <3>1, OptionalIsRead
    <3>5. ReadAs(e, d, Len(s), 1, v, FALSE) /\ 1 \in Nat
      BY <3>2, <3>4
    <3>6. ReadAs(c, d, Len(s), 1 + 1, v, FALSE)
      BY <1>4, <1>5, <1>7, <3>5, ChargedFirst
    <3>7. big = FALSE /\ 1 + 1 = 2
      BY <2>2 DEF big, TooBig
    <3> QED
      BY <3>1, <3>3, <3>6, <3>7
  <2>3. CASE column = "blob"
    <3>1. PICK n \in Nat : n = rows[i].data /\ Len(s) = 1 + n /\ s[1] = n /\ v = n /\ cost = 1 + n
      BY <1>1, <1>2, <1>3, <2>3 DEF ColumnBytes
    <3>2. PICK d : d = Blob(e)
      OBVIOUS
    <3>3. DecodeValue(c, column) = d
      BY <1>4, <1>7, <2>3, <3>2 DEF DecodeValue, On
    <3>4. ReadAs(e, Blob(e), 1 + n, n, n, n > MaxBlobBytes)
      BY <1>3, <1>7, <2>0, <3>1, BlobIsRead
    <3>5. ReadAs(e, d, 1 + n, n, n, n > MaxBlobBytes) /\ 1 + n \in Nat
      BY <3>2, <3>4
    <3>6. ReadAs(c, d, 1 + n, 1 + n, n, n > MaxBlobBytes)
      BY <1>4, <1>7, <3>5, ChargedFirst
    <3>7. big = (n > MaxBlobBytes)
      BY <2>3, <3>1 DEF big, TooBig
    <3> QED
      BY <3>1, <3>3, <3>6, <3>7
  <2>4. CASE column = "items"
    <3>1. PICK n \in Nat : n = rows[i].data /\ Len(s) = 2 * n + 1 /\ v = n /\ cost = 1 + n /\ ItemBytes(n, s)
      BY <1>1, <1>2, <1>3, <2>4 DEF ColumnBytes, ItemBytes
    <3>2. PICK d : d = Repeated(e)
      OBVIOUS
    <3>3. DecodeValue(c, column) = d
      BY <1>4, <1>7, <2>4, <3>2 DEF DecodeValue, On
    <3>4. ReadAs(e, Repeated(e), 2 * n + 1, n, n, FALSE)
      <4>1. e.stop = "no" /\ e.at <= Len(skiffInput) /\ ItemBytes(n, s) /\ Carries(e.at, s)
        BY <1>7, <2>0, <3>1
      <4> QED
        BY <4>1, ItemsAreRead, Zenon
    <3>5. ReadAs(e, d, 2 * n + 1, n, n, FALSE) /\ 2 * n + 1 \in Nat
      <4>1. ReadAs(e, d, 2 * n + 1, n, n, FALSE)
        BY <3>2, <3>4, Zenon
      <4>2. 2 * n + 1 \in Nat
        OBVIOUS
      <4> QED
        BY <4>1, <4>2
    <3>6. ReadAs(c, d, 2 * n + 1, 1 + n, n, FALSE)
      BY <1>4, <1>7, <3>5, ChargedFirst
    <3>7. big = FALSE
      BY <2>4 DEF big, TooBig
    <3> QED
      BY <3>1, <3>3, <3>6, <3>7
  <2> QED
    BY <2>1, <2>2, <2>3, <2>4 DEF Columns, System
<1> QED
  BY <1>6, <1>7

(***************************************************************************)
(* What is skipped is what would be decoded.                               *)
(***************************************************************************)
\* Two cursors that differ in nothing but what has been decoded.
Alike(c, d) == /\ c \in Cursors /\ d \in Cursors
               /\ c.at = d.at /\ c.left = d.left /\ c.stop = d.stop

\* Alike cursors read alike,
LEMMA AlikeTakes ==
  ASSUME Arrives, NEW c, NEW d, Alike(c, d), NEW n \in Nat
  PROVE  Alike(Exactly(c, n), Exactly(d, n))
<1>1. c \in Cursors /\ d \in Cursors /\ c.at = d.at /\ c.left = d.left /\ c.stop = d.stop
  BY DEF Alike
<1>2. PICK e \in Cursors : e = Exactly(c, n) /\ ReadsOn(c, n, e)
  BY <1>1, ExactlyIs
<1>3. PICK f \in Cursors : f = Exactly(d, n) /\ ReadsOn(d, n, f)
  BY <1>1, ExactlyIs
<1>4. Alike(e, f)
  <2>1. CASE c.stop # "no"
    BY <1>1, <1>2, <1>3, <2>1 DEF ReadsOn, Alike
  <2>2. CASE c.stop = "no"
    <3>0. skiffBad \in Nat /\ Len(skiffInput) \in Nat /\ c.at \in Nat
      BY <1>1 DEF Arrives, Cursors
    <3>1. e.left = f.left
      BY <1>1, <1>2, <1>3 DEF ReadsOn
    <3>2. CASE skiffBad \in c.at + 1..c.at + n /\ skiffBad <= Len(skiffInput) + 1
      <4>1. e.stop = "read" /\ e.at = skiffBad - 1
        <5>1. Exactly(c, n) = Cursor(skiffBad - 1, c.left, c.values, "read")
          BY <2>2, <3>2 DEF Exactly, On
        <5> QED
          BY <1>2, <5>1 DEF Cursor
      <4>2. f.stop = "read" /\ f.at = skiffBad - 1
        <5>1. Exactly(d, n) = Cursor(skiffBad - 1, d.left, d.values, "read")
          BY <1>1, <2>2, <3>2 DEF Exactly, On
        <5> QED
          BY <1>3, <5>1 DEF Cursor
      <4> QED
        BY <3>1, <4>1, <4>2 DEF Alike
    <3>3. CASE ~(skiffBad \in c.at + 1..c.at + n /\ skiffBad <= Len(skiffInput) + 1) /\ c.at + n > Len(skiffInput)
      <4>1. e.stop = "truncated" /\ e.at = Len(skiffInput)
        <5>1. Exactly(c, n) = Cursor(Len(skiffInput), c.left, c.values, "truncated")
          BY <2>2, <3>3 DEF Exactly, On
        <5> QED
          BY <1>2, <5>1 DEF Cursor
      <4>2. f.stop = "truncated" /\ f.at = Len(skiffInput)
        <5>1. Exactly(d, n) = Cursor(Len(skiffInput), d.left, d.values, "truncated")
          BY <1>1, <2>2, <3>3 DEF Exactly, On
        <5> QED
          BY <1>3, <5>1 DEF Cursor
      <4> QED
        BY <3>1, <4>1, <4>2 DEF Alike
    <3>4. CASE ~(skiffBad \in c.at + 1..c.at + n /\ skiffBad <= Len(skiffInput) + 1) /\ ~(c.at + n > Len(skiffInput))
      <4>1. e.stop = "no" /\ e.at = c.at + n
        <5>1. Exactly(c, n) = [c EXCEPT !.at = c.at + n]
          BY <2>2, <3>4 DEF Exactly, On
        <5> QED
          BY <1>1, <1>2, <2>2, <5>1 DEF Cursors
      <4>2. f.stop = "no" /\ f.at = d.at + n
        <5>1. Exactly(d, n) = [d EXCEPT !.at = d.at + n]
          BY <1>1, <2>2, <3>4 DEF Exactly, On
        <5> QED
          BY <1>1, <1>3, <2>2, <5>1 DEF Cursors
      <4> QED
        BY <1>1, <3>1, <4>1, <4>2 DEF Alike
    <3> QED
      BY <3>2, <3>3, <3>4
  <2> QED
    BY <2>1, <2>2
<1> QED
  BY <1>2, <1>3, <1>4

\* are charged alike,
LEMMA AlikeCharged ==
  ASSUME NEW c, NEW d, Alike(c, d), NEW n \in Nat
  PROVE  Alike(Charge(c, n), Charge(d, n))
<1>1. c \in Cursors /\ d \in Cursors /\ c.at = d.at /\ c.left = d.left /\ c.stop = d.stop /\ c.left \in Nat
  BY DEF Alike, Cursors
<1>2. PICK e \in Cursors : e = Charge(c, n) /\ Charges(c, n, e)
  BY <1>1, ChargeIs
<1>3. PICK f \in Cursors : f = Charge(d, n) /\ Charges(d, n, f)
  BY <1>1, ChargeIs
<1>4. Alike(e, f)
  BY <1>1, <1>2, <1>3 DEF Charges, Alike
<1> QED
  BY <1>2, <1>3, <1>4

\* stop alike,
LEMMA AlikeStopped ==
  ASSUME NEW c, NEW d, Alike(c, d), NEW why \in Stops
  PROVE  Alike(Stopped(c, why), Stopped(d, why))
<1>1. c \in Cursors /\ d \in Cursors /\ c.at = d.at /\ c.left = d.left
  BY DEF Alike
<1>2. PICK e \in Cursors : e = Stopped(c, why) /\ e.at = c.at /\ e.left = c.left /\ e.stop = why
  BY <1>1, StoppedIs
<1>3. PICK f \in Cursors : f = Stopped(d, why) /\ f.at = d.at /\ f.left = d.left /\ f.stop = why
  BY <1>1, StoppedIs
<1> QED
  BY <1>1, <1>2, <1>3 DEF Alike

\* and are alike whatever value one of them takes.
LEMMA AlikeWithout ==
  ASSUME NEW c, NEW d, Alike(c, d), NEW v \in SkiffValue
  PROVE  Alike(Value(c, v), d)
<1>1. c \in Cursors /\ d \in Cursors /\ c.at = d.at /\ c.left = d.left /\ c.stop = d.stop
  BY DEF Alike
<1>2. PICK e \in Cursors : e = Value(c, v) /\ Appends(c, v, e)
  BY <1>1, ValueIs
<1> QED
  BY <1>1, <1>2 DEF Alike, Appends

\* Reading nothing goes nowhere.
LEMMA TakesNone ==
  ASSUME Arrives, NEW c \in Cursors, c.at <= Len(skiffInput)
  PROVE  Alike(c, Exactly(c, 0))
<1>0. c.at \in Nat /\ Len(skiffInput) \in Nat /\ c.at + 0 = c.at /\ 0 \in Nat
  BY DEF Cursors, Arrives
<1>1. PICK e \in Cursors : e = Exactly(c, 0) /\ ReadsOn(c, 0, e)
  BY <1>0, ExactlyIs
<1>2. skiffBad \notin c.at + 1..c.at + 0
  BY <1>0 DEF Arrives
<1> QED
  BY <1>0, <1>1, <1>2 DEF ReadsOn, Alike

\* A child is decoded as it is skipped.
LEMMA AlikeChild ==
  ASSUME SkiffAssumption, Arrives, NEW c, NEW d, Alike(c, d), c.stop = "no" => c.at \in 1..Len(skiffInput)
  PROVE  Alike(Child(c), SkipChild(d))
<1>1. c \in Cursors /\ d \in Cursors /\ c.at = d.at /\ c.left = d.left /\ c.stop = d.stop
  BY DEF Alike
<1>2. CASE c.stop # "no"
  BY <1>1, <1>2 DEF Child, SkipChild, On
<1>3. CASE c.stop = "no"
  <2>1. Number(c) \in Nat /\ Number(d) = Number(c) /\ Len(skiffInput) \in Nat
    <3>1. Number(c) = skiffInput[c.at] /\ Number(d) = skiffInput[d.at] /\ Number(c) \in Nat
      BY <1>1, <1>3, NumberIs
    <3> QED
      BY <1>1, <3>1 DEF Arrives
  <2>2. PICK e, f : e = Charge(c, 1) /\ f = Charge(d, 1) /\ Alike(e, f) /\ e.at = c.at
    <3>1. Charge(c, 1).at = c.at
      BY <1>1, ChargeIs DEF Charges
    <3>2. Alike(Charge(c, 1), Charge(d, 1))
      BY AlikeCharged
    <3> QED
      BY <3>1, <3>2
  <2>3. CASE Number(c) = 0
    <3>1. Child(c) = Value(e, NoValue)
      BY <1>3, <2>2, <2>3 DEF Child, On
    <3>2. SkipChild(d) = Exactly(f, 0)
      BY <1>1, <1>3, <2>1, <2>2, <2>3 DEF SkipChild, On
    <3>3. NoValue \in SkiffValue
      BY DEF SkiffValue
    <3>4. Alike(f, Exactly(f, 0))
      <4>1. f \in Cursors /\ f.at <= Len(skiffInput)
        BY <1>1, <1>3, <2>1, <2>2 DEF Alike
      <4> QED
        BY <4>1, TakesNone
    <3>5. Alike(Value(e, NoValue), f)
      BY <2>2, <3>3, AlikeWithout
    <3>6. Alike(Value(e, NoValue), Exactly(f, 0))
      BY <3>4, <3>5 DEF Alike
    <3> QED
      BY <3>1, <3>2, <3>6
  <2>4. CASE Number(c) = 1
    <3>1. PICK g, h : g = Exactly(e, 1) /\ h = Exactly(f, 1) /\ Alike(g, h)
      <4>1. Alike(Exactly(e, 1), Exactly(f, 1))
        BY <2>2, AlikeTakes
      <4> QED
        BY <4>1
    <3>2. Child(c) = IF g.stop = "no" THEN Value(g, Number(g)) ELSE g
      BY <1>3, <2>2, <2>4, <3>1 DEF Child, On
    <3>3. SkipChild(d) = h
      BY <1>1, <1>3, <2>1, <2>2, <2>4, <3>1 DEF SkipChild, On
    <3>4. ASSUME g.stop = "no" PROVE Alike(Value(g, Number(g)), h)
      <4>1. g \in Cursors /\ e \in Cursors
        BY <2>2, <3>1 DEF Alike
      <4>2. ReadsOn(e, 1, g)
        BY <3>1, <4>1, ExactlyIs
      <4>3. g.at \in 1..Len(skiffInput)
        BY <1>1, <1>3, <2>1, <2>2, <3>4, <4>2 DEF ReadsOn
      <4>4. Number(g) \in SkiffValue
        BY <4>1, <4>3, NumberIs DEF SkiffValue
      <4> QED
        BY <3>1, <4>4, AlikeWithout
    <3> QED
      BY <3>1, <3>2, <3>3, <3>4
  <2>5. CASE Number(c) # 0 /\ Number(c) # 1
    <3>1. Child(c) = Stopped(c, "invalidTag")
      BY <1>3, <2>5 DEF Child, On
    <3>2. SkipChild(d) = Stopped(d, "invalidTag")
      BY <1>1, <1>3, <2>1, <2>5 DEF SkipChild, On
    <3>3. "invalidTag" \in Stops
      BY DEF Stops
    <3> QED
      BY <3>1, <3>2, <3>3, AlikeStopped
  <2> QED
    BY <2>3, <2>4, <2>5
<1> QED
  BY <1>2, <1>3

\* An item of a repeated variant is decoded as it is skipped.
LEMMA AlikeItem ==
  ASSUME SkiffAssumption, Arrives, NEW c, NEW d, Alike(c, d)
  PROVE  Alike(Item(c), SkipItem(d))
<1>1. c \in Cursors /\ d \in Cursors /\ c.at = d.at /\ c.left = d.left /\ c.stop = d.stop /\ c.at \in Nat
  BY DEF Alike, Cursors
<1>2. PICK e, f : e = Exactly(c, 1) /\ f = Exactly(d, 1) /\ Alike(e, f)
  <2>1. Alike(Exactly(c, 1), Exactly(d, 1))
    BY AlikeTakes
  <2> QED
    BY <2>1
<1>3. e \in Cursors /\ f \in Cursors /\ e.at = f.at /\ e.stop = f.stop
  BY <1>2 DEF Alike
<1>4. CASE c.stop # "no"
  <2>1. Item(c) = c /\ f = d
    BY <1>1, <1>2, <1>4 DEF Item, On, Exactly
  <2>2. SkipItem(d) = d
    BY <1>1, <1>2, <1>4, <2>1 DEF SkipItem, SkipChild, On
  <2> QED
    BY <2>1, <2>2
<1>5. CASE c.stop = "no"
  <2>1. Item(c) = IF e.stop = "no" /\ Number(e) = RepeatedEnd THEN Stopped(e, "end") ELSE Child(e)
    BY <1>2, <1>5 DEF Item, On
  <2>2. SkipItem(d) = IF f.stop = "no" /\ Number(f) = RepeatedEnd THEN Stopped(f, "end") ELSE SkipChild(f)
    BY <1>2 DEF SkipItem, On
  <2>3. Number(e) = Number(f)
    BY <1>3 DEF Number
  <2>4. "end" \in Stops
    BY DEF Stops
  <2>5. Alike(Stopped(e, "end"), Stopped(f, "end"))
    BY <1>2, <2>4, AlikeStopped
  <2>6. e.stop = "no" => e.at \in 1..Len(skiffInput)
    <3>1. ReadsOn(c, 1, e) /\ Len(skiffInput) \in Nat
      BY <1>1, <1>2, ExactlyIs DEF Arrives
    <3> QED
      BY <1>1, <1>5, <3>1 DEF ReadsOn
  <2>7. Alike(Child(e), SkipChild(f))
    BY <1>2, <2>6, AlikeChild
  <2> QED
    BY <1>3, <2>1, <2>2, <2>3, <2>5, <2>7
<1> QED
  BY <1>4, <1>5

\* Skipping an item leaves a cursor.
LEMMA SkipItemIn ==
  ASSUME SkiffAssumption, Arrives, NEW c \in Cursors
  PROVE  SkipItem(c) \in Cursors
<1>1. Alike(c, c)
  BY DEF Alike
<1>2. Alike(Item(c), SkipItem(c))
  BY <1>1, AlikeItem
<1> QED
  BY <1>2 DEF Alike

\* The turns of the loop that skips items.
LEMMA SkippedIs ==
  ASSUME SkiffAssumption, Arrives, NEW c \in Cursors
  PROVE  \E f \in [0..Turns -> Cursors] :
           /\ f[0] = Charge(c, 1)
           /\ \A k \in 1..Turns : f[k] = SkipItem(f[k - 1])
           /\ SkipValue(c, "items") = IF ~On(Exactly(Charge(c, 1), 1)) THEN Exactly(Charge(c, 1), 1)
                                      ELSE IF f[Turns].stop = "end" THEN Stopped(f[Turns], "no")
                                      ELSE f[Turns]
<1> DEFINE N == Turns
           base == Charge(c, 1)
           F(f) == [n \in 0..N |-> IF n = 0 THEN base ELSE SkipItem(f[n - 1])]
           a == CHOOSE f : f = F(f)
           step == [i \in 1..N |-> [v \in Cursors |-> SkipItem(v)]]
<1>1. N \in Nat
  BY DEF Turns, Arrives
<1>2. base \in Cursors
  BY ChargeIs
<1>3. step \in [1..N -> [Cursors -> Cursors]]
  BY SkipItemIn
<1>4. PICK g \in [0..N -> Cursors] : Recurs(g, N, base, step)
  <2> HIDE DEF N, base, step
  <2> QED
    BY <1>1, <1>2, <1>3, Recursion
<1>5. g = F(g)
  <2>1. ASSUME NEW n \in 0..N PROVE g[n] = IF n = 0 THEN base ELSE SkipItem(g[n - 1])
    <3>1. CASE n = 0
      BY <1>4, <3>1 DEF Recurs
    <3>2. CASE n # 0
      <4>1. n \in 1..N /\ n - 1 \in 0..N
        BY <1>1, <3>2
      <4>2. g[n] = step[n][g[n - 1]]
        BY <1>4, <4>1 DEF Recurs
      <4> HIDE DEF N
      <4> QED
        BY <3>2, <4>1, <4>2
    <3> QED
      BY <3>1, <3>2
  <2> HIDE DEF N, base
  <2> QED
    BY <2>1
<1>6. a = F(a)
  <2> HIDE DEF F
  <2> QED
    BY <1>5
<1> HIDE DEF a
<1>7. a[0] = base /\ (\A k \in 1..N : a[k] = SkipItem(a[k - 1])) /\ a = [n \in 0..N |-> a[n]]
  <2>1. ASSUME NEW n \in 0..N PROVE a[n] = IF n = 0 THEN base ELSE SkipItem(a[n - 1])
    <3>1. F(a)[n] = IF n = 0 THEN base ELSE SkipItem(a[n - 1])
      BY Zenon
    <3> HIDE DEF F, N, base
    <3> QED
      BY <1>6, <3>1
  <2>2. a = [n \in 0..N |-> a[n]]
    <3>1. DOMAIN F(a) = 0..N /\ F(a) = [n \in 0..N |-> F(a)[n]]
      BY Zenon
    <3> HIDE DEF F, N
    <3> QED
      BY <1>6, <3>1
  <2> HIDE DEF N, base, F
  <2>3. 0 \in 0..N /\ \A k \in 1..N : k \in 0..N /\ k # 0
    BY <1>1
  <2> QED
    BY <2>1, <2>2, <2>3
<1>8. \A k \in 0..N : a[k] \in Cursors
  <2> DEFINE P == {k \in Nat : k <= N => a[k] \in Cursors}
  <2>1. 0 \in P
    BY <1>2, <1>7
  <2>2. ASSUME NEW k \in P PROVE k + 1 \in P
    <3> SUFFICES ASSUME k + 1 <= N PROVE a[k + 1] \in Cursors
      OBVIOUS
    <3> HIDE DEF N
    <3>1. k + 1 \in 1..N /\ (k + 1) - 1 = k /\ a[k] \in Cursors
      BY <1>1
    <3>2. SkipItem(a[k]) \in Cursors
      BY <3>1, SkipItemIn
    <3>3. a[k + 1] = SkipItem(a[(k + 1) - 1])
      BY <1>7, <3>1
    <3> QED
      BY <3>1, <3>2, <3>3
  <2>3. P = Nat
    <3>1. P \in SUBSET Nat
      OBVIOUS
    <3> HIDE DEF P
    <3> QED
      BY <2>1, <2>2, <3>1, Inductive
  <2> SUFFICES ASSUME NEW k \in 0..N PROVE a[k] \in Cursors
    OBVIOUS
  <2>4. k \in Nat /\ k <= N
    BY <1>1
  <2>5. k \in P
    <3> HIDE DEF P
    <3> QED
      BY <2>3, <2>4
  <2> QED
    BY <2>4, <2>5
<1>9. a \in [0..N -> Cursors]
  <2> HIDE DEF N
  <2> QED
    BY <1>7, <1>8
<1>10. SkipValue(c, "items") = IF ~On(Exactly(Charge(c, 1), 1)) THEN Exactly(Charge(c, 1), 1)
                               ELSE IF a[N].stop = "end" THEN Stopped(a[N], "no") ELSE a[N]
  BY DEF SkipValue, a, Turns
<1> QED
  BY <1>7, <1>9, <1>10

\* Items are skipped as they are decoded.
LEMMA AlikeItems ==
  ASSUME SkiffAssumption, Arrives, NEW c, NEW d, Alike(c, d)
  PROVE  Alike(DecodeValue(c, "items"), SkipValue(d, "items"))
<1>0. c \in Cursors /\ d \in Cursors /\ Turns \in Nat /\ 1 \in 1..Turns
  BY DEF Alike, Turns, Arrives
<1>1. PICK e, b : e = Charge(c, 1) /\ b = Charge(d, 1) /\ Alike(e, b)
  <2>1. Alike(Charge(c, 1), Charge(d, 1))
    BY AlikeCharged
  <2> QED
    BY <2>1
<1>2. e \in Cursors /\ b \in Cursors /\ e.stop = b.stop /\ e.at = b.at /\ e.left = b.left
  BY <1>1 DEF Alike
<1>3. PICK f \in [0..Turns -> Cursors] :
           /\ f[0] = b
           /\ \A k \in 1..Turns : f[k] = SkipItem(f[k - 1])
           /\ SkipValue(d, "items") = IF ~On(Exactly(b, 1)) THEN Exactly(b, 1)
                                      ELSE IF f[Turns].stop = "end" THEN Stopped(f[Turns], "no")
                                      ELSE f[Turns]
  BY <1>0, <1>1, SkippedIs
<1>4. DecodeValue(c, "items") = IF e.stop # "no" THEN e ELSE Repeated(e)
  BY <1>1 DEF DecodeValue, On
<1>5. CASE e.stop # "no"
  <2>1. Exactly(b, 1) = b
    BY <1>2, <1>5 DEF Exactly, On
  <2> QED
    BY <1>1, <1>2, <1>3, <1>4, <1>5, <2>1 DEF On
<1>6. CASE e.stop = "no"
  <2>1. PICK g \in [0..Turns -> Cursors] :
           /\ g[0] = [e EXCEPT !.values = <<>>]
           /\ \A k \in 1..Turns : g[k] = Item(g[k - 1])
           /\ Repeated(e) = IF g[Turns].stop = "end"
                            THEN Cursor(g[Turns].at, g[Turns].left, Append(e.values, Len(g[Turns].values)), "no")
                            ELSE [g[Turns] EXCEPT !.values = e.values]
    BY <1>2, RepeatedIs
  <2>2. Alike(g[0], f[0])
    <3>1. g[0] \in Cursors /\ f[0] \in Cursors
      BY <1>0
    <3>2. g[0].at = e.at /\ g[0].left = e.left /\ g[0].stop = e.stop
      BY <1>2, <2>1 DEF Cursors
    <3> QED
      BY <1>2, <1>3, <3>1, <3>2 DEF Alike
  <2>3. Alike(g[Turns], f[Turns])
    <3> DEFINE P == {k \in Nat : k <= Turns => Alike(g[k], f[k])}
    <3>1. 0 \in P
      BY <2>2
    <3>2. ASSUME NEW k \in P PROVE k + 1 \in P
      <4> SUFFICES ASSUME k + 1 <= Turns PROVE Alike(g[k + 1], f[k + 1])
        OBVIOUS
      <4>1. k \in Nat /\ k + 1 \in 1..Turns /\ (k + 1) - 1 = k /\ Alike(g[k], f[k])
        BY <1>0
      <4>2. g[k + 1] = Item(g[k]) /\ f[k + 1] = SkipItem(f[k])
        BY <1>3, <2>1, <4>1
      <4>3. Alike(Item(g[k]), SkipItem(f[k]))
        BY <4>1, AlikeItem
      <4> QED
        BY <4>2, <4>3
    <3>3. P = Nat
      <4>1. P \in SUBSET Nat
        OBVIOUS
      <4> HIDE DEF P
      <4> QED
        BY <3>1, <3>2, <4>1, Inductive
    <3>4. Turns \in P
      <4> HIDE DEF P
      <4> QED
        BY <1>0, <3>3
    <3>5. Turns <= Turns
      BY <1>0
    <3> QED
      BY <3>4, <3>5
  <2>4. PICK x, y : x = g[Turns] /\ y = f[Turns] /\ Alike(x, y)
    BY <2>3
  <2>5. x \in Cursors /\ y \in Cursors /\ x.at = y.at /\ x.left = y.left /\ x.stop = y.stop
        /\ e.values \in Seq(SkiffValue)
    BY <1>2, <2>4 DEF Alike, Cursors
  <2>6. CASE On(Exactly(b, 1))
    <3>1. CASE x.stop = "end"
      <4>1. PICK r : r = Cursor(x.at, x.left, Append(e.values, Len(x.values)), "no")
        OBVIOUS
      <4>2. DecodeValue(c, "items") = r
        BY <1>4, <1>6, <2>1, <2>4, <3>1, <4>1
      <4>3. Append(e.values, Len(x.values)) \in Seq(SkiffValue)
        <5>1. Len(x.values) \in SkiffValue
          <6>1. x.values \in Seq(SkiffValue)
            BY <2>5 DEF Cursors
          <6>2. Len(x.values) \in Nat
            BY <6>1
          <6> QED
            BY <6>2 DEF SkiffValue
        <5> QED
          BY <2>5, <5>1, AppendProperties
      <4>4. r \in Cursors /\ r.at = x.at /\ r.left = x.left /\ r.stop = "no"
        BY <2>5, <4>1, <4>3 DEF Cursors, Cursor, Stops
      <4>5. "no" \in Stops
        BY DEF Stops
      <4>6. PICK z : z = Stopped(y, "no") /\ z \in Cursors /\ z.at = y.at /\ z.left = y.left /\ z.stop = "no"
        BY <2>5, <4>5, StoppedIs
      <4>7. SkipValue(d, "items") = z
        BY <1>3, <2>4, <2>5, <2>6, <3>1, <4>6
      <4> QED
        BY <2>5, <4>2, <4>4, <4>6, <4>7 DEF Alike
    <3>2. CASE x.stop # "end"
      <4>1. PICK r : r = [x EXCEPT !.values = e.values]
        OBVIOUS
      <4>2. r \in Cursors /\ r.at = x.at /\ r.left = x.left /\ r.stop = x.stop
        BY <2>5, <4>1 DEF Cursors
      <4>3. DecodeValue(c, "items") = r
        BY <1>4, <1>6, <2>1, <2>4, <3>2, <4>1
      <4>4. SkipValue(d, "items") = y
        BY <1>3, <2>4, <2>5, <2>6, <3>2
      <4> QED
        BY <2>5, <4>2, <4>3, <4>4 DEF Alike
    <3> QED
      BY <3>1, <3>2
  <2>7. CASE ~On(Exactly(b, 1))
    <3>1. PICK t \in Cursors : t = Exactly(b, 1) /\ ReadsOn(b, 1, t)
      BY <1>2, ExactlyIs
    <3>2. t.stop # "no" /\ t.stop # "end"
      BY <1>2, <1>6, <2>7, <3>1 DEF On, ReadsOn
    <3>3. SkipItem(t) = t
      BY <3>2 DEF SkipItem, SkipChild, Exactly, On
    <3>4. SkipItem(b) = t
      BY <3>1, <3>2 DEF SkipItem, SkipChild, On
    <3> DEFINE P == {k \in Nat : k + 1 <= Turns => f[k + 1] = t}
    <3>5. 0 \in P
      BY <1>0, <1>3, <3>4
    <3>6. ASSUME NEW k \in P PROVE k + 1 \in P
      <4> SUFFICES ASSUME (k + 1) + 1 <= Turns PROVE f[(k + 1) + 1] = t
        OBVIOUS
      <4>1. k \in Nat /\ (k + 1) + 1 \in 1..Turns /\ ((k + 1) + 1) - 1 = k + 1 /\ f[k + 1] = t
        BY <1>0
      <4>2. f[(k + 1) + 1] = SkipItem(f[k + 1])
        BY <1>3, <4>1
      <4> QED
        BY <3>3, <4>1, <4>2
    <3>7. P = Nat
      <4>1. P \in SUBSET Nat
        OBVIOUS
      <4> HIDE DEF P
      <4> QED
        BY <3>5, <3>6, <4>1, Inductive
    <3>8. f[Turns] = t
      <4>1. Turns - 1 \in Nat /\ (Turns - 1) + 1 = Turns /\ Turns <= Turns
        BY <1>0
      <4>2. Turns - 1 \in P
        <5> HIDE DEF P
        <5> QED
          BY <3>7, <4>1
      <4> QED
        BY <4>1, <4>2
    <3>9. x.stop # "end" /\ y = t
      BY <2>4, <2>5, <3>2, <3>8
    <3>10. PICK r : r = [x EXCEPT !.values = e.values]
      OBVIOUS
    <3>11. r \in Cursors /\ r.at = x.at /\ r.left = x.left /\ r.stop = x.stop
      BY <2>5, <3>10 DEF Cursors
    <3>12. DecodeValue(c, "items") = r
      BY <1>4, <1>6, <2>1, <2>4, <3>9, <3>10
    <3>13. SkipValue(d, "items") = y
      BY <1>3, <2>7, <3>1, <3>9
    <3> QED
      BY <2>5, <3>11, <3>12, <3>13 DEF Alike
  <2> QED
    BY <2>6, <2>7
<1> QED
  BY <1>5, <1>6

\* A column is skipped as it is decoded.
LEMMA AlikeColumn ==
  ASSUME SkiffAssumption, Arrives, NEW c, NEW d, Alike(c, d), NEW column \in Columns
  PROVE  Alike(DecodeValue(c, column), SkipValue(d, column))
<1>0. c \in Cursors /\ d \in Cursors
  BY DEF Alike
<1>1. PICK e, b : e = Charge(c, 1) /\ b = Charge(d, 1) /\ Alike(e, b)
  <2>1. Alike(Charge(c, 1), Charge(d, 1))
    BY AlikeCharged
  <2> QED
    BY <2>1
<1>2. PICK r, s : r = Exactly(e, 1) /\ s = Exactly(b, 1) /\ Alike(r, s)
  <2>1. Alike(Exactly(e, 1), Exactly(b, 1))
    BY <1>1, AlikeTakes
  <2> QED
    BY <2>1
<1>3. /\ e \in Cursors /\ b \in Cursors /\ e.stop = b.stop
      /\ r \in Cursors /\ s \in Cursors /\ r.stop = s.stop /\ r.at = s.at
  BY <1>1, <1>2 DEF Alike
<1>4. ReadsOn(e, 1, r) /\ Number(r) = Number(s)
  BY <1>2, <1>3, ExactlyIs DEF Number
<1>5. r.stop = "no" => r.at \in 1..Len(skiffInput) /\ Number(r) \in Nat /\ Number(r) \in SkiffValue
                       /\ Number(s) \in Nat
  <2> SUFFICES ASSUME r.stop = "no" PROVE r.at \in 1..Len(skiffInput) /\ Number(r) \in Nat
    BY <1>4 DEF SkiffValue
  <2>1. e.at \in Nat /\ Len(skiffInput) \in Nat
    BY <1>3 DEF Cursors, Arrives
  <2>2. r.at \in 1..Len(skiffInput)
    BY <1>4, <2>1 DEF ReadsOn
  <2> QED
    BY <1>3, <2>2, NumberIs
<1>6. CASE column = "items"
  BY <1>6, AlikeItems
<1>7. CASE column # "items" /\ e.stop # "no"
  <2>1. DecodeValue(c, column) = e
    BY <1>1, <1>7 DEF DecodeValue, On
  <2>2. s = b /\ s.stop # "no"
    BY <1>2, <1>3, <1>7 DEF Exactly, On
  <2>3. SkipValue(d, column) = b
    BY <1>1, <1>2, <1>7, <2>2 DEF SkipValue, On
  <2> QED
    BY <1>1, <2>1, <2>3
<1>8. CASE column = "key" /\ e.stop = "no"
  <2>1. DecodeValue(c, column) = IF r.stop = "no" THEN Value(r, Number(r) # 0) ELSE r
    BY <1>1, <1>2, <1>8 DEF DecodeValue, On
  <2>2. SkipValue(d, column) = s
    BY <1>1, <1>2, <1>8 DEF SkipValue, On
  <2>3. (Number(r) # 0) \in SkiffValue
    BY DEF SkiffValue
  <2>4. Alike(Value(r, Number(r) # 0), s)
    BY <1>2, <2>3, AlikeWithout
  <2> QED
    BY <1>2, <2>1, <2>2, <2>4
<1>9. ASSUME column \in {"row", "range"}, e.stop = "no" PROVE Alike(DecodeValue(c, column), SkipValue(d, column))
  <2>1. DecodeValue(c, column) = Child(r)
    BY <1>1, <1>2, <1>9 DEF DecodeValue, On
  <2>2. SkipValue(d, column) = SkipChild(s)
    <3>1. CASE s.stop = "no"
      BY <1>1, <1>2, <1>9, <3>1 DEF SkipValue, On
    <3>2. CASE s.stop # "no"
      BY <1>1, <1>2, <1>9, <3>2 DEF SkipValue, SkipChild, On
    <3> QED
      BY <3>1, <3>2
  <2>3. Alike(Child(r), SkipChild(s))
    BY <1>2, <1>5, AlikeChild
  <2> QED
    BY <2>1, <2>2, <2>3
<1>10. CASE column = "blob" /\ e.stop = "no"
  <2>1. DecodeValue(c, column) = Blob(e)
    BY <1>1, <1>10 DEF DecodeValue, On
  <2>2. CASE r.stop # "no"
    <3>1. Blob(e) = r
      BY <1>2, <2>2 DEF Blob, On
    <3>2. SkipValue(d, column) = s
      BY <1>1, <1>2, <1>3, <1>10, <2>2 DEF SkipValue, On
    <3> QED
      BY <1>2, <2>1, <3>1, <3>2
  <2>3. CASE r.stop = "no" /\ Number(r) > MaxBlobBytes
    <3>1. Blob(e) = Stopped(r, "blobTooLarge")
      BY <1>2, <2>3 DEF Blob, On
    <3>2. SkipValue(d, column) = Stopped(s, "blobTooLarge")
      BY <1>1, <1>2, <1>3, <1>4, <1>10, <2>3 DEF SkipValue, On
    <3>3. "blobTooLarge" \in Stops
      BY DEF Stops
    <3>4. Alike(Stopped(r, "blobTooLarge"), Stopped(s, "blobTooLarge"))
      BY <1>2, <3>3, AlikeStopped
    <3> QED
      BY <2>1, <3>1, <3>2, <3>4
  <2>4. CASE r.stop = "no" /\ ~(Number(r) > MaxBlobBytes)
    <3>1. PICK n \in Nat : n = Number(r) /\ n \in SkiffValue
      BY <1>5, <2>4
    <3>2. Blob(e) = Value(Exactly(Charge(r, n), n), n)
      BY <1>2, <2>4, <3>1 DEF Blob, On
    <3>3. SkipValue(d, column) = Exactly(Charge(s, n), n)
      BY <1>1, <1>2, <1>3, <1>4, <1>10, <2>4, <3>1 DEF SkipValue, On
    <3>4. Alike(Charge(r, n), Charge(s, n))
      BY <1>2, AlikeCharged
    <3>5. Alike(Exactly(Charge(r, n), n), Exactly(Charge(s, n), n))
      BY <3>4, AlikeTakes
    <3>6. Alike(Value(Exactly(Charge(r, n), n), n), Exactly(Charge(s, n), n))
      BY <3>1, <3>5, AlikeWithout
    <3> QED
      BY <2>1, <3>2, <3>3, <3>6
  <2> QED
    BY <2>2, <2>3, <2>4
<1> QED
  BY <1>6, <1>7, <1>8, <1>9, <1>10 DEF Columns, System

(***************************************************************************)
(* A row.                                                                  *)
(***************************************************************************)
\* The reader is somewhere in what has arrived.
Placed == skiffPos \in Nat /\ skiffPos <= Len(skiffInput)

\* The tag of a row: none where the stream ends before it, and a table's.
LEMMA StartIs ==
  ASSUME SkiffAssumption, Arrives, Placed
  PROVE  /\ RowStart \in Cursors
         /\ RowStart.stop # "end"
         /\ RowStart.stop = "none" => skiffPos = Len(skiffInput)
         /\ RowStart.stop = "truncated" => skiffPos + 1 <= Len(skiffInput) /\ Len(skiffInput) < skiffPos + 2
         /\ RowStart.stop = "read" => RowStart.at = skiffBad - 1
         /\ RowStart.stop = "rowTooLarge" => MaxRowBytes < 1
         /\ RowStart.stop # "blobTooLarge" /\ RowStart.stop # "invalidTag"
         /\ RowStart.stop = "invalidTable" =>
              /\ skiffPos + 2 <= Len(skiffInput)
              /\ skiffInput[skiffPos + 2] # 0 \/ skiffInput[skiffPos + 1] \notin SkiffTables
         /\ RowStart.stop \in {"no", "rowTooLarge"} => skiffPos + 2 <= Len(skiffInput)
         /\ RowStart.stop = "no" =>
              /\ RowStart.at = skiffPos + 2
              /\ skiffInput[skiffPos + 1] \in SkiffTables
              /\ RowStart.left = MaxRowBytes - 1 /\ RowStart.values = <<>>
<1> DEFINE c == Cursor(skiffPos, MaxRowBytes, <<>>, "no")
<1>0. skiffPos \in Nat /\ skiffPos <= Len(skiffInput) /\ Len(skiffInput) \in Nat /\ skiffBad \in Nat
      /\ MaxRowBytes \in Nat
  BY DEF Placed, Arrives, SkiffAssumption
<1>1. c \in Cursors /\ c.at = skiffPos /\ c.left = MaxRowBytes /\ c.values = <<>> /\ c.stop = "no"
  BY <1>0 DEF Cursor, Cursors, Stops
<1>2. PICK first \in Cursors : first = Exactly(c, 1) /\ ReadsOn(c, 1, first)
  BY <1>1, ExactlyIs
<1>3. PICK tag \in Cursors : tag = Exactly(first, 1) /\ ReadsOn(first, 1, tag)
  BY ExactlyIs
<1>4. RowStart = IF first.stop = "truncated" THEN Stopped(first, "none")
                 ELSE IF tag.stop # "no" THEN tag
                 ELSE IF Number(tag) # 0 \/ Number(first) \notin SkiffTables THEN Stopped(tag, "invalidTable")
                 ELSE Charge(tag, 1)
  BY <1>2, <1>3 DEF RowStart, CleanEnd, On
<1> HIDE DEF c
<1>5. CASE first.stop = "truncated"
  <2>1. "none" \in Stops
    BY DEF Stops
  <2>2. PICK r : r = Stopped(first, "none") /\ r \in Cursors /\ r.stop = "none"
    BY <2>1, StoppedIs
  <2>3. skiffPos = Len(skiffInput)
    BY <1>0, <1>1, <1>2, <1>5 DEF ReadsOn
  <2>4. RowStart = r
    BY <1>4, <1>5, <2>2
  <2> QED
    BY <2>2, <2>3, <2>4
<1>6. CASE first.stop = "read"
  <2>1. tag = first /\ first.at = skiffBad - 1
    BY <1>1, <1>2, <1>3, <1>6 DEF ReadsOn
  <2>2. RowStart = first
    BY <1>4, <1>6, <2>1
  <2> QED
    BY <1>6, <2>1, <2>2
<1>7. CASE first.stop = "no"
  <2>1. first.at = skiffPos + 1 /\ skiffPos + 1 <= Len(skiffInput) /\ first.left = MaxRowBytes /\ first.values = <<>>
    BY <1>1, <1>2, <1>7 DEF ReadsOn
  <2>2. CASE tag.stop # "no"
    <3>1. RowStart = tag
      BY <1>4, <1>7, <2>2
    <3>2. /\ tag.stop \in {"read", "truncated"}
          /\ tag.stop = "read" => tag.at = skiffBad - 1
          /\ tag.stop = "truncated" => Len(skiffInput) < skiffPos + 2
      BY <1>0, <1>3, <1>7, <2>1, <2>2 DEF ReadsOn
    <3> QED
      BY <2>1, <3>1, <3>2
  <2>3. CASE tag.stop = "no"
    <3>1. tag.at = skiffPos + 2 /\ skiffPos + 2 <= Len(skiffInput) /\ tag.left = MaxRowBytes /\ tag.values = <<>>
      BY <1>0, <1>3, <1>7, <2>1, <2>3 DEF ReadsOn
    <3>2. Number(tag) = skiffInput[skiffPos + 2] /\ Number(first) = skiffInput[skiffPos + 1]
      BY <2>1, <3>1 DEF Number
    <3>3. CASE Number(tag) # 0 \/ Number(first) \notin SkiffTables
      <4>1. "invalidTable" \in Stops
        BY DEF Stops
      <4>2. PICK r : r = Stopped(tag, "invalidTable") /\ r \in Cursors /\ r.stop = "invalidTable"
        BY <4>1, StoppedIs
      <4>3. RowStart = r
        BY <1>4, <1>7, <2>3, <3>3, <4>2
      <4> QED
        BY <3>1, <3>2, <3>3, <4>2, <4>3
    <3>4. CASE ~(Number(tag) # 0 \/ Number(first) \notin SkiffTables)
      <4>1. PICK r \in Cursors : r = Charge(tag, 1) /\ Charges(tag, 1, r)
        BY ChargeIs
      <4>2. RowStart = r
        BY <1>4, <1>7, <2>3, <3>4, <4>1
      <4>3. r.stop = "no" => r.left = MaxRowBytes - 1 /\ r.at = skiffPos + 2 /\ r.values = <<>>
        BY <2>3, <3>1, <4>1 DEF Charges
      <4>4. r.stop # "no" => r.stop = "rowTooLarge" /\ MaxRowBytes < 1
        BY <2>3, <3>1, <4>1 DEF Charges
      <4> QED
        BY <3>1, <3>2, <3>4, <4>1, <4>2, <4>3, <4>4
    <3> QED
      BY <3>3, <3>4
  <2> QED
    BY <2>2, <2>3
<1>8. first.stop \in {"no", "read", "truncated"}
  BY <1>1, <1>2 DEF ReadsOn
<1> QED
  BY <1>5, <1>6, <1>7, <1>8

\* The columns of the row that comes next, each of which leaves a cursor.
RowLayout == Layout(skiffInput[skiffPos + 1])
LEMMA ColumnIn ==
  ASSUME SkiffAssumption, Arrives, NEW c \in Cursors, NEW column \in Columns
  PROVE  DecodeValue(c, column) \in Cursors /\ SkipValue(c, column) \in Cursors
<1>1. Alike(c, c)
  BY DEF Alike
<1>2. Alike(DecodeValue(c, column), SkipValue(c, column))
  BY <1>1, AlikeColumn
<1> QED
  BY <1>2 DEF Alike

\* The columns of a row are decoded one after the other.
LEMMA DecodedIs ==
  ASSUME SkiffAssumption, Arrives, Placed, RowStart.stop = "no"
  PROVE  \E f \in [0..Len(RowLayout) -> Cursors] :
           /\ f[0] = RowStart
           /\ \A k \in 1..Len(RowLayout) : f[k] = DecodeValue(f[k - 1], RowLayout[k])
           /\ DecodedRow = f[Len(RowLayout)]
<1> DEFINE N == Len(RowLayout)
           base == RowStart
           Turn(x, k) == DecodeValue(x, RowLayout[k])
           F(f) == [n \in 0..N |-> IF n = 0 THEN base ELSE Turn(f[n - 1], n)]
           a == CHOOSE f : f = F(f)
           step == [i \in 1..N |-> [v \in Cursors |-> Turn(v, i)]]
<1>1. N \in Nat /\ \A k \in 1..N : RowLayout[k] \in Columns
  <2>1. skiffInput[skiffPos + 1] \in SkiffTables
    BY StartIs
  <2>2. RowLayout \in Seq(Columns) /\ Len(RowLayout) \in Nat
    BY <2>1, LayoutIs DEF RowLayout
  <2> QED
    BY <2>2
<1>2. base \in Cursors
  BY StartIs
<1>3. \A x \in Cursors : \A k \in 1..N : Turn(x, k) \in Cursors
  <2> HIDE DEF N
  <2> QED
    BY <1>1, ColumnIn
<1>10. DecodedRow = a[N]
  BY DEF DecodedRow, Advance, On, RowLayout
<1> HIDE DEF N, base, Turn
<1>4. PICK g \in [0..N -> Cursors] : Recurs(g, N, base, step)
  <2>1. step \in [1..N -> [Cursors -> Cursors]]
    BY <1>3
  <2> HIDE DEF step
  <2> QED
    BY <1>1, <1>2, <2>1, Recursion
<1>5. g = F(g)
  <2>1. ASSUME NEW n \in 0..N PROVE g[n] = IF n = 0 THEN base ELSE Turn(g[n - 1], n)
    <3>1. CASE n = 0
      BY <1>4, <3>1 DEF Recurs
    <3>2. CASE n # 0
      <4>1. n \in 1..N /\ n - 1 \in 0..N
        BY <1>1, <3>2
      <4>2. g[n] = step[n][g[n - 1]]
        BY <1>4, <4>1 DEF Recurs
      <4> QED
        BY <3>2, <4>1, <4>2
    <3> QED
      BY <3>1, <3>2
  <2> QED
    BY <2>1
<1>6. a = F(a)
  <2> HIDE DEF F
  <2> QED
    BY <1>5
<1> HIDE DEF a
<1>7. a[0] = base /\ (\A k \in 1..N : a[k] = Turn(a[k - 1], k)) /\ a = [n \in 0..N |-> a[n]]
  <2>1. ASSUME NEW n \in 0..N PROVE a[n] = IF n = 0 THEN base ELSE Turn(a[n - 1], n)
    <3>1. F(a)[n] = IF n = 0 THEN base ELSE Turn(a[n - 1], n)
      BY Zenon
    <3> HIDE DEF F
    <3> QED
      BY <1>6, <3>1
  <2>2. a = [n \in 0..N |-> a[n]]
    <3>1. DOMAIN F(a) = 0..N /\ F(a) = [n \in 0..N |-> F(a)[n]]
      BY Zenon
    <3> HIDE DEF F
    <3> QED
      BY <1>6, <3>1
  <2> HIDE DEF F
  <2>3. 0 \in 0..N /\ \A k \in 1..N : k \in 0..N /\ k # 0
    BY <1>1
  <2> QED
    BY <2>1, <2>2, <2>3
<1>8. \A k \in 0..N : a[k] \in Cursors
  <2> DEFINE P == {k \in Nat : k <= N => a[k] \in Cursors}
  <2>1. 0 \in P
    BY <1>2, <1>7
  <2>2. ASSUME NEW k \in P PROVE k + 1 \in P
    <3> SUFFICES ASSUME k + 1 <= N PROVE a[k + 1] \in Cursors
      OBVIOUS
    <3>1. k + 1 \in 1..N /\ (k + 1) - 1 = k /\ a[k] \in Cursors
      BY <1>1
    <3>2. Turn(a[k], k + 1) \in Cursors
      BY <1>3, <3>1
    <3>3. a[k + 1] = Turn(a[(k + 1) - 1], k + 1)
      BY <1>7, <3>1
    <3> QED
      BY <3>1, <3>2, <3>3
  <2>3. P = Nat
    <3>1. P \in SUBSET Nat
      OBVIOUS
    <3> HIDE DEF P
    <3> QED
      BY <2>1, <2>2, <3>1, Inductive
  <2> SUFFICES ASSUME NEW k \in 0..N PROVE a[k] \in Cursors
    OBVIOUS
  <2>4. k \in Nat /\ k <= N
    BY <1>1
  <2>5. k \in P
    <3> HIDE DEF P
    <3> QED
      BY <2>3, <2>4
  <2> QED
    BY <2>4, <2>5
<1>9. a \in [0..N -> Cursors]
  BY <1>7, <1>8
<1> QED
  BY <1>7, <1>9, <1>10 DEF N, base, Turn

\* ... or skipped.
LEMMA SkippedRowIs ==
  ASSUME SkiffAssumption, Arrives, Placed, RowStart.stop = "no"
  PROVE  \E f \in [0..Len(RowLayout) -> Cursors] :
           /\ f[0] = RowStart
           /\ \A k \in 1..Len(RowLayout) : f[k] = SkipValue(f[k - 1], RowLayout[k])
           /\ SkippedRow = f[Len(RowLayout)]
<1> DEFINE N == Len(RowLayout)
           base == RowStart
           Turn(x, k) == SkipValue(x, RowLayout[k])
           F(f) == [n \in 0..N |-> IF n = 0 THEN base ELSE Turn(f[n - 1], n)]
           a == CHOOSE f : f = F(f)
           step == [i \in 1..N |-> [v \in Cursors |-> Turn(v, i)]]
<1>1. N \in Nat /\ \A k \in 1..N : RowLayout[k] \in Columns
  <2>1. skiffInput[skiffPos + 1] \in SkiffTables
    BY StartIs
  <2>2. RowLayout \in Seq(Columns) /\ Len(RowLayout) \in Nat
    BY <2>1, LayoutIs DEF RowLayout
  <2> QED
    BY <2>2
<1>2. base \in Cursors
  BY StartIs
<1>3. \A x \in Cursors : \A k \in 1..N : Turn(x, k) \in Cursors
  <2> HIDE DEF N
  <2> QED
    BY <1>1, ColumnIn
<1>10. SkippedRow = a[N]
  BY DEF SkippedRow, Advance, On, RowLayout
<1> HIDE DEF N, base, Turn
<1>4. PICK g \in [0..N -> Cursors] : Recurs(g, N, base, step)
  <2>1. step \in [1..N -> [Cursors -> Cursors]]
    BY <1>3
  <2> HIDE DEF step
  <2> QED
    BY <1>1, <1>2, <2>1, Recursion
<1>5. g = F(g)
  <2>1. ASSUME NEW n \in 0..N PROVE g[n] = IF n = 0 THEN base ELSE Turn(g[n - 1], n)
    <3>1. CASE n = 0
      BY <1>4, <3>1 DEF Recurs
    <3>2. CASE n # 0
      <4>1. n \in 1..N /\ n - 1 \in 0..N
        BY <1>1, <3>2
      <4>2. g[n] = step[n][g[n - 1]]
        BY <1>4, <4>1 DEF Recurs
      <4> QED
        BY <3>2, <4>1, <4>2
    <3> QED
      BY <3>1, <3>2
  <2> QED
    BY <2>1
<1>6. a = F(a)
  <2> HIDE DEF F
  <2> QED
    BY <1>5
<1> HIDE DEF a
<1>7. a[0] = base /\ (\A k \in 1..N : a[k] = Turn(a[k - 1], k)) /\ a = [n \in 0..N |-> a[n]]
  <2>1. ASSUME NEW n \in 0..N PROVE a[n] = IF n = 0 THEN base ELSE Turn(a[n - 1], n)
    <3>1. F(a)[n] = IF n = 0 THEN base ELSE Turn(a[n - 1], n)
      BY Zenon
    <3> HIDE DEF F
    <3> QED
      BY <1>6, <3>1
  <2>2. a = [n \in 0..N |-> a[n]]
    <3>1. DOMAIN F(a) = 0..N /\ F(a) = [n \in 0..N |-> F(a)[n]]
      BY Zenon
    <3> HIDE DEF F
    <3> QED
      BY <1>6, <3>1
  <2> HIDE DEF F
  <2>3. 0 \in 0..N /\ \A k \in 1..N : k \in 0..N /\ k # 0
    BY <1>1
  <2> QED
    BY <2>1, <2>2, <2>3
<1>8. \A k \in 0..N : a[k] \in Cursors
  <2> DEFINE P == {k \in Nat : k <= N => a[k] \in Cursors}
  <2>1. 0 \in P
    BY <1>2, <1>7
  <2>2. ASSUME NEW k \in P PROVE k + 1 \in P
    <3> SUFFICES ASSUME k + 1 <= N PROVE a[k + 1] \in Cursors
      OBVIOUS
    <3>1. k + 1 \in 1..N /\ (k + 1) - 1 = k /\ a[k] \in Cursors
      BY <1>1
    <3>2. Turn(a[k], k + 1) \in Cursors
      BY <1>3, <3>1
    <3>3. a[k + 1] = Turn(a[(k + 1) - 1], k + 1)
      BY <1>7, <3>1
    <3> QED
      BY <3>1, <3>2, <3>3
  <2>3. P = Nat
    <3>1. P \in SUBSET Nat
      OBVIOUS
    <3> HIDE DEF P
    <3> QED
      BY <2>1, <2>2, <3>1, Inductive
  <2> SUFFICES ASSUME NEW k \in 0..N PROVE a[k] \in Cursors
    OBVIOUS
  <2>4. k \in Nat /\ k <= N
    BY <1>1
  <2>5. k \in P
    <3> HIDE DEF P
    <3> QED
      BY <2>3, <2>4
  <2> QED
    BY <2>4, <2>5
<1>9. a \in [0..N -> Cursors]
  BY <1>7, <1>8
<1> QED
  BY <1>7, <1>9, <1>10 DEF N, base, Turn

\* A row is skipped as it is decoded.
LEMMA AlikeRows ==
  ASSUME SkiffAssumption, Arrives, Placed
  PROVE  Alike(DecodedRow, SkippedRow)
<1>1. CASE RowStart.stop # "no"
  <2>1. DecodedRow = RowStart /\ SkippedRow = RowStart
    BY <1>1 DEF DecodedRow, SkippedRow, Advance, On
  <2> QED
    BY <2>1, StartIs DEF Alike
<1>2. CASE RowStart.stop = "no"
  <2> DEFINE N == Len(RowLayout)
  <2>1. N \in Nat /\ \A k \in 1..N : RowLayout[k] \in Columns
    <3>1. skiffInput[skiffPos + 1] \in SkiffTables
      BY <1>2, StartIs
    <3>2. RowLayout \in Seq(Columns) /\ Len(RowLayout) \in Nat
      BY <3>1, LayoutIs DEF RowLayout
    <3> QED
      BY <3>2
  <2>2. PICK f \in [0..N -> Cursors] : /\ f[0] = RowStart
                                       /\ \A k \in 1..N : f[k] = DecodeValue(f[k - 1], RowLayout[k])
                                       /\ DecodedRow = f[N]
    BY <1>2, DecodedIs
  <2>3. PICK g \in [0..N -> Cursors] : /\ g[0] = RowStart
                                       /\ \A k \in 1..N : g[k] = SkipValue(g[k - 1], RowLayout[k])
                                       /\ SkippedRow = g[N]
    BY <1>2, SkippedRowIs
  <2> HIDE DEF N
  <2> DEFINE P == {k \in Nat : k <= N => Alike(f[k], g[k])}
  <2>4. 0 \in P
    BY <2>1, <2>2, <2>3 DEF Alike
  <2>5. ASSUME NEW k \in P PROVE k + 1 \in P
    <3> SUFFICES ASSUME k + 1 <= N PROVE Alike(f[k + 1], g[k + 1])
      OBVIOUS
    <3>1. k + 1 \in 1..N /\ (k + 1) - 1 = k /\ Alike(f[k], g[k])
      BY <2>1
    <3>2. f[k + 1] = DecodeValue(f[k], RowLayout[k + 1]) /\ g[k + 1] = SkipValue(g[k], RowLayout[k + 1])
          /\ RowLayout[k + 1] \in Columns
      BY <2>1, <2>2, <2>3, <3>1
    <3>3. Alike(DecodeValue(f[k], RowLayout[k + 1]), SkipValue(g[k], RowLayout[k + 1]))
      BY <3>1, <3>2, AlikeColumn
    <3> QED
      BY <3>2, <3>3
  <2>6. P = Nat
    <3>1. P \in SUBSET Nat
      OBVIOUS
    <3> HIDE DEF P
    <3> QED
      BY <2>4, <2>5, <3>1, Inductive
  <2>7. N \in P
    <3> HIDE DEF P
    <3> QED
      BY <2>1, <2>6
  <2>8. N <= N
    BY <2>1
  <2> QED
    BY <2>2, <2>3, <2>7, <2>8
<1> QED
  BY <1>1, <1>2

\* What a row costs, column by column.
LEMMA FootprintIs ==
  ASSUME SkiffAssumption, NEW rows \in Seq(InputRow), NEW i \in 1..Len(rows)
  PROVE  LET m == Len(LayoutOf(rows, i))
         IN  \E g \in [0..m -> Nat] :
               /\ g[0] = 1
               /\ \A k \in 1..m : g[k] = g[k - 1] + Cost(rows[i], LayoutOf(rows, i)[k])
               /\ \A k \in 0..m : g[k] <= Footprint(rows[i])
               /\ Footprint(rows[i]) = g[m]
<1> DEFINE N == Len(LayoutOf(rows, i))
           base == 1
           Turn(x, k) == x + Cost(rows[i], LayoutOf(rows, i)[k])
           F(f) == [n \in 0..N |-> IF n = 0 THEN base ELSE Turn(f[n - 1], n)]
           a == CHOOSE f : f = F(f)
           step == [k \in 1..N |-> [v \in Nat |-> Turn(v, k)]]
<1>1. N \in Nat /\ \A k \in 1..N : Cost(rows[i], LayoutOf(rows, i)[k]) \in Nat
  <2>1. rows[i].table \in SkiffTables
    BY ColumnIs
  <2>2. LayoutOf(rows, i) \in Seq(Columns) /\ N \in Nat
    BY <2>1, LayoutIs DEF LayoutOf
  <2>3. ASSUME NEW k \in 1..N PROVE Cost(rows[i], LayoutOf(rows, i)[k]) \in Nat
    <3>1. LayoutOf(rows, i)[k] \in Columns
      BY <2>2
    <3> HIDE DEF N
    <3> QED
      BY <3>1, ValueOfIs
  <2> QED
    BY <2>2, <2>3
<1>2. base \in Nat
  OBVIOUS
<1>3. \A x \in Nat : \A k \in 1..N : Turn(x, k) \in Nat /\ x <= Turn(x, k)
  BY <1>1
<1>10. Footprint(rows[i]) = a[N]
  BY DEF Footprint, LayoutOf
<1> HIDE DEF N, base, Turn
<1>4. PICK g \in [0..N -> Nat] : Recurs(g, N, base, step)
  <2>1. step \in [1..N -> [Nat -> Nat]]
    BY <1>3
  <2> HIDE DEF step
  <2> QED
    BY <1>1, <1>2, <2>1, Recursion
<1>5. g = F(g)
  <2>1. ASSUME NEW n \in 0..N PROVE g[n] = IF n = 0 THEN base ELSE Turn(g[n - 1], n)
    <3>1. CASE n = 0
      BY <1>4, <3>1 DEF Recurs
    <3>2. CASE n # 0
      <4>1. n \in 1..N /\ n - 1 \in 0..N
        BY <1>1, <3>2
      <4>2. g[n] = step[n][g[n - 1]]
        BY <1>4, <4>1 DEF Recurs
      <4> QED
        BY <3>2, <4>1, <4>2
    <3> QED
      BY <3>1, <3>2
  <2> QED
    BY <2>1
<1>6. a = F(a)
  <2> HIDE DEF F
  <2> QED
    BY <1>5
<1> HIDE DEF a
<1>7. a[0] = base /\ (\A k \in 1..N : a[k] = Turn(a[k - 1], k)) /\ a = [n \in 0..N |-> a[n]]
  <2>1. ASSUME NEW n \in 0..N PROVE a[n] = IF n = 0 THEN base ELSE Turn(a[n - 1], n)
    <3>1. F(a)[n] = IF n = 0 THEN base ELSE Turn(a[n - 1], n)
      BY Zenon
    <3> HIDE DEF F
    <3> QED
      BY <1>6, <3>1
  <2>2. a = [n \in 0..N |-> a[n]]
    <3>1. DOMAIN F(a) = 0..N /\ F(a) = [n \in 0..N |-> F(a)[n]]
      BY Zenon
    <3> HIDE DEF F
    <3> QED
      BY <1>6, <3>1
  <2> HIDE DEF F
  <2>3. 0 \in 0..N /\ \A k \in 1..N : k \in 0..N /\ k # 0
    BY <1>1
  <2> QED
    BY <2>1, <2>2, <2>3
<1>8. \A k \in 0..N : a[k] \in Nat
  <2> DEFINE P == {k \in Nat : k <= N => a[k] \in Nat}
  <2>1. 0 \in P
    BY <1>2, <1>7
  <2>2. ASSUME NEW k \in P PROVE k + 1 \in P
    <3> SUFFICES ASSUME k + 1 <= N PROVE a[k + 1] \in Nat
      OBVIOUS
    <3>1. k + 1 \in 1..N /\ (k + 1) - 1 = k /\ a[k] \in Nat
      BY <1>1
    <3>2. Turn(a[k], k + 1) \in Nat
      BY <1>3, <3>1
    <3>3. a[k + 1] = Turn(a[(k + 1) - 1], k + 1)
      BY <1>7, <3>1
    <3> QED
      BY <3>1, <3>2, <3>3
  <2>3. P = Nat
    <3>1. P \in SUBSET Nat
      OBVIOUS
    <3> HIDE DEF P
    <3> QED
      BY <2>1, <2>2, <3>1, Inductive
  <2> SUFFICES ASSUME NEW k \in 0..N PROVE a[k] \in Nat
    OBVIOUS
  <2>4. k \in Nat /\ k <= N
    BY <1>1
  <2>5. k \in P
    <3> HIDE DEF P
    <3> QED
      BY <2>3, <2>4
  <2> QED
    BY <2>4, <2>5
<1>9. a \in [0..N -> Nat]
  BY <1>7, <1>8
<1>11. \A k \in 0..N : a[k] <= a[N]
  <2> DEFINE P == {j \in Nat : j <= N => a[N - j] <= a[N]}
  <2>1. 0 \in P
    <3>1. N - 0 = N /\ N \in 0..N
      BY <1>1
    <3>2. a[N] \in Nat
      BY <1>8, <3>1
    <3> QED
      BY <3>1, <3>2
  <2>2. ASSUME NEW j \in P PROVE j + 1 \in P
    <3> SUFFICES ASSUME j + 1 <= N PROVE a[N - (j + 1)] <= a[N]
      OBVIOUS
    <3>1. j \in Nat /\ N - j \in 1..N /\ N - (j + 1) \in 0..N /\ (N - j) - 1 = N - (j + 1) /\ a[N - j] <= a[N]
          /\ N \in 0..N /\ N - j \in 0..N
      BY <1>1
    <3>2. a[N - j] = Turn(a[N - (j + 1)], N - j)
      BY <1>7, <3>1
    <3>3. a[N - (j + 1)] <= a[N - j]
      BY <1>3, <1>8, <3>1, <3>2
    <3>4. a[N - (j + 1)] \in Nat /\ a[N - j] \in Nat /\ a[N] \in Nat
      BY <1>8, <3>1
    <3>5. PICK x, y, z \in Nat : x = a[N - (j + 1)] /\ y = a[N - j] /\ z = a[N] /\ x <= y /\ y <= z
      BY <3>1, <3>3, <3>4
    <3> QED
      BY <3>5
  <2>3. P = Nat
    <3>1. P \in SUBSET Nat
      OBVIOUS
    <3> HIDE DEF P
    <3> QED
      BY <2>1, <2>2, <3>1, Inductive
  <2> SUFFICES ASSUME NEW k \in 0..N PROVE a[k] <= a[N]
    OBVIOUS
  <2>4. N - k \in Nat /\ N - k <= N /\ N - (N - k) = k
    BY <1>1
  <2>5. N - k \in P
    <3> HIDE DEF P
    <3> QED
      BY <2>3, <2>4
  <2>6. a[N - (N - k)] <= a[N]
    BY <2>4, <2>5
  <2> QED
    BY <2>4, <2>6
<1> QED
  <2>1. /\ a[0] = 1
        /\ \A k \in 1..N : a[k] = a[k - 1] + Cost(rows[i], LayoutOf(rows, i)[k])
        /\ \A k \in 0..N : a[k] <= Footprint(rows[i])
        /\ Footprint(rows[i]) = a[N]
    BY <1>7, <1>10, <1>11 DEF base, Turn
  <2> QED
    BY <1>9, <2>1 DEF N

\* The reader is after k columns of the i-th row, or it refuses the row for a reason.
RowSoFar(rows, i, k, cost, d) ==
  /\ d.stop = "no" /\ d.at = skiffPos + (2 + Len(ColumnsTo(rows, i, k))) /\ d.at <= Len(skiffInput)
  /\ d.left = MaxRowBytes - cost /\ Len(d.values) = k
  /\ \A j \in 1..k : d.values[j] = ValueOf(rows, i, LayoutOf(rows, i)[j])
RowStopped(rows, i, d) ==
  /\ d.stop \in {"truncated", "read", "rowTooLarge", "blobTooLarge"}
  /\ d.stop = "truncated" => Len(skiffInput) < skiffPos + Len(EncodedRow(rows, i))
  /\ d.stop = "read" => d.at = skiffBad - 1
  /\ d.stop = "rowTooLarge" => Footprint(rows[i]) > MaxRowBytes
  /\ d.stop = "blobTooLarge" => "blob" \in ToSet(LayoutOf(rows, i)) /\ rows[i].data > MaxBlobBytes

\* One more column.
LEMMA ColumnTaken ==
  ASSUME SkiffAssumption, Arrives, Placed, NEW rows \in Seq(InputRow), NEW i \in 1..Len(rows),
         Carries(skiffPos, EncodedRow(rows, i)),
         NEW k \in 0..Len(LayoutOf(rows, i)) - 1, NEW cost \in Nat, NEW d \in Cursors,
         RowSoFar(rows, i, k, cost, d) \/ RowStopped(rows, i, d),
         cost + Cost(rows[i], LayoutOf(rows, i)[k + 1]) <= Footprint(rows[i]), Footprint(rows[i]) \in Nat,
         NEW e, e = DecodeValue(d, LayoutOf(rows, i)[k + 1])
  PROVE  \/ RowSoFar(rows, i, k + 1, cost + Cost(rows[i], LayoutOf(rows, i)[k + 1]), e)
         \/ RowStopped(rows, i, e)
<1> DEFINE layout == LayoutOf(rows, i)
           m == Len(layout)
           bytes == EncodedRow(rows, i)
           at(n) == 2 + Len(ColumnsTo(rows, i, n))
           column == layout[k + 1]
           s == ColumnOf(rows, i, k + 1)
           v == ValueOf(rows, i, column)
           price == Cost(rows[i], column)
<1>0. skiffPos \in Nat /\ Len(skiffInput) \in Nat /\ d.at \in Nat /\ d.left \in Nat /\ MaxRowBytes \in Nat
      /\ d.values \in Seq(SkiffValue)
  BY DEF Placed, Arrives, Cursors, SkiffAssumption
<1>1. layout \in Seq(Columns) /\ m \in Nat /\ k \in Nat /\ k + 1 \in 1..m
  <2>1. rows[i].table \in SkiffTables
    BY ColumnIs
  <2>2. layout \in Seq(Columns) /\ m \in Nat
    BY <2>1, LayoutIs DEF LayoutOf
  <2> QED
    BY <2>2
<1>2. column \in Columns /\ column \in ToSet(layout)
  BY <1>1 DEF ToSet
<1>3. /\ at(k) \in Nat /\ at(k + 1) = at(k) + Len(s) /\ at(k + 1) <= Len(bytes)
      /\ \A j \in 1..Len(s) : bytes[at(k) + j] = s[j]
  BY ColumnsPlaced
<1>4. v \in SkiffValue /\ price \in Nat
  <2> HIDE DEF column
  <2> QED
    BY <1>2, ValueOfIs
<1>5. s = Column(rows, i, column) /\ s \in Seq(Nat) /\ Len(s) \in Nat /\ bytes \in Seq(Nat) /\ Len(bytes) \in Nat
  <2>1. s = Column(rows, i, column)
    BY DEF ColumnOf
  <2>2. Column(rows, i, column) \in Seq(Nat)
    <3> HIDE DEF column
    <3> QED
      BY <1>2, ColumnBytesAre
  <2>3. bytes \in Seq(Nat)
    BY ColumnsPlaced
  <2> QED
    BY <2>1, <2>2, <2>3
<1>6. CASE RowStopped(rows, i, d)
  <2>1. d.stop # "no"
    BY <1>6 DEF RowStopped
  <2>2. e = d
    BY <2>1 DEF DecodeValue, Charge, On
  <2> QED
    BY <1>6, <2>2
<1>7. CASE RowSoFar(rows, i, k, cost, d)
  <2>1. /\ d.stop = "no" /\ d.at = skiffPos + at(k) /\ d.at <= Len(skiffInput)
        /\ d.left = MaxRowBytes - cost /\ Len(d.values) = k
        /\ \A j \in 1..k : d.values[j] = ValueOf(rows, i, layout[j])
    BY <1>7 DEF RowSoFar
  <2> HIDE DEF layout, m, bytes, at, column, s, v, price
  <2>2. Carries(d.at, s)
    <3> SUFFICES ASSUME NEW j \in 1..Len(s), d.at + j <= Len(skiffInput) PROVE skiffInput[d.at + j] = s[j]
      BY DEF Carries
    <3>1. PICK p, a, l, b \in Nat : p = skiffPos /\ a = at(k) /\ l = Len(s) /\ b = Len(bytes) /\ d.at = p + a
                                    /\ a + l <= b
      <4>1. skiffPos \in Nat /\ at(k) \in Nat /\ Len(s) \in Nat /\ Len(bytes) \in Nat
        BY <1>0, <1>3, <1>5
      <4>2. d.at = skiffPos + at(k) /\ at(k) + Len(s) <= Len(bytes)
        BY <1>3, <2>1
      <4> QED
        BY <4>1, <4>2
    <3>2. a + j \in 1..b /\ p + (a + j) = d.at + j
      <4>1. j \in Nat /\ j >= 1 /\ j <= l
        BY <3>1
      <4>2. a + j \in 1..b
        <5>1. a + l <= b
          BY <3>1
        <5> QED
          BY <4>1, <5>1
      <4>3. p + (a + j) = (p + a) + j
        BY <4>1
      <4>4. d.at = p + a
        BY <3>1
      <4> QED
        BY <4>2, <4>3, <4>4
    <3>3. skiffInput[p + (a + j)] = bytes[a + j]
      BY <3>1, <3>2 DEF Carries, bytes
    <3>4. bytes[a + j] = s[j]
      BY <1>3, <3>1
    <3> QED
      BY <3>2, <3>3, <3>4
  <2>3. ReadAs(d, e, Len(s), price, v, TooBig(rows, i, column))
    <3>1. Carries(d.at, Column(rows, i, column))
      BY <1>5, <2>2
    <3>2. ReadAs(d, DecodeValue(d, column), Len(Column(rows, i, column)), Cost(rows[i], column),
                 ValueOf(rows, i, column), TooBig(rows, i, column))
      BY <1>2, <2>1, <3>1, ColumnIsRead
    <3>3. e = DecodeValue(d, column)
      BY DEF column, layout
    <3>4. Len(s) = Len(Column(rows, i, column))
      BY <1>5
    <3> QED
      BY <3>2, <3>3, <3>4, Zenon DEF v, price
  <2>4. CASE e.stop = "no"
    <3>1. e.at = d.at + Len(s) /\ e.at <= Len(skiffInput) /\ e.left = d.left - price /\ e.values = Append(d.values, v)
      BY <2>3, <2>4 DEF ReadAs, Excused
    <3>2. e.at = skiffPos + at(k + 1)
      <4>1. skiffPos \in Nat /\ at(k) \in Nat /\ Len(s) \in Nat
        BY <1>0, <1>3, <1>5, Zenon
      <4>2. (skiffPos + at(k)) + Len(s) = skiffPos + (at(k) + Len(s))
        BY <4>1
      <4>3. e.at = (skiffPos + at(k)) + Len(s)
        BY <2>1, <3>1, Zenon
      <4>4. at(k + 1) = at(k) + Len(s)
        BY <1>3, Zenon
      <4> QED
        BY <4>2, <4>3, <4>4, Zenon
    <3>3. e.left = MaxRowBytes - (cost + price)
      <4>1. MaxRowBytes \in Nat /\ cost \in Nat /\ price \in Nat
        BY <1>0, <1>4, Zenon
      <4>2. (MaxRowBytes - cost) - price = MaxRowBytes - (cost + price)
        BY <4>1
      <4>3. e.left = (MaxRowBytes - cost) - price
        BY <2>1, <3>1, Zenon
      <4> QED
        BY <4>2, <4>3, Zenon
    <3>4. /\ Len(Append(d.values, v)) = Len(d.values) + 1
          /\ Append(d.values, v)[Len(d.values) + 1] = v
          /\ \A j \in 1..Len(d.values) : Append(d.values, v)[j] = d.values[j]
      <4>1. d.values \in Seq(SkiffValue) /\ v \in SkiffValue
        BY <1>0, <1>4, Zenon
      <4>2. \A seq \in Seq(SkiffValue), elt \in SkiffValue :
              /\ Len(Append(seq, elt)) = Len(seq) + 1
              /\ Append(seq, elt)[Len(seq) + 1] = elt
              /\ \A j \in 1..Len(seq) : Append(seq, elt)[j] = seq[j]
        BY AppendProperties
      <4> QED
        BY <4>1, <4>2, Zenon
    <3>5. Len(e.values) = k + 1
      BY <2>1, <3>1, <3>4
    <3>6. ASSUME NEW j \in 1..k + 1 PROVE e.values[j] = ValueOf(rows, i, layout[j])
      <4>1. CASE j = k + 1
        <5>1. e.values[j] = v
          BY <2>1, <3>1, <3>4, <4>1
        <5> QED
          BY <4>1, <5>1 DEF v, column
      <4>2. CASE j # k + 1
        <5>1. j \in 1..k
          BY <1>1, <4>2
        <5> QED
          BY <2>1, <3>1, <3>4, <5>1
      <4> QED
        BY <4>1, <4>2
    <3> QED
      BY <2>4, <3>1, <3>2, <3>3, <3>5, <3>6 DEF RowSoFar, at, price, column, layout
  <2>5. CASE e.stop # "no"
    <3>1. Excused(e, d.at + Len(s), price, d.left, TooBig(rows, i, column))
      BY <2>3, <2>5 DEF ReadAs
    <3>2. d.at + Len(s) <= skiffPos + Len(bytes)
      <4>1. PICK p, a, l, b \in Nat : p = skiffPos /\ a = at(k) /\ l = Len(s) /\ b = Len(bytes)
        BY <1>0, <1>3, <1>5
      <4>2. d.at = p + a /\ a + l <= b
        BY <1>3, <2>1, <4>1
      <4>3. (p + a) + l <= p + b
        BY <4>2
      <4> QED
        BY <4>1, <4>2, <4>3
    <3>3. e.stop = "truncated" => Len(skiffInput) < skiffPos + Len(bytes)
      BY <1>0, <1>5, <3>1, <3>2 DEF Excused
    <3>4. d.left < price => Footprint(rows[i]) > MaxRowBytes
      <4>1. cost + price <= Footprint(rows[i])
        BY DEF price, column, layout
      <4>2. PICK x, y, z, w \in Nat : x = cost /\ y = price /\ z = Footprint(rows[i]) /\ w = MaxRowBytes
        BY <1>0, <1>4
      <4>3. d.left = w - x /\ x + y <= z
        BY <2>1, <4>1, <4>2
      <4> QED
        BY <4>2, <4>3
    <3>5. TooBig(rows, i, column) => "blob" \in ToSet(layout) /\ rows[i].data > MaxBlobBytes
      BY <1>2 DEF TooBig
    <3> QED
      BY <3>1, <3>3, <3>4, <3>5 DEF RowStopped, Excused, layout, bytes
  <2> QED
    BY <2>4, <2>5
<1> QED
  BY <1>6, <1>7

\* What has come of a row that is read where it starts.
RowOutcome(rows, i, d) ==
  /\ d.stop \in {"no", "none", "truncated", "read", "rowTooLarge", "blobTooLarge"}
  /\ d.stop = "no" =>
       /\ d.at = skiffPos + Len(EncodedRow(rows, i)) /\ d.at <= Len(skiffInput)
       /\ skiffInput[skiffPos + 1] = rows[i].table
       /\ Len(d.values) = Len(LayoutOf(rows, i))
       /\ \A j \in DOMAIN LayoutOf(rows, i) : d.values[j] = ValueOf(rows, i, LayoutOf(rows, i)[j])
  /\ d.stop = "none" => skiffPos = Len(skiffInput)
  /\ d.stop = "truncated" => /\ skiffPos < Len(skiffInput)
                             /\ Len(skiffInput) < skiffPos + Len(EncodedRow(rows, i))
  /\ d.stop = "read" => d.at = skiffBad - 1
  /\ d.stop = "rowTooLarge" => Footprint(rows[i]) > MaxRowBytes
  /\ d.stop = "blobTooLarge" => "blob" \in ToSet(LayoutOf(rows, i)) /\ rows[i].data > MaxBlobBytes

\* A row that stands where the reader does is read whole, with the values it
\* was sent with, or the reader stops for a reason that is true.
LEMMA RowIsRead ==
  ASSUME SkiffAssumption, Arrives, Placed, NEW rows \in Seq(InputRow), NEW i \in 1..Len(rows),
         Carries(skiffPos, EncodedRow(rows, i))
  PROVE  DecodedRow \in Cursors /\ RowOutcome(rows, i, DecodedRow)
<1> DEFINE layout == LayoutOf(rows, i)
           m == Len(layout)
           bytes == EncodedRow(rows, i)
           t == rows[i].table
<1>0. skiffPos \in Nat /\ Len(skiffInput) \in Nat /\ MaxRowBytes \in Nat
  BY DEF Placed, Arrives, SkiffAssumption
<1>1. t \in SkiffTables /\ layout \in Seq(Columns) /\ m \in Nat /\ DOMAIN layout = 1..m
  <2>1. t \in SkiffTables
    BY ColumnIs
  <2>2. layout \in Seq(Columns) /\ m \in Nat /\ DOMAIN layout = 1..m
    BY <2>1, LayoutIs DEF LayoutOf
  <2> QED
    BY <2>1, <2>2
<1>2. /\ bytes \in Seq(Nat) /\ Len(bytes) = 2 + Len(ColumnsTo(rows, i, m)) /\ Len(bytes) >= 2
      /\ bytes[1] = t /\ bytes[2] = 0 /\ 2 + Len(ColumnsTo(rows, i, 0)) = 2
  BY ColumnsPlaced
<1>3. PICK g \in [0..m -> Nat] : /\ g[0] = 1
                                 /\ \A k \in 1..m : g[k] = g[k - 1] + Cost(rows[i], layout[k])
                                 /\ \A k \in 0..m : g[k] <= Footprint(rows[i])
                                 /\ Footprint(rows[i]) = g[m]
  BY FootprintIs
<1>4. PICK r : /\ r = RowStart /\ r \in Cursors
               /\ r.stop # "end"
               /\ r.stop = "none" => skiffPos = Len(skiffInput)
               /\ r.stop = "truncated" => skiffPos + 1 <= Len(skiffInput) /\ Len(skiffInput) < skiffPos + 2
               /\ r.stop = "read" => r.at = skiffBad - 1
               /\ r.stop = "rowTooLarge" => MaxRowBytes < 1
               /\ r.stop # "blobTooLarge" /\ r.stop # "invalidTag"
               /\ r.stop = "invalidTable" =>
                    /\ skiffPos + 2 <= Len(skiffInput)
                    /\ skiffInput[skiffPos + 2] # 0 \/ skiffInput[skiffPos + 1] \notin SkiffTables
               /\ r.stop \in {"no", "rowTooLarge"} => skiffPos + 2 <= Len(skiffInput)
               /\ r.stop = "no" => /\ r.at = skiffPos + 2
                                   /\ skiffInput[skiffPos + 1] \in SkiffTables
                                   /\ r.left = MaxRowBytes - 1 /\ r.values = <<>>
  BY StartIs
<1> HIDE DEF layout, m, bytes, t
<1>5. skiffPos + 2 <= Len(skiffInput) => skiffInput[skiffPos + 1] = t /\ skiffInput[skiffPos + 2] = 0
  <2>1. 1 \in 1..Len(bytes) /\ 2 \in 1..Len(bytes) /\ Len(bytes) \in Nat
    BY <1>2
  <2>2. skiffPos + 2 <= Len(skiffInput) => skiffPos + 1 <= Len(skiffInput)
    BY <1>0
  <2> QED
    BY <1>2, <2>1, <2>2 DEF Carries, bytes
<1>6. CASE r.stop # "no"
  <2>1. DecodedRow = r
    BY <1>4, <1>6 DEF DecodedRow, Advance, On
  <2>2. r.stop # "invalidTable"
    BY <1>1, <1>4, <1>5
  <2>3. r.stop \in {"none", "truncated", "read", "rowTooLarge"}
    BY <1>4, <1>6, <2>2 DEF Cursors, Stops
  <2>4. r.stop = "rowTooLarge" => Footprint(rows[i]) > MaxRowBytes
    <3>1. 0 \in 0..m /\ m \in 0..m
      BY <1>1
    <3>2. g[m] \in Nat /\ 1 <= g[m]
      BY <1>3, <3>1
    <3> QED
      BY <1>0, <1>3, <1>4, <3>2
  <2>5. r.stop = "truncated" => skiffPos < Len(skiffInput) /\ Len(skiffInput) < skiffPos + Len(bytes)
    BY <1>0, <1>2, <1>4
  <2>6. RowOutcome(rows, i, r)
    BY <1>4, <1>6, <2>3, <2>4, <2>5 DEF RowOutcome, bytes
  <2> QED
    BY <1>4, <2>1, <2>6
<1>7. CASE r.stop = "no"
  <2>1. skiffInput[skiffPos + 1] = t /\ RowLayout = layout /\ skiffPos + 2 <= Len(skiffInput)
    BY <1>4, <1>5, <1>7 DEF RowLayout, layout, LayoutOf, t
  <2>2. PICK f \in [0..m -> Cursors] : /\ f[0] = r
                                       /\ \A k \in 1..m : f[k] = DecodeValue(f[k - 1], layout[k])
                                       /\ DecodedRow = f[m]
    <3>1. \E f \in [0..Len(RowLayout) -> Cursors] :
           /\ f[0] = RowStart
           /\ \A k \in 1..Len(RowLayout) : f[k] = DecodeValue(f[k - 1], RowLayout[k])
           /\ DecodedRow = f[Len(RowLayout)]
      BY <1>4, <1>7, DecodedIs
    <3> QED
      BY <1>4, <2>1, <3>1 DEF m
  <2> DEFINE P == {k \in Nat : k <= m => RowSoFar(rows, i, k, g[k], f[k]) \/ RowStopped(rows, i, f[k])}
  <2>3. 0 \in P
    <3>1. /\ r.at = skiffPos + (2 + Len(ColumnsTo(rows, i, 0))) /\ r.at <= Len(skiffInput)
          /\ r.left = MaxRowBytes - g[0] /\ Len(r.values) = 0
      BY <1>2, <1>3, <1>4, <1>7, <2>1
    <3>2. RowSoFar(rows, i, 0, g[0], r)
      BY <1>7, <3>1 DEF RowSoFar
    <3> QED
      BY <2>2, <3>2
  <2>4. ASSUME NEW k \in P PROVE k + 1 \in P
    <3> SUFFICES ASSUME k + 1 <= m PROVE RowSoFar(rows, i, k + 1, g[k + 1], f[k + 1]) \/ RowStopped(rows, i, f[k + 1])
      OBVIOUS
    <3>1. k \in Nat /\ k \in 0..m - 1 /\ k \in 0..m /\ k + 1 \in 1..m /\ k + 1 \in 0..m /\ (k + 1) - 1 = k
          /\ (RowSoFar(rows, i, k, g[k], f[k]) \/ RowStopped(rows, i, f[k]))
      BY <1>1
    <3> HIDE DEF P
    <3>2. PICK d \in Cursors, e \in Cursors : d = f[k] /\ e = f[k + 1] /\ e = DecodeValue(d, layout[k + 1])
      BY <2>2, <3>1
    <3>3. PICK a, b \in Nat : a = g[k] /\ b = g[k + 1] /\ b = a + Cost(rows[i], layout[k + 1]) /\ b <= Footprint(rows[i])
                              /\ Footprint(rows[i]) \in Nat
      <4>1. g[k] \in Nat /\ g[k + 1] \in Nat /\ g[m] \in Nat
        BY <1>1, <3>1
      <4>2. g[k + 1] = g[k] + Cost(rows[i], layout[k + 1])
        BY <1>3, <3>1
      <4>3. g[k + 1] <= Footprint(rows[i]) /\ Footprint(rows[i]) = g[m]
        BY <1>3, <3>1
      <4> QED
        BY <4>1, <4>2, <4>3
    <3>4. RowSoFar(rows, i, k, a, d) \/ RowStopped(rows, i, d)
      BY <3>1, <3>2, <3>3
    <3>5. /\ k \in 0..Len(LayoutOf(rows, i)) - 1
          /\ a + Cost(rows[i], LayoutOf(rows, i)[k + 1]) <= Footprint(rows[i])
          /\ e = DecodeValue(d, LayoutOf(rows, i)[k + 1])
      BY <3>1, <3>2, <3>3 DEF m, layout
    <3>6. RowSoFar(rows, i, k + 1, a + Cost(rows[i], LayoutOf(rows, i)[k + 1]), e) \/ RowStopped(rows, i, e)
      BY <3>3, <3>4, <3>5, ColumnTaken
    <3>7. RowSoFar(rows, i, k + 1, b, e) \/ RowStopped(rows, i, e)
      BY <3>3, <3>6 DEF layout
    <3> QED
      BY <3>2, <3>3, <3>7
  <2>5. P = Nat
    <3>1. P \in SUBSET Nat
      OBVIOUS
    <3> HIDE DEF P
    <3> QED
      BY <2>3, <2>4, <3>1, Inductive
  <2>6. m \in P
    <3> HIDE DEF P
    <3> QED
      BY <1>1, <2>5
  <2>7. RowSoFar(rows, i, m, g[m], f[m]) \/ RowStopped(rows, i, f[m])
    BY <1>1, <2>6
  <2>8. PICK d \in Cursors : d = f[m]
    BY <1>1, <2>2
  <2>9. CASE RowSoFar(rows, i, m, g[m], d)
    <3>1. /\ d.stop = "no" /\ d.at = skiffPos + Len(bytes) /\ d.at <= Len(skiffInput)
          /\ Len(d.values) = m /\ \A j \in 1..m : d.values[j] = ValueOf(rows, i, layout[j])
      BY <1>2, <2>9 DEF RowSoFar, layout
    <3>2. RowOutcome(rows, i, d)
      BY <1>1, <2>1, <3>1 DEF RowOutcome, bytes, layout, m, t
    <3> QED
      BY <2>2, <2>8, <3>2
  <2>10. CASE RowStopped(rows, i, d)
    <3>1. skiffPos < Len(skiffInput)
      BY <1>0, <2>1
    <3>2. RowOutcome(rows, i, d)
      BY <2>10, <3>1 DEF RowOutcome, RowStopped
    <3> QED
      BY <2>2, <2>8, <3>2
  <2> QED
    BY <2>7, <2>8, <2>9, <2>10
<1> QED
  BY <1>6, <1>7

\* Where no row is left there is an end, or a read that fails.
LEMMA NoRowIsRead ==
  ASSUME SkiffAssumption, Arrives, skiffPos \in Nat, skiffPos = Len(skiffInput)
  PROVE  /\ DecodedRow \in Cursors /\ DecodedRow.stop \in {"none", "read"}
         /\ DecodedRow.stop = "read" => DecodedRow.at = skiffBad - 1
<1>0. Placed /\ Len(skiffInput) \in Nat
  BY DEF Placed
<1>1. PICK r : /\ r = RowStart /\ r \in Cursors
               /\ r.stop # "end"
               /\ r.stop = "truncated" => skiffPos + 1 <= Len(skiffInput) /\ Len(skiffInput) < skiffPos + 2
               /\ r.stop = "read" => r.at = skiffBad - 1
               /\ r.stop # "blobTooLarge" /\ r.stop # "invalidTag"
               /\ r.stop = "invalidTable" => skiffPos + 2 <= Len(skiffInput)
               /\ r.stop \in {"no", "rowTooLarge"} => skiffPos + 2 <= Len(skiffInput)
  BY <1>0, StartIs
<1>2. ~(skiffPos + 1 <= Len(skiffInput)) /\ ~(skiffPos + 2 <= Len(skiffInput))
  BY <1>0
<1>3. r.stop \in {"none", "read"}
  BY <1>1, <1>2 DEF Cursors, Stops
<1>4. DecodedRow = r
  BY <1>1, <1>3 DEF DecodedRow, Advance, On
<1> QED
  BY <1>1, <1>3, <1>4

(***************************************************************************)
(* The reader of a job.                                                    *)
(***************************************************************************)
\* What arrives of the stream.
InputArrived == \E q \in 0..Len(Encoded(skiffRows)) : skiffInput = SubSeq(Encoded(skiffRows), 1, q)

\* What has arrived is numbers, the same as were sent.
LEMMA ArrivedIs ==
  ASSUME SkiffAssumption, skiffRows \in Seq(InputRow), InputArrived
  PROVE  /\ Encoded(skiffRows) \in Seq(Nat) /\ skiffInput \in Seq(Nat)
         /\ Len(skiffInput) <= Len(Encoded(skiffRows))
         /\ skiffInput = SubSeq(Encoded(skiffRows), 1, Len(skiffInput))
         /\ \A j \in 1..Len(skiffInput) : skiffInput[j] = Encoded(skiffRows)[j]
<1>1. PICK all : all = Encoded(skiffRows) /\ all \in Seq(Nat)
  <2>1. Encoded(skiffRows) = StreamTo(skiffRows, Len(skiffRows)) /\ Len(skiffRows) \in Nat
        /\ \A n \in 0..Len(skiffRows) : StreamTo(skiffRows, n) \in Seq(Nat)
    BY StreamGrows
  <2>2. Len(skiffRows) \in 0..Len(skiffRows)
    BY <2>1
  <2> QED
    BY <2>1, <2>2
<1>2. PICK q \in 0..Len(all) : skiffInput = SubSeq(all, 1, q)
  BY <1>1 DEF InputArrived
<1>3. q \in Nat /\ q <= Len(all) /\ \A j \in 1..q : all[j] \in Nat
  BY <1>1, <1>2
<1>4. SubSeq(all, 1, q) \in Seq(Nat) /\ Len(SubSeq(all, 1, q)) = q /\ \A j \in 1..q : SubSeq(all, 1, q)[j] = all[j]
  BY <1>1, <1>3, SubSeqProperties
<1> QED
  BY <1>1, <1>2, <1>3, <1>4

\* What is next in the stream is the next row.
LEMMA NextRowCarried ==
  ASSUME SkiffAssumption, skiffRows \in Seq(InputRow), InputArrived, NEW k \in 0..Len(skiffRows) - 1
  PROVE  Carries(RowEnd(skiffRows, k), EncodedRow(skiffRows, k + 1))
<1> DEFINE m == Len(skiffRows)
<1>1. k \in 0..m /\ k + 1 \in 1..m /\ k + 1 \in 0..m /\ m \in Nat
  OBVIOUS
<1>2. PICK all : all = Encoded(skiffRows) /\ all \in Seq(Nat)
  BY ArrivedIs
<1>3. PICK a, b, t \in Seq(Nat) : /\ a = StreamTo(skiffRows, k) /\ b = EncodedRow(skiffRows, k + 1)
                                  /\ a \in Seq(Nat) /\ b \in Seq(Nat)
                                  /\ all = (a \o b) \o t
  <2>1. StreamTo(skiffRows, k) \in Seq(Nat) /\ EncodedRow(skiffRows, k + 1) \in Seq(Nat)
    BY <1>1, StreamGrows, ColumnsPlaced
  <2>2. \E t \in Seq(Nat) : StreamTo(skiffRows, m) = StreamTo(skiffRows, k + 1) \o t
    BY StreamGrows
  <2>3. Encoded(skiffRows) = StreamTo(skiffRows, m)
    BY StreamGrows
  <2>4. StreamTo(skiffRows, k + 1) = StreamTo(skiffRows, k) \o EncodedRow(skiffRows, k + 1)
    BY StreamGrows
  <2> QED
    BY <1>2, <2>1, <2>2, <2>3, <2>4
<1>4. /\ a \o b \in Seq(Nat) /\ Len(a) \in Nat /\ Len(b) \in Nat /\ Len(a \o b) = Len(a) + Len(b)
      /\ \A i \in 1..Len(b) : (a \o b)[Len(a) + i] = b[i]
  BY <1>3, TwoParts
<1>5. PICK c : c = a \o b /\ c \in Seq(Nat) /\ Len(c) = Len(a) + Len(b) /\ \A i \in 1..Len(b) : c[Len(a) + i] = b[i]
  BY <1>4
<1>6. \A i \in 1..Len(c) : (c \o t)[i] = c[i]
  BY <1>5, TwoParts
<1>7. all = c \o t
  BY <1>3, <1>5
<1>8. Len(skiffInput) \in Nat /\ \A j \in 1..Len(skiffInput) : skiffInput[j] = all[j]
  BY <1>2, ArrivedIs
<1>9. RowEnd(skiffRows, k) = Len(a)
  BY <1>3 DEF RowEnd
<1>10. ASSUME NEW j \in 1..Len(b), Len(a) + j <= Len(skiffInput) PROVE skiffInput[Len(a) + j] = b[j]
  <2>1. Len(a) + j \in 1..Len(c) /\ Len(a) + j \in 1..Len(skiffInput)
    BY <1>4, <1>5, <1>8, <1>10
  <2> QED
    BY <1>5, <1>6, <1>7, <1>8, <2>1
<1> QED
  BY <1>3, <1>9, <1>10 DEF Carries

\* The rows that arrived whole, where the stream ends.
LEMMA RowsArrivedAre ==
  ASSUME SkiffAssumption, skiffRows \in Seq(InputRow), InputArrived, NEW k \in 0..Len(skiffRows)
  PROVE  /\ RowEnd(skiffRows, k) = Len(skiffInput) => RowsThatArrived = {k}
         /\ k < Len(skiffRows) /\ RowEnd(skiffRows, k) < Len(skiffInput) /\ Len(skiffInput) < RowEnd(skiffRows, k + 1)
              => RowsThatArrived = {}
<1> DEFINE m == Len(skiffRows)
           End(n) == RowEnd(skiffRows, n)
<1>1. m \in Nat /\ k \in Nat /\ Len(skiffInput) \in Nat
  <2>1. skiffInput \in Seq(Nat)
    BY ArrivedIs
  <2> QED
    BY <2>1
<1>2. /\ \A n \in 0..m : End(n) \in Nat
      /\ \A n \in 0..m : \A j \in n..m : End(n) <= End(j) /\ (n < j => End(n) < End(j))
  BY RowEndsGrow
<1>3. \A n \in 0..m : Encoded(SubSeq(skiffRows, 1, n)) = StreamTo(skiffRows, n)
  BY EncodedPart
<1>4. \A n \in RowsThatArrived : n \in 0..m /\ End(n) = Len(skiffInput)
  BY <1>3 DEF RowsThatArrived, RowEnd
<1>5. ASSUME End(k) = Len(skiffInput) PROVE k \in RowsThatArrived
  <2>1. PICK all : /\ all = Encoded(skiffRows) /\ all \in Seq(Nat)
                   /\ skiffInput = SubSeq(all, 1, Len(skiffInput))
    BY ArrivedIs
  <2>2. PICK a, t \in Seq(Nat) : a = StreamTo(skiffRows, k) /\ a \in Seq(Nat) /\ all = a \o t
    <3>1. m \in k..m
      BY <1>1
    <3>2. \E t \in Seq(Nat) : StreamTo(skiffRows, m) = StreamTo(skiffRows, k) \o t
      BY <3>1, StreamGrows
    <3>3. StreamTo(skiffRows, k) \in Seq(Nat) /\ Encoded(skiffRows) = StreamTo(skiffRows, m)
      BY StreamGrows
    <3> QED
      BY <2>1, <3>2, <3>3
  <2>3. SubSeq(all, 1, Len(a)) = a
    <3>1. IsPrefix(a, a \o t)
      BY <2>2, PrefixOfConcat
    <3>2. SubSeq(a, 1, Len(a)) = SubSeq(a \o t, 1, Len(a))
      BY <3>1 DEF IsPrefix
    <3>3. SubSeq(a, 1, Len(a)) = a
      BY <2>2, SubSeqFull
    <3> QED
      BY <2>2, <3>2, <3>3
  <2>4. Len(a) = Len(skiffInput)
    BY <1>5, <2>2 DEF RowEnd
  <2>5. skiffInput = StreamTo(skiffRows, k)
    BY <2>1, <2>2, <2>3, <2>4
  <2> QED
    BY <1>3, <2>5 DEF RowsThatArrived
<1> HIDE DEF m, End
<1>6. ASSUME End(k) = Len(skiffInput), NEW n \in RowsThatArrived PROVE n = k
  <2>1. n \in 0..m /\ End(n) = End(k)
    BY <1>4, <1>6
  <2>2. End(n) \in Nat /\ k \in 0..m
    BY <1>2, <2>1 DEF m
  <2>3. ~(n < k)
    <3> SUFFICES ASSUME n < k PROVE FALSE
      OBVIOUS
    <3>1. k \in n..m
      BY <1>1, <2>1, <2>2
    <3> QED
      BY <1>2, <2>1, <2>2, <3>1
  <2>4. ~(k < n)
    <3> SUFFICES ASSUME k < n PROVE FALSE
      OBVIOUS
    <3>1. n \in k..m
      BY <1>1, <2>1, <2>2
    <3> QED
      BY <1>2, <2>1, <2>2, <3>1
  <2> QED
    BY <1>1, <2>1, <2>3, <2>4
<1>7. ASSUME k < m, End(k) < Len(skiffInput), Len(skiffInput) < End(k + 1), NEW n \in RowsThatArrived PROVE FALSE
  <2>1. n \in 0..m /\ End(n) = Len(skiffInput) /\ k \in 0..m /\ k + 1 \in 0..m
    BY <1>1, <1>4, <1>7 DEF m
  <2>2. End(n) \in Nat /\ End(k) \in Nat /\ End(k + 1) \in Nat
    BY <1>2, <2>1
  <2>3. CASE n <= k
    <3>1. k \in n..m
      BY <1>1, <2>1, <2>3
    <3>2. End(n) <= End(k)
      BY <1>2, <2>1, <3>1
    <3> QED
      BY <1>1, <1>7, <2>1, <2>2, <3>2
  <2>4. CASE k + 1 <= n
    <3>1. n \in k + 1..m
      BY <1>1, <2>1, <2>4
    <3>2. End(k + 1) <= End(n)
      BY <1>2, <2>1, <3>1
    <3> QED
      BY <1>1, <1>7, <2>1, <2>2, <3>2
  <2> QED
    BY <1>1, <2>1, <2>3, <2>4
<1>8. End(k) = Len(skiffInput) => RowsThatArrived = {k}
  BY <1>5, <1>6
<1>9. k < m /\ End(k) < Len(skiffInput) /\ Len(skiffInput) < End(k + 1) => RowsThatArrived = {}
  BY <1>7
<1> QED
  BY <1>8, <1>9 DEF End, m

\* The k-th row, or one before it, is the latest of its table.
Latest(t, k, j) == j \in 1..k /\ skiffRows[j].table = t /\ \A l \in j + 1..k : skiffRows[l].table # t
CountTo(t, k) == Cardinality({j \in 1..k : skiffRows[j].table = t})
RowShould(i) ==
  LET t == skiffRows[i].table
  IN  IF Place(t, "row") > 0 THEN skiffRows[i].row ELSE IF IsPlain(t) THEN CountTo(t, i) ELSE 0
RangeShould(i) == IF Place(skiffRows[i].table, "range") > 0 THEN skiffRows[i].range ELSE 0

\* The reader knows the indexes of the latest row of each table, or its count.
KnowsOf(t, k) ==
  /\ Place(t, "row") > 0 => \A j \in 1..k : Latest(t, k, j) => controlState[t].row = skiffRows[j].row
  /\ ~(Place(t, "row") > 0) => controlState[t].row = (IF IsPlain(t) THEN CountTo(t, k) ELSE 0)
  /\ Place(t, "range") > 0 => \A j \in 1..k : Latest(t, k, j) => controlState[t].range = skiffRows[j].range
  /\ ~(Place(t, "range") > 0) => controlState[t].range = 0
Knows(k) == \A t \in SkiffTables : KnowsOf(t, k)
IndexState == controlState \in [SkiffTables -> [row : Nat, range : Nat]]

\* Where a column of a layout is.
LEMMA PlaceIs ==
  ASSUME SkiffAssumption, NEW t \in SkiffTables, NEW column
  PROVE  /\ Place(t, column) \in 0..Len(Layout(t))
         /\ Place(t, column) > 0 => Place(t, column) \in DOMAIN Layout(t) /\ Layout(t)[Place(t, column)] = column
         /\ ~(Place(t, column) > 0) => Place(t, column) = 0
<1>1. Layout(t) \in Seq(Columns) /\ Len(Layout(t)) \in Nat /\ DOMAIN Layout(t) = 1..Len(Layout(t))
  BY LayoutIs
<1>2. CASE column \in ToSet(Layout(t))
  <2>1. \E i \in DOMAIN Layout(t) : Layout(t)[i] = column
    BY <1>2 DEF ToSet
  <2>2. Place(t, column) \in DOMAIN Layout(t) /\ Layout(t)[Place(t, column)] = column
    BY <1>2, <2>1 DEF Place
  <2> QED
    BY <1>1, <2>2
<1>3. CASE column \notin ToSet(Layout(t))
  BY <1>1, <1>3 DEF Place
<1> QED
  BY <1>2, <1>3

\* The rows of a table are counted one by one.
LEMMA CountsOne ==
  ASSUME skiffRows \in Seq(InputRow), NEW k \in Nat, NEW t
  PROVE  /\ CountTo(t, 0) = 0 /\ CountTo(t, k) \in Nat
         /\ CountTo(t, k + 1) = IF skiffRows[k + 1].table = t THEN CountTo(t, k) + 1 ELSE CountTo(t, k)
<1> DEFINE Those(n) == {j \in 1..n : skiffRows[j].table = t}
<1>1. Those(0) = {}
  OBVIOUS
<1>2. CountTo(t, 0) = 0
  BY <1>1, FS_EmptySet DEF CountTo
<1>3. IsFiniteSet(Those(k)) /\ CountTo(t, k) \in Nat
  <2>1. IsFiniteSet(1..k)
    BY FS_Interval
  <2>2. Those(k) \subseteq 1..k
    OBVIOUS
  <2>3. IsFiniteSet(Those(k))
    BY <2>1, <2>2, FS_Subset
  <2>4. Cardinality(Those(k)) \in Nat
    BY <2>3, FS_CardinalityType
  <2> QED
    BY <2>3, <2>4 DEF CountTo
<1>4. CASE skiffRows[k + 1].table = t
  <2>1. Those(k + 1) = Those(k) \cup {k + 1} /\ k + 1 \notin Those(k)
    BY <1>4
  <2>2. Cardinality(Those(k) \cup {k + 1}) = Cardinality(Those(k)) + 1
    <3> HIDE DEF Those
    <3> QED
      BY <1>3, <2>1, FS_AddElement
  <2> QED
    BY <1>2, <1>3, <1>4, <2>1, <2>2 DEF CountTo
<1>5. CASE skiffRows[k + 1].table # t
  <2>1. Those(k + 1) = Those(k)
    BY <1>5
  <2> QED
    BY <1>2, <1>3, <1>5, <2>1 DEF CountTo
<1> QED
  BY <1>4, <1>5

\* What is made of the indexes of a row.
LEMMA IndexesAreTrue ==
  ASSUME SkiffAssumption, skiffRows \in Seq(InputRow), IndexState, NEW i \in 1..Len(skiffRows), Knows(i - 1),
         NEW values, \A j \in DOMAIN LayoutOf(skiffRows, i) :
                       values[j] = ValueOf(skiffRows, i, LayoutOf(skiffRows, i)[j])
  PROVE  LET t == skiffRows[i].table
         IN  /\ RowIndex(t, values) = RowShould(i) /\ RowShould(i) \in Nat
             /\ RangeIndex(t, values) = RangeShould(i) /\ RangeShould(i) \in Nat
<1> DEFINE t == skiffRows[i].table
           r == Place(t, "row")
           g == Place(t, "range")
           o == controlState[t]
<1>0. t \in SkiffTables /\ skiffRows[i].row \in Nat /\ skiffRows[i].range \in Nat /\ i \in Nat /\ i - 1 \in Nat
      /\ i \in 1..Len(skiffRows) /\ (i - 1) + 1 = i
  <2>1. t \in SkiffTables /\ skiffRows[i].row \in Nat /\ skiffRows[i].range \in Nat
    BY ColumnIs
  <2>2. Len(skiffRows) \in Nat
    OBVIOUS
  <2> HIDE DEF t
  <2> QED
    BY <2>1, <2>2
<1>1. KnowsOf(t, i - 1) /\ o.row \in Nat /\ o.range \in Nat
  BY <1>0 DEF Knows, IndexState
<1>2. /\ r \in Nat
      /\ r > 0 => r \in DOMAIN Layout(t) /\ Layout(t)[r] = "row"
      /\ ~(r > 0) => r = 0
  BY <1>0, PlaceIs, LayoutIs
<1>3. /\ g \in Nat
      /\ g > 0 => g \in DOMAIN Layout(t) /\ Layout(t)[g] = "range"
      /\ ~(g > 0) => g = 0
  BY <1>0, PlaceIs, LayoutIs
<1>4. r > 0 => values[r] = RowSent(skiffRows, i)
  <2>1. r > 0 => values[r] = ValueOf(skiffRows, i, "row")
    BY <1>2 DEF LayoutOf
  <2>2. ValueOf(skiffRows, i, "row") = RowSent(skiffRows, i)
    BY ValueOfIs DEF Columns, System
  <2> QED
    BY <2>1, <2>2
<1>5. g > 0 => values[g] = RangeSent(skiffRows, i)
  <2>1. g > 0 => values[g] = ValueOf(skiffRows, i, "range")
    BY <1>3 DEF LayoutOf
  <2>2. ValueOf(skiffRows, i, "range") = RangeSent(skiffRows, i)
    BY ValueOfIs DEF Columns, System
  <2> QED
    BY <2>1, <2>2
<1>6. ASSUME NEW j \in Before(skiffRows, i) PROVE j \in 1..i - 1 /\ Latest(t, i - 1, j)
  BY DEF Before, Latest
<1>7. RowIndex(t, values) = RowShould(i) /\ RowShould(i) \in Nat
  <2>1. CASE r > 0
    <3>1. RowShould(i) = skiffRows[i].row
      BY <2>1 DEF RowShould
    <3>2. RowIndex(t, values) = IF values[r] = NoValue THEN o.row + 1 ELSE values[r]
      BY <2>1 DEF RowIndex
    <3>3. CASE \E j \in Before(skiffRows, i) : skiffRows[i].row = skiffRows[j].row + 1
      <4>1. PICK j \in Before(skiffRows, i) : skiffRows[i].row = skiffRows[j].row + 1
        BY <3>3
      <4>2. values[r] = NoValue
        BY <1>4, <2>1, <3>3 DEF RowSent
      <4>3. o.row = skiffRows[j].row
        BY <1>1, <1>6, <2>1 DEF KnowsOf
      <4> QED
        BY <1>0, <3>1, <3>2, <4>1, <4>2, <4>3
    <3>4. CASE ~(\E j \in Before(skiffRows, i) : skiffRows[i].row = skiffRows[j].row + 1)
      <4>1. values[r] = skiffRows[i].row
        BY <1>4, <2>1, <3>4 DEF RowSent
      <4>2. values[r] # NoValue
        BY <1>0, <4>1 DEF SkiffAssumption
      <4> QED
        BY <1>0, <3>1, <3>2, <4>1, <4>2
    <3> QED
      BY <3>3, <3>4
  <2>2. CASE ~(r > 0) /\ IsPlain(t)
    <3>1. RowShould(i) = CountTo(t, i)
      BY <2>2 DEF RowShould
    <3>2. RowIndex(t, values) = o.row + 1
      BY <1>2, <2>2 DEF RowIndex
    <3>3. o.row = CountTo(t, i - 1)
      BY <1>1, <2>2 DEF KnowsOf
    <3>4. CountTo(t, (i - 1) + 1) = IF skiffRows[(i - 1) + 1].table = t THEN CountTo(t, i - 1) + 1
                                    ELSE CountTo(t, i - 1)
      <4> HIDE DEF t
      <4> QED
        BY <1>0, CountsOne
    <3>5. CountTo(t, i) = CountTo(t, i - 1) + 1
      BY <1>0, <3>4
    <3> QED
      BY <1>1, <3>1, <3>2, <3>3, <3>5
  <2>3. CASE ~(r > 0) /\ ~IsPlain(t)
    <3>1. RowShould(i) = 0
      BY <2>3 DEF RowShould
    <3>2. RowIndex(t, values) = o.row
      BY <1>2, <2>3 DEF RowIndex
    <3>3. o.row = 0
      BY <1>1, <2>3 DEF KnowsOf
    <3> QED
      BY <3>1, <3>2, <3>3
  <2> QED
    BY <2>1, <2>2, <2>3
<1>8. RangeIndex(t, values) = RangeShould(i) /\ RangeShould(i) \in Nat
  <2>1. CASE g > 0
    <3>1. RangeShould(i) = skiffRows[i].range
      BY <2>1 DEF RangeShould
    <3>2. RangeIndex(t, values) = IF values[g] # NoValue THEN values[g] ELSE o.range
      BY <2>1 DEF RangeIndex
    <3>3. CASE \E j \in Before(skiffRows, i) : skiffRows[i].range = skiffRows[j].range
      <4>1. PICK j \in Before(skiffRows, i) : skiffRows[i].range = skiffRows[j].range
        BY <3>3
      <4>2. values[g] = NoValue
        BY <1>5, <2>1, <3>3 DEF RangeSent
      <4>3. o.range = skiffRows[j].range
        BY <1>1, <1>6, <2>1 DEF KnowsOf
      <4> QED
        BY <1>0, <3>1, <3>2, <4>1, <4>2, <4>3
    <3>4. CASE ~(\E j \in Before(skiffRows, i) : skiffRows[i].range = skiffRows[j].range)
      <4>1. values[g] = skiffRows[i].range
        BY <1>5, <2>1, <3>4 DEF RangeSent
      <4>2. values[g] # NoValue
        BY <1>0, <4>1 DEF SkiffAssumption
      <4> QED
        BY <1>0, <3>1, <3>2, <4>1, <4>2
    <3> QED
      BY <3>3, <3>4
  <2>2. CASE ~(g > 0)
    <3>1. RangeShould(i) = 0
      BY <2>2 DEF RangeShould
    <3>2. RangeIndex(t, values) = o.range
      BY <1>3, <2>2 DEF RangeIndex
    <3>3. o.range = 0
      BY <1>1, <2>2 DEF KnowsOf
    <3> QED
      BY <3>1, <3>2, <3>3
  <2> QED
    BY <2>1, <2>2
<1> QED
  BY <1>7, <1>8

\* A row comes out as it should.
LEMMA RowIsTrue ==
  ASSUME SkiffAssumption, skiffRows \in Seq(InputRow), IndexState, NEW i \in 1..Len(skiffRows), Knows(i - 1),
         NEW values, \A j \in DOMAIN LayoutOf(skiffRows, i) :
                       values[j] = ValueOf(skiffRows, i, LayoutOf(skiffRows, i)[j])
  PROVE  LET t == skiffRows[i].table
         IN  TrueRow(i) = [table |-> t,
                           row   |-> RowIndex(t, values),
                           range |-> RangeIndex(t, values),
                           key   |-> Place(t, "key") > 0 /\ values[Place(t, "key")],
                           data  |-> [j \in DataColumns(t) |-> values[j]]]
<1> DEFINE t == skiffRows[i].table
           key == Place(t, "key") > 0 /\ values[Place(t, "key")]
           data == [j \in DataColumns(t) |-> values[j]]
<1>1. RowIndex(t, values) = RowShould(i) /\ RangeIndex(t, values) = RangeShould(i)
  BY IndexesAreTrue
<1>2. t \in SkiffTables
  BY ColumnIs
<1>3. key = (Place(t, "key") > 0 /\ skiffRows[i].key)
  <2>1. CASE Place(t, "key") > 0
    <3>1. Place(t, "key") \in DOMAIN Layout(t) /\ Layout(t)[Place(t, "key")] = "key"
      BY <1>2, <2>1, PlaceIs
    <3>2. values[Place(t, "key")] = ValueOf(skiffRows, i, "key")
      BY <3>1 DEF LayoutOf
    <3>3. ValueOf(skiffRows, i, "key") = skiffRows[i].key
      BY ValueOfIs DEF Columns, System
    <3>4. values[Place(t, "key")] = skiffRows[i].key
      BY <3>2, <3>3
    <3> QED
      BY <3>4
  <2>2. CASE ~(Place(t, "key") > 0)
    BY <2>2
  <2> QED
    BY <2>1, <2>2
<1>4. data = [j \in DataColumns(t) |-> skiffRows[i].data]
  <2>1. ASSUME NEW j \in DataColumns(t) PROVE values[j] = skiffRows[i].data
    <3>1. j \in DOMAIN Layout(t) /\ Layout(t)[j] \notin System
      BY <2>1 DEF DataColumns
    <3>2. Layout(t)[j] \in {"blob", "items"}
      BY <1>2, <3>1, LayoutIs DEF Columns
    <3>3. values[j] = ValueOf(skiffRows, i, Layout(t)[j])
      BY <3>1 DEF LayoutOf
    <3>4. ValueOf(skiffRows, i, Layout(t)[j]) = skiffRows[i].data
      <4>1. PICK column \in Columns : column = Layout(t)[j] /\ column \in {"blob", "items"}
        BY <3>2 DEF Columns
      <4> QED
        BY <4>1, ValueOfIs
    <3> QED
      BY <3>3, <3>4
  <2> QED
    BY <2>1
<1>5. TrueRow(i) = [table |-> t, row |-> RowShould(i), range |-> RangeShould(i),
                    key |-> Place(t, "key") > 0 /\ skiffRows[i].key,
                    data |-> [j \in DataColumns(t) |-> skiffRows[i].data]]
  BY DEF TrueRow, RowShould, RangeShould, CountTo
<1> HIDE DEF key, data
<1>6. TrueRow(i) = [table |-> t, row |-> RowIndex(t, values), range |-> RangeIndex(t, values), key |-> key, data |-> data]
  BY <1>1, <1>3, <1>4, <1>5
<1> QED
  BY <1>6 DEF key, data

\* What the reader keeps of its tables follows.
KnowsIx(t, k, row, range) ==
  /\ Place(t, "row") > 0 => \A j \in 1..k : Latest(t, k, j) => row = skiffRows[j].row
  /\ ~(Place(t, "row") > 0) => row = (IF IsPlain(t) THEN CountTo(t, k) ELSE 0)
  /\ Place(t, "range") > 0 => \A j \in 1..k : Latest(t, k, j) => range = skiffRows[j].range
  /\ ~(Place(t, "range") > 0) => range = 0

\* Once it has taken the numbers of the i-th row, the reader knows them.
LEMMA KnowsNext ==
  ASSUME SkiffAssumption, skiffRows \in Seq(InputRow), IndexState, NEW i \in 1..Len(skiffRows), Knows(i - 1),
         NEW row, row = RowShould(i), NEW range, range = RangeShould(i), row \in Nat, range \in Nat,
         skiffRows' = skiffRows,
         controlState' = [controlState EXCEPT ![skiffRows[i].table] = [row |-> row, range |-> range]]
  PROVE  Knows(i)' /\ IndexState'
<1> DEFINE t == skiffRows[i].table
<1>0. t \in SkiffTables /\ i \in Nat /\ i - 1 \in Nat /\ (i - 1) + 1 = i
  <2>1. t \in SkiffTables
    BY ColumnIs
  <2>2. Len(skiffRows) \in Nat
    OBVIOUS
  <2> HIDE DEF t
  <2> QED
    BY <2>1, <2>2
<1>1. KnowsIx(t, i, row, range)
  <2>1. ASSUME NEW j \in 1..i, Latest(t, i, j) PROVE j = i
    <3> SUFFICES ASSUME j # i PROVE FALSE
      OBVIOUS
    <3>1. i \in j + 1..i
      BY <1>0
    <3> QED
      BY <2>1, <3>1 DEF Latest
  <2>2. Place(t, "row") > 0 => row = skiffRows[i].row
    BY DEF RowShould
  <2>3. ~(Place(t, "row") > 0) => row = (IF IsPlain(t) THEN CountTo(t, i) ELSE 0)
    BY DEF RowShould
  <2>4. Place(t, "range") > 0 => range = skiffRows[i].range
    BY DEF RangeShould
  <2>5. ~(Place(t, "range") > 0) => range = 0
    BY DEF RangeShould
  <2> QED
    BY <2>1, <2>2, <2>3, <2>4, <2>5 DEF KnowsIx
<1>2. ASSUME NEW u \in SkiffTables, u # t PROVE KnowsIx(u, i, controlState[u].row, controlState[u].range)
  <2>1. KnowsOf(u, i - 1)
    BY DEF Knows
  <2>2. ASSUME NEW j \in 1..i, Latest(u, i, j) PROVE j \in 1..i - 1 /\ Latest(u, i - 1, j)
    <3>1. j # i
      BY <1>2, <2>2 DEF Latest
    <3>2. j \in 1..i - 1 /\ \A l \in j + 1..i - 1 : l \in j + 1..i
      BY <1>0, <3>1
    <3> QED
      BY <2>2, <3>2 DEF Latest
  <2>3. CountTo(u, i) = CountTo(u, i - 1)
    <3>1. CountTo(u, (i - 1) + 1) = IF skiffRows[(i - 1) + 1].table = u THEN CountTo(u, i - 1) + 1
                                    ELSE CountTo(u, i - 1)
      BY <1>0, CountsOne
    <3> QED
      BY <1>0, <1>2, <3>1
  <2> QED
    BY <2>1, <2>2, <2>3 DEF KnowsIx, KnowsOf
<1>3. IndexState'
  <2>1. [row |-> row, range |-> range] \in [row : Nat, range : Nat]
    OBVIOUS
  <2> QED
    BY <1>0, <2>1 DEF IndexState
<1>4. controlState'[t] = [row |-> row, range |-> range] /\ \A u \in SkiffTables : u # t => controlState'[u] = controlState[u]
  BY <1>0 DEF IndexState
<1>5. ASSUME NEW u \in SkiffTables PROVE KnowsIx(u, i, controlState'[u].row, controlState'[u].range)
  <2>1. CASE u = t
    BY <1>1, <1>4, <2>1
  <2>2. CASE u # t
    BY <1>2, <1>4, <2>2
  <2> QED
    BY <2>1, <2>2
<1>6. \A u \in SkiffTables : KnowsOf(u, i)'
  <2> SUFFICES ASSUME NEW u \in SkiffTables PROVE KnowsOf(u, i)'
    OBVIOUS
  <2>1. \A j : Latest(u, i, j)' = Latest(u, i, j)
    BY DEF Latest
  <2>2. CountTo(u, i)' = CountTo(u, i)
    BY DEF CountTo
  <2> QED
    BY <1>5, <2>1, <2>2 DEF KnowsOf, KnowsIx
<1> QED
  BY <1>3, <1>6 DEF Knows

(***************************************************************************)
(* The invariant: before it stops, the reader is where the rows it has     *)
(* returned end, knows what it should of every table, and has returned     *)
(* what it should; when it stops, it has a reason.                         *)
(***************************************************************************)
Returned == Len(skiffOut)
OutTrue ==
  /\ skiffOut \in Seq({TrueRow(i) : i \in 1..Len(skiffRows)})
  /\ Returned <= Len(skiffRows)
  /\ \A i \in 1..Returned : skiffOut[i] = TrueRow(i)
StopTrue ==
  LET next == skiffRows[Len(skiffOut) + 1]
  IN  /\ skiffStop \in {"no", "none", "truncated", "read", "rowTooLarge", "blobTooLarge"}
      /\ skiffStop = "none" => RowsThatArrived = {Len(skiffOut)}
      /\ skiffStop = "truncated" => RowsThatArrived = {}
      /\ skiffStop = "read" => skiffPos = skiffBad - 1
      /\ skiffStop = "rowTooLarge" => Footprint(next) > MaxRowBytes
      /\ skiffStop = "blobTooLarge" => "blob" \in ToSet(Layout(next.table)) /\ next.data > MaxBlobBytes
SkiffIInv ==
  /\ skiffRows \in SkiffStreams /\ InputArrived /\ skiffBad \in Nat
  /\ IndexState /\ Knows(Returned)
  /\ OutTrue
  /\ skiffStop = "no" => skiffPos = RowEnd(skiffRows, Returned) /\ skiffPos <= Len(skiffInput)
  /\ StopTrue

\* The invariant holds where a job starts.
LEMMA SkiffInitially ==
  ASSUME SkiffAssumption, SkiffInit
  PROVE  SkiffIInv
<1>1. skiffRows \in SkiffStreams /\ skiffRows \in Seq(InputRow) /\ InputArrived
  BY DEF SkiffInit, SkiffAssumption, InputArrived
<1>2. skiffInput \in Seq(Nat) /\ Len(skiffInput) \in Nat
  BY <1>1, ArrivedIs
<1>3. skiffBad \in Nat
  BY <1>2 DEF SkiffInit
<1>4. Returned = 0 /\ Len(skiffRows) \in Nat /\ skiffOut = <<>>
  BY <1>1 DEF SkiffInit, Returned
<1>5. OutTrue
  BY <1>4 DEF OutTrue
<1>6. IndexState
  BY DEF SkiffInit, IndexState
<1>7. Knows(0)
  <2> SUFFICES ASSUME NEW t \in SkiffTables PROVE KnowsOf(t, 0)
    BY DEF Knows
  <2>1. controlState[t].row = 0 /\ controlState[t].range = 0
    BY DEF SkiffInit
  <2>2. CountTo(t, 0) = 0
    BY <1>1, CountsOne
  <2> QED
    BY <2>1, <2>2 DEF KnowsOf
<1>8. RowEnd(skiffRows, 0) = 0
  BY <1>1, RowEndsGrow
<1>9. skiffPos = RowEnd(skiffRows, Returned) /\ skiffPos <= Len(skiffInput)
  BY <1>2, <1>4, <1>8 DEF SkiffInit
<1>10. StopTrue
  BY DEF SkiffInit, StopTrue
<1> QED
  BY <1>1, <1>3, <1>4, <1>5, <1>6, <1>7, <1>9, <1>10 DEF SkiffIInv

\* While the reader reads there is a row to read, or nothing.
LEMMA WhereItIs ==
  ASSUME SkiffAssumption, SkiffIInv, skiffStop = "no"
  PROVE  /\ Arrives /\ Placed /\ skiffRows \in Seq(InputRow) /\ Returned \in 0..Len(skiffRows)
         /\ Len(skiffRows) \in Nat /\ Len(skiffInput) \in Nat
         /\ Returned # Len(skiffRows) =>
              /\ Returned + 1 \in 1..Len(skiffRows) /\ Returned \in 0..Len(skiffRows) - 1
              /\ Carries(skiffPos, EncodedRow(skiffRows, Returned + 1))
         /\ Returned = Len(skiffRows) => skiffPos = Len(skiffInput)
<1>1. skiffRows \in Seq(InputRow) /\ InputArrived
  BY DEF SkiffIInv, SkiffAssumption
<1>2. skiffInput \in Seq(Nat) /\ Len(skiffInput) \in Nat /\ Len(skiffInput) <= Len(Encoded(skiffRows)) /\ Arrives
  BY <1>1, ArrivedIs DEF Arrives, SkiffIInv
<1>3. Len(skiffRows) \in Nat /\ Returned \in Nat
  BY <1>1 DEF SkiffIInv, OutTrue, Returned
<1>4. Returned \in 0..Len(skiffRows)
  BY <1>3 DEF SkiffIInv, OutTrue
<1>5. RowEnd(skiffRows, Returned) \in Nat /\ Len(Encoded(skiffRows)) = RowEnd(skiffRows, Len(skiffRows))
  BY <1>1, <1>4, RowEndsGrow
<1>6. Placed
  BY <1>5 DEF Placed, SkiffIInv
<1>7. ASSUME Returned # Len(skiffRows)
      PROVE  /\ Returned + 1 \in 1..Len(skiffRows) /\ Returned \in 0..Len(skiffRows) - 1
             /\ Carries(skiffPos, EncodedRow(skiffRows, Returned + 1))
  <2>1. Returned + 1 \in 1..Len(skiffRows) /\ Returned \in 0..Len(skiffRows) - 1
    BY <1>3, <1>4, <1>7
  <2>2. Carries(RowEnd(skiffRows, Returned), EncodedRow(skiffRows, Returned + 1))
    BY <1>1, <2>1, NextRowCarried
  <2> QED
    BY <2>1, <2>2 DEF SkiffIInv
<1>8. ASSUME Returned = Len(skiffRows) PROVE skiffPos = Len(skiffInput)
  BY <1>2, <1>5, <1>8 DEF SkiffIInv
<1> QED
  BY <1>1, <1>2, <1>3, <1>4, <1>6, <1>7, <1>8

\* A row is returned.
LEMMA RowReturned ==
  ASSUME SkiffAssumption, SkiffIInv, NextSkiffRow
  PROVE  SkiffIInv'
<1>i. PICK i : i = Returned + 1
  OBVIOUS
<1> DEFINE c == DecodedRow
           t == skiffInput[skiffPos + 1]
           layout == LayoutOf(skiffRows, i)
<1>0. /\ skiffStop = "no" /\ c.stop = "no"
      /\ skiffRows' = skiffRows /\ skiffInput' = skiffInput /\ skiffBad' = skiffBad /\ skiffStop' = skiffStop
      /\ skiffPos' = c.at
  BY DEF NextSkiffRow, On
<1>1. /\ Arrives /\ Placed /\ skiffRows \in Seq(InputRow) /\ Returned \in 0..Len(skiffRows)
      /\ Len(skiffRows) \in Nat /\ Len(skiffInput) \in Nat
      /\ Returned # Len(skiffRows) =>
              /\ Returned + 1 \in 1..Len(skiffRows) /\ Returned \in 0..Len(skiffRows) - 1
              /\ Carries(skiffPos, EncodedRow(skiffRows, Returned + 1))
      /\ Returned = Len(skiffRows) => skiffPos = Len(skiffInput)
  BY <1>0, WhereItIs
<1>2. Returned # Len(skiffRows)
  <2> SUFFICES ASSUME Returned = Len(skiffRows) PROVE FALSE
    OBVIOUS
  <2>1. skiffPos = Len(skiffInput) /\ skiffPos \in Nat
    BY <1>1
  <2>2. DecodedRow.stop \in {"none", "read"}
    BY <1>1, <2>1, NoRowIsRead
  <2> QED
    BY <1>0, <2>2
<1>3. i \in 1..Len(skiffRows) /\ i - 1 = Returned /\ i \in Nat /\ Returned \in 0..Len(skiffRows) - 1
  BY <1>1, <1>2, <1>i
<1>4. RowOutcome(skiffRows, i, c)
  <2>1. Carries(skiffPos, EncodedRow(skiffRows, i))
    BY <1>1, <1>2, <1>i
  <2> QED
    BY <1>1, <1>3, <2>1, RowIsRead
<1>5. /\ c.at = skiffPos + Len(EncodedRow(skiffRows, i)) /\ c.at <= Len(skiffInput)
      /\ t = skiffRows[i].table
      /\ \A j \in DOMAIN layout : c.values[j] = ValueOf(skiffRows, i, layout[j])
  BY <1>0, <1>4 DEF RowOutcome
<1>6. IndexState /\ Knows(i - 1)
  BY <1>3 DEF SkiffIInv
<1>7. PICK values : values = c.values
  OBVIOUS
<1>8. \A j \in DOMAIN LayoutOf(skiffRows, i) : values[j] = ValueOf(skiffRows, i, LayoutOf(skiffRows, i)[j])
  BY <1>5, <1>7
<1>9. /\ controlState' = [controlState EXCEPT ![t] = [row |-> RowIndex(t, values), range |-> RangeIndex(t, values)]]
      /\ skiffOut' = Append(skiffOut, [table |-> t,
                                       row   |-> RowIndex(t, values),
                                       range |-> RangeIndex(t, values),
                                       key   |-> Place(t, "key") > 0 /\ values[Place(t, "key")],
                                       data  |-> [j \in DataColumns(t) |-> values[j]]])
  BY <1>7 DEF NextSkiffRow
<1> HIDE DEF c, t, layout
<1>10. PICK u : u = skiffRows[i].table /\ u = t
  BY <1>5
<1>11. /\ RowIndex(u, values) = RowShould(i) /\ RowShould(i) \in Nat
       /\ RangeIndex(u, values) = RangeShould(i) /\ RangeShould(i) \in Nat
  BY <1>1, <1>3, <1>6, <1>8, <1>10, IndexesAreTrue
<1>12. TrueRow(i) = [table |-> u,
                     row   |-> RowIndex(u, values),
                     range |-> RangeIndex(u, values),
                     key   |-> Place(u, "key") > 0 /\ values[Place(u, "key")],
                     data  |-> [j \in DataColumns(u) |-> values[j]]]
  BY <1>1, <1>3, <1>6, <1>8, <1>10, RowIsTrue
<1>13. skiffOut' = Append(skiffOut, TrueRow(i))
  BY <1>9, <1>10, <1>12
<1>14. PICK row \in Nat, range \in Nat : row = RowShould(i) /\ range = RangeShould(i)
  BY <1>11
<1>15. controlState' = [controlState EXCEPT ![skiffRows[i].table] = [row |-> row, range |-> range]]
  BY <1>9, <1>10, <1>11, <1>14
<1>16. Knows(i)' /\ IndexState'
  BY <1>0, <1>1, <1>3, <1>6, <1>14, <1>15, KnowsNext
<1>17. /\ skiffOut' \in Seq({TrueRow(j) : j \in 1..Len(skiffRows)}) /\ Len(skiffOut') = i
       /\ \A j \in 1..i : skiffOut'[j] = TrueRow(j)
  <2>1. TrueRow(i) \in {TrueRow(j) : j \in 1..Len(skiffRows)}
    BY <1>3
  <2>2. /\ skiffOut \in Seq({TrueRow(j) : j \in 1..Len(skiffRows)})
        /\ \A j \in 1..Len(skiffOut) : skiffOut[j] = TrueRow(j)
    BY DEF SkiffIInv, OutTrue, Returned
  <2>3. /\ Append(skiffOut, TrueRow(i)) \in Seq({TrueRow(j) : j \in 1..Len(skiffRows)})
        /\ Len(Append(skiffOut, TrueRow(i))) = Len(skiffOut) + 1
        /\ \A j \in 1..Len(skiffOut) : Append(skiffOut, TrueRow(i))[j] = skiffOut[j]
        /\ Append(skiffOut, TrueRow(i))[Len(skiffOut) + 1] = TrueRow(i)
    BY <2>1, <2>2, AppendProperties
  <2>4. i = Len(skiffOut) + 1 /\ Len(skiffOut) \in Nat
    BY <1>i, <2>2 DEF Returned
  <2>5. ASSUME NEW j \in 1..i PROVE skiffOut'[j] = TrueRow(j)
    <3>1. j \in 1..Len(skiffOut) \/ j = Len(skiffOut) + 1
      BY <2>4
    <3> QED
      BY <1>13, <2>2, <2>3, <2>4, <3>1
  <2> QED
    BY <1>13, <2>3, <2>4, <2>5
<1>18. OutTrue'
  <2>1. \A j : TrueRow(j)' = TrueRow(j)
    BY <1>0 DEF TrueRow
  <2>2. {TrueRow(j) : j \in 1..Len(skiffRows)}' = {TrueRow(j) : j \in 1..Len(skiffRows)}
    BY <1>0, <2>1
  <2> QED
    BY <1>0, <1>3, <1>17, <2>1, <2>2 DEF OutTrue, Returned
<1>19. Returned' = i
  BY <1>17 DEF Returned
<1>20. skiffPos' = RowEnd(skiffRows, i) /\ skiffPos' <= Len(skiffInput)
  <2>1. RowEnd(skiffRows, Returned + 1) = RowEnd(skiffRows, Returned) + Len(EncodedRow(skiffRows, Returned + 1))
    BY <1>1, <1>3, RowEndsGrow
  <2>2. skiffPos = RowEnd(skiffRows, Returned)
    BY <1>0 DEF SkiffIInv
  <2> QED
    BY <1>0, <1>5, <1>i, <2>1, <2>2
<1>22. StopTrue'
  BY <1>0 DEF StopTrue
<1>23. InputArrived'
  <2>1. InputArrived
    BY DEF SkiffIInv
  <2> QED
    BY <1>0, <2>1 DEF InputArrived
<1>24. (skiffStop = "no" => skiffPos = RowEnd(skiffRows, Returned) /\ skiffPos <= Len(skiffInput))'
  BY <1>0, <1>19, <1>20
<1>25. Knows(Returned)'
  BY <1>16, <1>19 DEF Knows
<1> QED
  BY <1>0, <1>16, <1>18, <1>22, <1>23, <1>24, <1>25 DEF SkiffIInv

\* The reader stops for a reason.
LEMMA ReaderStopped ==
  ASSUME SkiffAssumption, SkiffIInv, NextSkiffStops
  PROVE  SkiffIInv'
<1>n. PICK i : i = Returned + 1
  OBVIOUS
<1>c. PICK c : c = DecodedRow
  OBVIOUS
<1>0. /\ skiffStop = "no" /\ c.stop # "no"
      /\ skiffRows' = skiffRows /\ skiffInput' = skiffInput /\ skiffBad' = skiffBad /\ skiffOut' = skiffOut
      /\ controlState' = controlState /\ skiffStop' = c.stop /\ skiffPos' = c.at
  BY <1>c DEF NextSkiffStops, On
<1>1. /\ Arrives /\ Placed /\ skiffRows \in Seq(InputRow) /\ Returned \in 0..Len(skiffRows)
      /\ Len(skiffRows) \in Nat /\ Len(skiffInput) \in Nat
      /\ Returned # Len(skiffRows) =>
              /\ Returned + 1 \in 1..Len(skiffRows) /\ Returned \in 0..Len(skiffRows) - 1
              /\ Carries(skiffPos, EncodedRow(skiffRows, Returned + 1))
      /\ Returned = Len(skiffRows) => skiffPos = Len(skiffInput)
  BY <1>0, WhereItIs
<1>2. InputArrived /\ skiffPos = RowEnd(skiffRows, Returned) /\ skiffPos \in Nat /\ Returned = Len(skiffOut)
  BY <1>0, <1>1 DEF SkiffIInv, Placed, Returned
<1>3. RowEnd(skiffRows, Returned) = Len(skiffInput) => RowsThatArrived = {Returned}
  BY <1>1, <1>2, RowsArrivedAre
<1>4. ASSUME Returned # Len(skiffRows)
      PROVE  /\ c.stop \in {"none", "truncated", "read", "rowTooLarge", "blobTooLarge"}
             /\ c.stop = "none" => RowsThatArrived = {Returned}
             /\ c.stop = "truncated" => RowsThatArrived = {}
             /\ c.stop = "read" => c.at = skiffBad - 1
             /\ c.stop = "rowTooLarge" => Footprint(skiffRows[i]) > MaxRowBytes
             /\ c.stop = "blobTooLarge" => "blob" \in ToSet(Layout(skiffRows[i].table)) /\ skiffRows[i].data > MaxBlobBytes
  <2>1. i \in 1..Len(skiffRows) /\ Returned \in 0..Len(skiffRows) - 1 /\ Carries(skiffPos, EncodedRow(skiffRows, i))
    BY <1>1, <1>4, <1>n
  <2>2. RowOutcome(skiffRows, i, c)
    BY <1>1, <1>c, <2>1, RowIsRead
  <2>3. c.stop = "none" => RowsThatArrived = {Returned}
    BY <1>2, <1>3, <2>2 DEF RowOutcome
  <2>4. c.stop = "truncated" => RowsThatArrived = {}
    <3> SUFFICES ASSUME c.stop = "truncated" PROVE RowsThatArrived = {}
      OBVIOUS
    <3>1. skiffPos < Len(skiffInput) /\ Len(skiffInput) < skiffPos + Len(EncodedRow(skiffRows, i))
      BY <2>2 DEF RowOutcome
    <3>2. RowEnd(skiffRows, Returned + 1) = RowEnd(skiffRows, Returned) + Len(EncodedRow(skiffRows, Returned + 1))
      BY <1>1, <2>1, RowEndsGrow
    <3>3. RowEnd(skiffRows, Returned) < Len(skiffInput) /\ Len(skiffInput) < RowEnd(skiffRows, Returned + 1)
      BY <1>2, <1>n, <3>1, <3>2
    <3>4. Returned < Len(skiffRows)
      BY <1>1, <2>1
    <3> QED
      BY <1>1, <1>2, <3>3, <3>4, RowsArrivedAre
  <2> QED
    BY <1>0, <2>2, <2>3, <2>4 DEF RowOutcome, LayoutOf
<1>5. ASSUME Returned = Len(skiffRows)
      PROVE  /\ c.stop \in {"none", "read"}
             /\ c.stop = "none" => RowsThatArrived = {Returned}
             /\ c.stop = "read" => c.at = skiffBad - 1
  <2>1. skiffPos = Len(skiffInput)
    BY <1>1, <1>5
  <2>2. c.stop \in {"none", "read"} /\ (c.stop = "read" => c.at = skiffBad - 1)
    BY <1>1, <1>2, <1>c, <2>1, NoRowIsRead
  <2>3. RowsThatArrived = {Returned}
    BY <1>2, <1>3, <2>1
  <2> QED
    BY <2>2, <2>3
<1>6. StopTrue'
  <2>1. /\ c.stop \in {"none", "truncated", "read", "rowTooLarge", "blobTooLarge"}
        /\ c.stop = "none" => RowsThatArrived = {Returned}
        /\ c.stop = "truncated" => RowsThatArrived = {}
        /\ c.stop = "read" => c.at = skiffBad - 1
        /\ c.stop = "rowTooLarge" => Footprint(skiffRows[i]) > MaxRowBytes
        /\ c.stop = "blobTooLarge" => "blob" \in ToSet(Layout(skiffRows[i].table)) /\ skiffRows[i].data > MaxBlobBytes
    BY <1>4, <1>5
  <2>2. RowsThatArrived' = RowsThatArrived
    BY <1>0 DEF RowsThatArrived
  <2>3. skiffRows'[Len(skiffOut') + 1] = skiffRows[i]
    BY <1>0, <1>2, <1>n
  <2> QED
    BY <1>0, <1>2, <2>1, <2>2, <2>3 DEF StopTrue
<1>7. OutTrue'
  <2>1. OutTrue
    BY DEF SkiffIInv
  <2>2. \A j : TrueRow(j)' = TrueRow(j)
    BY <1>0 DEF TrueRow
  <2>3. {TrueRow(j) : j \in 1..Len(skiffRows)}' = {TrueRow(j) : j \in 1..Len(skiffRows)}
    BY <1>0, <2>2
  <2> QED
    BY <1>0, <2>1, <2>2, <2>3 DEF OutTrue, Returned
<1>8. Knows(Returned)' /\ IndexState'
  <2>1. Knows(Returned) /\ IndexState
    BY DEF SkiffIInv
  <2>2. \A t, k, j : Latest(t, k, j)' = Latest(t, k, j)
    BY <1>0 DEF Latest
  <2>3. \A t, k : CountTo(t, k)' = CountTo(t, k)
    BY <1>0 DEF CountTo
  <2>4. Returned' = Returned
    BY <1>0 DEF Returned
  <2> QED
    BY <1>0, <2>1, <2>2, <2>3, <2>4 DEF Knows, KnowsOf, IndexState
<1>9. InputArrived'
  <2>1. InputArrived
    BY DEF SkiffIInv
  <2> QED
    BY <1>0, <2>1 DEF InputArrived
<1> QED
  BY <1>0, <1>6, <1>7, <1>8, <1>9 DEF SkiffIInv

\* Where nothing changes nothing is lost.
LEMMA SkiffStutters ==
  ASSUME SkiffIInv, UNCHANGED skiffVars
  PROVE  SkiffIInv'
<1>0. /\ skiffRows' = skiffRows /\ skiffInput' = skiffInput /\ skiffBad' = skiffBad /\ skiffOut' = skiffOut
      /\ controlState' = controlState /\ skiffStop' = skiffStop /\ skiffPos' = skiffPos
  BY DEF skiffVars
<1>1. \A j : TrueRow(j)' = TrueRow(j)
  BY <1>0 DEF TrueRow
<1>2. {TrueRow(j) : j \in 1..Len(skiffRows)}' = {TrueRow(j) : j \in 1..Len(skiffRows)}
  BY <1>0, <1>1
<1>3. OutTrue'
  <2>1. OutTrue
    BY DEF SkiffIInv
  <2> QED
    BY <1>0, <1>1, <1>2, <2>1 DEF OutTrue, Returned
<1>4. Returned' = Returned /\ RowsThatArrived' = RowsThatArrived
  BY <1>0 DEF Returned, RowsThatArrived
<1>5. Knows(Returned)' /\ IndexState'
  <2>1. Knows(Returned) /\ IndexState
    BY DEF SkiffIInv
  <2>2. \A t, k, j : Latest(t, k, j)' = Latest(t, k, j)
    BY <1>0 DEF Latest
  <2>3. \A t, k : CountTo(t, k)' = CountTo(t, k)
    BY <1>0 DEF CountTo
  <2> QED
    BY <1>0, <1>4, <2>1, <2>2, <2>3 DEF Knows, KnowsOf, IndexState
<1>6. StopTrue'
  <2>1. StopTrue
    BY DEF SkiffIInv
  <2> QED
    BY <1>0, <1>4, <2>1 DEF StopTrue
<1>7. InputArrived'
  <2>1. InputArrived
    BY DEF SkiffIInv
  <2> QED
    BY <1>0, <2>1 DEF InputArrived
<1> QED
  BY <1>0, <1>3, <1>4, <1>5, <1>6, <1>7 DEF SkiffIInv

\* What the invariant says of the rows a job has read, and of those it may skip.
LEMMA SkiffInvariantSaysSo ==
  ASSUME SkiffAssumption, SkiffIInv
  PROVE  SkiffRowsAreTrue
<1>1. \A i \in DOMAIN skiffOut : skiffOut[i] = TrueRow(i)
  BY DEF SkiffIInv, OutTrue, Returned
<1>2. ASSUME skiffStop = "no"
      PROVE  <<DecodedRow.at, DecodedRow.left, DecodedRow.stop>> = <<SkippedRow.at, SkippedRow.left, SkippedRow.stop>>
  <2>1. Arrives /\ Placed
    BY <1>2, WhereItIs
  <2>2. Alike(DecodedRow, SkippedRow)
    BY <2>1, AlikeRows
  <2> QED
    BY <2>2 DEF Alike
<1>3. StopTrue
  BY DEF SkiffIInv
<1> HIDE DEF SkiffIInv
<1> QED
  BY <1>1, <1>2, <1>3 DEF SkiffRowsAreTrue, StopTrue

\* A job reads the rows that the cluster sent, with the indexes they have in
\* their tables, is told of an end only between two rows, is refused only what
\* is cut, failed or too large, and may skip exactly what it could decode
\* (SkiffJobReader::next_row and skip_row).
THEOREM SkiffRowsStayTrue == SkiffSpec => []SkiffRowsAreTrue
<1>1. SkiffInit => SkiffIInv
  BY SkiffAssumption, SkiffInitially
<1>2. SkiffIInv /\ [SkiffNext]_skiffVars => SkiffIInv'
  <2> SUFFICES ASSUME SkiffIInv, [SkiffNext]_skiffVars PROVE SkiffIInv'
    OBVIOUS
  <2>1. CASE NextSkiffRow
    BY <2>1, SkiffAssumption, RowReturned
  <2>2. CASE NextSkiffStops
    BY <2>2, SkiffAssumption, ReaderStopped
  <2>3. CASE UNCHANGED skiffVars
    BY <2>3, SkiffStutters
  <2> QED
    BY <2>1, <2>2, <2>3 DEF SkiffNext
<1>3. SkiffIInv => SkiffRowsAreTrue
  BY SkiffAssumption, SkiffInvariantSaysSo
<1> QED
  BY <1>1, <1>2, <1>3, PTL DEF SkiffSpec

=============================================================================
