--------------------------- MODULE JobReaderProofs ---------------------------
(***************************************************************************)
(* Proofs about a job's input (JobReader), for every stream, every size of *)
(* the buffer and every way in which reads cut the stream.                 *)
(***************************************************************************)
EXTENDS JobReader, TLAPS, FiniteSetTheorems, SequenceTheorems, WellFoundedInduction

(***************************************************************************)
(* Where the reader is.                                                    *)
(***************************************************************************)
EndOf(i) == input[i].at + input[i].len

\* Where the n-th record begins, or would.
Place(n) == IF n = 1 THEN 0 ELSE EndOf(n - 1) + 1

\* The offset o is where the n-th record begins, or the separator before it.
Before(n, o) ==
  /\ n \in 1..Len(input) + 1
  /\ o = Place(n) \/ (n > 1 /\ o = Place(n) - 1)

StreamTypes ==
  /\ input \in Inputs /\ limit \in 0..StreamEnd(input) /\ bytesTaken \in 0..limit
  /\ capacity \in Nat \ {0} /\ inputDone \in BOOLEAN

\* The buffer holds the stretch of the stream that was read last, without a gap.
Window ==
  /\ buf \in Seq(Nat) /\ base \in Nat /\ pos \in 0..Len(buf)
  /\ base + Len(buf) = bytesTaken
  /\ \A k \in 1..Len(buf) : buf[k] = base + k - 1
  /\ Len(buf) <= capacity
  /\ inputDone => bytesTaken = limit

\* What is lined up is the n-th record, whole and in its place.
LinedUp(n) ==
  pending # None =>
    /\ n \in DOMAIN input /\ input[n].kind \in Data
    /\ base + pos = input[n].at /\ pos + input[n].len <= Len(buf)
    /\ pending = [kind |-> input[n].kind, len |-> input[n].len]

\* The rows and switches before it have been consumed.
Consumed(n) ==
  /\ passed \in 0..n - 1
  /\ \A i \in 1..n - 1 : input[i].kind \in Data => i <= passed

IndicesTrue(n) ==
  /\ tableIndex = TrueTable(n) /\ rangeIndex = TrueIndex(n, "rangeIndex")
  /\ rowIndex = TrueRowIndex(n)

\* The reader stands before the n-th record.
Stands(n) == Before(n, base + pos) /\ LinedUp(n) /\ Consumed(n) /\ IndicesTrue(n)

ReaderAt(n) == StreamTypes /\ Window /\ Stands(n)

-----------------------------------------------------------------------------
(***************************************************************************)
(* Records and offsets.                                                    *)
(***************************************************************************)
\* A record of a stream begins where it should.
LEMMA InputFacts ==
  ASSUME input \in Inputs
  PROVE  /\ input \in Seq(Records) /\ Len(input) \in Nat /\ DOMAIN input = 1..Len(input)
         /\ \A i \in DOMAIN input :
              /\ input[i].kind \in Kinds /\ input[i].at \in Nat /\ input[i].len \in Nat \ {0}
              /\ input[i].n \in Nat
              /\ input[i].at = Place(i) /\ EndOf(i) \in Nat /\ input[i].at < EndOf(i)
<1>1. input \in Seq(Records)
  BY InputsAssumption
<1>2. Len(input) \in Nat /\ DOMAIN input = 1..Len(input)
  BY <1>1
<1>3. ASSUME NEW i \in DOMAIN input
      PROVE  /\ input[i].kind \in Kinds /\ input[i].at \in Nat /\ input[i].len \in Nat \ {0}
             /\ input[i].n \in Nat
  <2>1. input[i] \in Records
    BY <1>1
  <2> QED
    BY <2>1 DEF Records
<1>4. \A i \in DOMAIN input : input[i].at = Place(i)
  BY InputsAssumption DEF Place, EndOf
<1> QED
  BY <1>1, <1>2, <1>3, <1>4 DEF EndOf

\* A set of numbers that is not empty has a least one.
LEMMA LeastOf ==
  ASSUME NEW T \in SUBSET Nat, T # {}
  PROVE  \E m \in T : \A k \in T : ~(k < m)
<1>1. PICK m \in T : \A k \in T : <<k, m>> \notin OpToRel(<, Nat)
  BY NatLessThanWellFounded, WFMin
<1>2. ASSUME NEW k \in T, k < m PROVE FALSE
  <2>1. <<k, m>> \in OpToRel(<, Nat)
    BY <1>2 DEF OpToRel
  <2> QED
    BY <1>1, <2>1
<1> QED
  BY <1>2

\* Records follow one another, with room for a separator.
LEMMA RecordsInOrder ==
  ASSUME input \in Inputs, NEW i \in DOMAIN input, NEW j \in DOMAIN input, i < j
  PROVE  EndOf(i) < input[j].at
<1> DEFINE Bad == {m \in Nat : m \in DOMAIN input /\ i < m /\ ~(EndOf(i) < input[m].at)}
<1>0. DOMAIN input = 1..Len(input) /\ Len(input) \in Nat
  BY InputFacts
<1>1. Bad = {}
  <2> SUFFICES ASSUME Bad # {} PROVE FALSE
    OBVIOUS
  <2>1. Bad \in SUBSET Nat
    OBVIOUS
  <2>2. PICK m \in Bad : \A k \in Bad : ~(k < m)
    <3> HIDE DEF Bad
    <3> QED
      BY <2>1, LeastOf
  <2>3. m \in DOMAIN input /\ i < m /\ m \in Nat /\ ~(EndOf(i) < input[m].at) /\ i \in Nat /\ 1 <= i
    BY <1>0, <2>2
  <2>4. m - 1 \in DOMAIN input /\ m - 1 \in Nat /\ m # 1
    BY <1>0, <2>3
  <2>5. input[m].at = EndOf(m - 1) + 1
    BY <2>3, <2>4, InputFacts DEF Place
  <2>6. EndOf(i) \in Nat /\ EndOf(m - 1) \in Nat /\ input[m - 1].at < EndOf(m - 1) /\ input[m - 1].at \in Nat
    BY <2>4, InputFacts
  <2>7. CASE i = m - 1
    BY <2>3, <2>5, <2>6, <2>7
  <2>8. CASE i # m - 1
    <3>1. m - 1 < m
      BY <2>3
    <3>2. m - 1 \notin Bad
      BY <2>2, <3>1
    <3>3. EndOf(i) < input[m - 1].at
      BY <2>3, <2>4, <2>8, <3>2
    <3> QED
      BY <2>3, <2>5, <2>6, <3>3
  <2> QED
    BY <2>7, <2>8
<1>2. j \in Nat
  BY <1>0
<1> QED
  BY <1>1, <1>2

\* What lies before the place of the n-th record, and what does not.
LEMMA PlaceFacts ==
  ASSUME input \in Inputs, NEW n \in 1..Len(input) + 1
  PROVE  /\ Place(n) \in Nat /\ (n > 1 => Place(n) > 0)
         /\ \A i \in DOMAIN input : i < n => EndOf(i) < Place(n)
         /\ \A i \in DOMAIN input : n <= i => Place(n) <= input[i].at
         /\ n \notin DOMAIN input => Place(n) = StreamEnd(input)
         /\ n \in DOMAIN input => n + 1 \in 1..Len(input) + 1 /\ Place(n + 1) = EndOf(n) + 1
<1>1. Len(input) \in Nat /\ DOMAIN input = 1..Len(input) /\ n \in Nat
  BY InputFacts
<1>2. n > 1 => n - 1 \in DOMAIN input /\ n - 1 \in Nat
  BY <1>1
<1>3. Place(n) \in Nat /\ (n > 1 => Place(n) > 0)
  BY <1>1, <1>2, InputFacts DEF Place
<1>4. ASSUME NEW i \in DOMAIN input, i < n PROVE EndOf(i) < Place(n)
  <2>1. i \in Nat /\ 1 <= i /\ n > 1 /\ n # 1
    BY <1>1, <1>4
  <2>2. Place(n) = EndOf(n - 1) + 1 /\ EndOf(n - 1) \in Nat /\ EndOf(i) \in Nat
        /\ input[n - 1].at \in Nat /\ input[n - 1].at < EndOf(n - 1)
    BY <1>2, <2>1, InputFacts DEF Place
  <2>3. CASE i = n - 1
    BY <2>2, <2>3
  <2>4. CASE i # n - 1
    <3>1. i < n - 1
      BY <1>1, <1>4, <2>1, <2>4
    <3>2. EndOf(i) < input[n - 1].at
      BY <1>2, <2>1, <3>1, RecordsInOrder
    <3> QED
      BY <2>2, <3>2
  <2> QED
    BY <2>3, <2>4
<1>5. ASSUME NEW i \in DOMAIN input, n <= i PROVE Place(n) <= input[i].at
  <2>1. n \in DOMAIN input /\ i \in Nat
    BY <1>1, <1>5
  <2>2. /\ Place(n) = input[n].at /\ input[n].at \in Nat /\ input[i].at \in Nat /\ EndOf(n) \in Nat
        /\ input[n].at < EndOf(n)
    BY <2>1, InputFacts
  <2>3. CASE i = n
    BY <2>2, <2>3
  <2>4. CASE i # n
    <3>1. EndOf(n) < input[i].at
      BY <1>1, <1>5, <2>1, <2>4, RecordsInOrder
    <3> QED
      BY <2>2, <3>1
  <2> QED
    BY <2>3, <2>4
<1>6. n \notin DOMAIN input => Place(n) = StreamEnd(input)
  <2> SUFFICES ASSUME n \notin DOMAIN input PROVE Place(n) = StreamEnd(input)
    OBVIOUS
  <2>1. n = Len(input) + 1
    BY <1>1
  <2>2. input = <<>> <=> Len(input) = 0
    BY InputFacts
  <2>3. n - 1 = Len(input) /\ (n = 1 <=> Len(input) = 0)
    BY <1>1, <2>1
  <2> QED
    BY <2>2, <2>3 DEF Place, EndOf, StreamEnd
<1>7. n \in DOMAIN input => n + 1 \in 1..Len(input) + 1 /\ Place(n + 1) = EndOf(n) + 1
  <2>1. n + 1 # 1 /\ (n + 1) - 1 = n
    BY <1>1
  <2> QED
    BY <1>1, <2>1 DEF Place
<1> QED
  BY <1>3, <1>4, <1>5, <1>6, <1>7

\* At the place of a record there is that record, and before it none.
LEMMA RecordAtPlace ==
  ASSUME input \in Inputs, NEW n \in 1..Len(input) + 1
  PROVE  /\ n > 1 => RecordAt(Place(n) - 1) = {}
         /\ n \in DOMAIN input => RecordAt(Place(n)) = {n}
<1>1. /\ Place(n) \in Nat /\ n \in Nat /\ DOMAIN input = 1..Len(input) /\ Len(input) \in Nat
  BY PlaceFacts, InputFacts
<1>2. ASSUME NEW i \in DOMAIN input
      PROVE  /\ i \in Nat /\ input[i].at \in Nat /\ EndOf(i) \in Nat
             /\ input[i].at + input[i].len = EndOf(i) /\ input[i].at < EndOf(i)
             /\ i < n => EndOf(i) < Place(n)
             /\ n <= i => Place(n) <= input[i].at
  BY <1>1, PlaceFacts, InputFacts DEF EndOf
<1>3. ASSUME NEW i \in DOMAIN input
      PROVE  ~(input[i].at <= Place(n) - 1 /\ Place(n) - 1 < EndOf(i))
  BY <1>1, <1>2
<1>4. ASSUME NEW i \in DOMAIN input, input[i].at <= Place(n), Place(n) < EndOf(i)
      PROVE  i = n
  <2>1. ~(i < n)
    BY <1>1, <1>2, <1>4
  <2>2. ~(n < i)
    <3> SUFFICES ASSUME n < i PROVE FALSE
      OBVIOUS
    <3>1. n \in DOMAIN input
      BY <1>1, <1>2
    <3>2. EndOf(n) < input[i].at /\ Place(n) = input[n].at /\ input[n].at < EndOf(n) /\ EndOf(n) \in Nat
      BY <3>1, RecordsInOrder, InputFacts
    <3> QED
      BY <1>1, <1>2, <1>4, <3>2
  <2> QED
    BY <1>1, <1>2, <2>1, <2>2
<1>5. n \in DOMAIN input => input[n].at = Place(n) /\ Place(n) < EndOf(n)
  BY InputFacts
<1>6. n > 1 => RecordAt(Place(n) - 1) = {}
  BY <1>2, <1>3 DEF RecordAt
<1>7. n \in DOMAIN input => RecordAt(Place(n)) = {n}
  BY <1>1, <1>2, <1>4, <1>5 DEF RecordAt
<1> QED
  BY <1>6, <1>7

\* skip_separators stops at the n-th record, or where the buffer ends.
LEMMA StartIs ==
  ASSUME StreamTypes, Window, NEW n \in 1..Len(input) + 1, Before(n, base + pos)
  PROVE  /\ Start \in pos..Len(buf) /\ Before(n, base + Start)
         /\ Start < Len(buf) => /\ n \in DOMAIN input /\ base + Start = input[n].at
                                /\ RecordPlace = n /\ Record = input[n]
         /\ base + pos = Place(n) => Start = pos
<1>1. /\ input \in Inputs /\ limit \in Nat /\ StreamEnd(input) \in Nat /\ limit <= StreamEnd(input)
      /\ bytesTaken \in Nat /\ bytesTaken <= limit
  <2>1. input \in Inputs
    BY DEF StreamTypes
  <2>2. Len(input) + 1 \in 1..Len(input) + 1 /\ Len(input) + 1 \notin DOMAIN input
    BY <2>1, InputFacts
  <2>3. StreamEnd(input) \in Nat
    BY <2>1, <2>2, PlaceFacts
  <2> QED
    BY <2>1, <2>3 DEF StreamTypes
<1>2. /\ base \in Nat /\ pos \in Nat /\ Len(buf) \in Nat /\ pos <= Len(buf)
      /\ base + Len(buf) = bytesTaken /\ \A k \in 1..Len(buf) : buf[k] = base + k - 1
  BY DEF Window
<1>3. Place(n) \in Nat /\ n \in Nat /\ (n > 1 => Place(n) > 0)
  BY <1>1, PlaceFacts, InputFacts
<1>4. ASSUME Place(n) < base + Len(buf) PROVE n \in DOMAIN input
  BY <1>1, <1>2, <1>3, <1>4, PlaceFacts
<1> DEFINE OK(q) == /\ \A p \in pos + 1..q : RecordAt(buf[p]) = {}
                    /\ q < Len(buf) => RecordAt(buf[q + 1]) # {}
<1>5. Start = CHOOSE q \in pos..Len(buf) : OK(q)
  BY DEF Start
<1>6. ASSUME NEW q \in pos..Len(buf), OK(q), \A s \in pos..Len(buf) : OK(s) => s = q
      PROVE  Start = q
  <2> HIDE DEF OK
  <2> QED
    BY <1>5, <1>6
<1>7. ASSUME NEW q \in pos..Len(buf), base + q = Place(n), q < Len(buf)
      PROVE  /\ buf[q + 1] = Place(n) /\ RecordAt(buf[q + 1]) = {n} /\ n \in DOMAIN input
             /\ base + q = input[n].at
  <2>1. n \in DOMAIN input
    BY <1>2, <1>4, <1>7
  <2>2. q + 1 \in 1..Len(buf) /\ base + (q + 1) - 1 = base + q
    BY <1>2, <1>7
  <2>3. buf[q + 1] = Place(n)
    BY <1>2, <1>7, <2>2
  <2>4. RecordAt(Place(n)) = {n} /\ input[n].at = Place(n)
    BY <1>1, <2>1, RecordAtPlace, InputFacts
  <2> QED
    BY <1>7, <2>1, <2>3, <2>4
<1>8. CASE base + pos = Place(n)
  <2>1. OK(pos)
    <3>1. \A p \in pos + 1..pos : FALSE
      BY <1>2
    <3>2. pos \in pos..Len(buf)
      BY <1>2
    <3>3. pos < Len(buf) => RecordAt(buf[pos + 1]) = {n}
      BY <1>7, <1>8, <3>2
    <3> QED
      BY <3>1, <3>3
  <2>2. ASSUME NEW s \in pos..Len(buf), OK(s) PROVE s = pos
    <3> SUFFICES ASSUME s # pos PROVE FALSE
      OBVIOUS
    <3>1. pos + 1 \in pos + 1..s /\ pos < Len(buf) /\ pos \in pos..Len(buf)
      BY <1>2
    <3>2. RecordAt(buf[pos + 1]) = {}
      BY <2>2, <3>1
    <3> QED
      BY <1>7, <1>8, <3>1, <3>2
  <2>3. Start = pos
    <3>1. pos \in pos..Len(buf)
      BY <1>2
    <3> HIDE DEF OK
    <3> QED
      BY <1>6, <2>1, <2>2, <3>1
  <2>4. Start < Len(buf) => /\ n \in DOMAIN input /\ base + Start = input[n].at
                            /\ RecordAt(buf[Start + 1]) = {n}
    <3>1. pos \in pos..Len(buf)
      BY <1>2
    <3> QED
      BY <1>7, <1>8, <2>3, <3>1
  <2>5. Start < Len(buf) => RecordPlace = n /\ Record = input[n]
    BY <2>4 DEF RecordPlace, Record
  <2> QED
    BY <1>2, <2>3, <2>4, <2>5
<1>9. CASE base + pos = Place(n) - 1 /\ n > 1
  <2>1. CASE pos = Len(buf)
    <3>1. OK(pos) /\ pos \in pos..Len(buf) /\ \A s \in pos..Len(buf) : s = pos
      BY <1>2, <2>1
    <3>2. Start = pos
      <4> HIDE DEF OK
      <4> QED
        BY <1>6, <3>1
    <3> QED
      BY <1>2, <1>3, <1>9, <2>1, <3>2
  <2>2. CASE pos < Len(buf)
    <3> DEFINE q == pos + 1
    <3>1. q \in pos..Len(buf) /\ base + q = Place(n) /\ q \in 1..Len(buf)
      <4>1. base \in Nat /\ pos \in Nat /\ Len(buf) \in Nat /\ Place(n) \in Nat
        BY <1>2, <1>3
      <4>2. base + pos = Place(n) - 1
        BY <1>9
      <4> QED
        BY <2>2, <4>1, <4>2
    <3>2. RecordAt(buf[q]) = {}
      <4>1. buf[q] = Place(n) - 1
        BY <1>2, <1>3, <3>1, <1>9
      <4> QED
        BY <1>1, <1>9, <4>1, RecordAtPlace
    <3>3. OK(q)
      <4>1. \A p \in pos + 1..q : p = q
        BY <1>2
      <4>2. q < Len(buf) => RecordAt(buf[q + 1]) # {}
        BY <1>7, <3>1
      <4> QED
        BY <3>2, <4>1, <4>2
    <3>4. ASSUME NEW s \in pos..Len(buf), OK(s) PROVE s = q
      <4>1. s # pos
        BY <1>2, <2>2, <3>2, <3>4
      <4>2. CASE s > q
        <5>1. q + 1 \in pos + 1..s /\ q < Len(buf)
          BY <1>2, <4>2
        <5>2. RecordAt(buf[q + 1]) = {}
          BY <3>4, <5>1
        <5> QED
          BY <1>7, <3>1, <5>1, <5>2
      <4> QED
        BY <1>2, <4>1, <4>2
    <3>5. Start = q
      <4> HIDE DEF OK, q
      <4> QED
        BY <1>6, <3>1, <3>3, <3>4
    <3>6. Start < Len(buf) => /\ n \in DOMAIN input /\ base + Start = input[n].at
                              /\ RecordAt(buf[Start + 1]) = {n}
      <4> HIDE DEF q
      <4> QED
        BY <1>7, <3>1, <3>5
    <3>7. Start < Len(buf) => RecordPlace = n /\ Record = input[n]
      BY <3>6 DEF RecordPlace, Record
    <3>8. base + Start = Place(n)
      BY <3>1, <3>5
    <3> QED
      BY <1>2, <1>3, <1>9, <3>1, <3>5, <3>6, <3>7, <3>8 DEF Before
  <2> QED
    BY <1>2, <2>1, <2>2
<1> QED
  BY <1>8, <1>9 DEF Before

-----------------------------------------------------------------------------
(***************************************************************************)
(* What a reader of the whole stream would say, record by record.          *)
(***************************************************************************)
\* The last record of some kinds before the n-th is one of them, with none of
\* them after it.
LEMMA LastBeforeFacts ==
  ASSUME input \in Inputs, NEW n \in 1..Len(input) + 1, NEW K
  PROVE  /\ LastBefore(n, K) \in 0..n - 1
         /\ LastBefore(n, K) # 0 => /\ LastBefore(n, K) \in DOMAIN input
                                    /\ input[LastBefore(n, K)].kind \in K
<1> DEFINE before == {j \in 1..n - 1 : input[j].kind \in K}
<1>1. Len(input) \in Nat /\ DOMAIN input = 1..Len(input) /\ n \in Nat /\ 1 <= n
  BY InputFacts
<1>2. LastBefore(n, K) = IF before = {} THEN 0 ELSE CHOOSE j \in before : \A k \in before : k <= j
  BY DEF LastBefore
<1>3. \A j \in before : j \in 1..n - 1 /\ j \in DOMAIN input /\ input[j].kind \in K
  BY <1>1
<1>4. CASE before = {}
  BY <1>1, <1>2, <1>4
<1>5. CASE before # {}
  <2> DEFINE T == {m \in Nat : n - m \in before}
  <2>1. PICK j \in before : TRUE
    BY <1>5
  <2>2. n - j \in T
    <3>1. j \in Nat /\ n - j \in Nat /\ n - (n - j) = j
      BY <1>1, <1>3
    <3> QED
      BY <3>1
  <2>3. T \in SUBSET Nat /\ T # {}
    BY <2>2
  <2>4. PICK m \in T : \A k \in T : ~(k < m)
    <3> HIDE DEF T
    <3> QED
      BY <2>3, LeastOf
  <2>5. n - m \in before /\ m \in Nat
    BY <2>4
  <2>6. ASSUME NEW k \in before PROVE k <= n - m
    <3>1. k \in Nat /\ n - k \in Nat /\ n - (n - k) = k
      BY <1>1, <1>3
    <3>2. n - k \in T
      BY <3>1
    <3>3. ~(n - k < m)
      BY <2>4, <3>2
    <3> QED
      BY <1>1, <2>5, <3>1, <3>3
  <2>7. LastBefore(n, K) \in before
    <3> HIDE DEF before
    <3>1. \E i \in before : \A k \in before : k <= i
      BY <2>5, <2>6
    <3> QED
      BY <1>2, <1>5, <3>1
  <2>8. LastBefore(n, K) \in 1..n - 1 /\ LastBefore(n, K) \in DOMAIN input /\ input[LastBefore(n, K)].kind \in K
    <3> HIDE DEF before
    <3> QED
      BY <1>3, <2>7
  <2> QED
    BY <1>1, <2>8
<1> QED
  BY <1>4, <1>5

\* Past the n-th record, the last one of some kinds is that one or the same as
\* before.
LEMMA LastBeforeStep ==
  ASSUME input \in Inputs, NEW n \in DOMAIN input, NEW K
  PROVE  LastBefore(n + 1, K) = IF input[n].kind \in K THEN n ELSE LastBefore(n, K)
<1> DEFINE before(i) == {j \in 1..i - 1 : input[j].kind \in K}
           Greatest(S) == CHOOSE j \in S : \A k \in S : k <= j
<1>1. Len(input) \in Nat /\ DOMAIN input = 1..Len(input) /\ n \in Nat /\ 1 <= n
  BY InputFacts
<1>2. \A i : LastBefore(i, K) = IF before(i) = {} THEN 0 ELSE Greatest(before(i))
  BY DEF LastBefore
<1>3. 1..(n + 1) - 1 = (1..n - 1) \cup {n}
  BY <1>1
<1>4. CASE input[n].kind \in K
  <2>1. n \in before(n + 1) /\ \A k \in before(n + 1) : k \in Nat /\ k <= n
    BY <1>1, <1>4
  <2>2. Greatest(before(n + 1)) = n
    <3> DEFINE S == before(n + 1)
    <3>1. n \in S /\ \A k \in S : k \in Nat /\ k <= n
      BY <2>1
    <3>2. \A j \in S : (\A k \in S : k <= j) => j = n
      <4> HIDE DEF S
      <4> QED
        BY <1>1, <3>1
    <3>3. (CHOOSE j \in S : \A k \in S : k <= j) = n
      <4> HIDE DEF S
      <4> QED
        BY <3>1, <3>2
    <3> QED
      BY <3>3
  <2>3. before(n + 1) # {}
    BY <2>1
  <2> HIDE DEF before, Greatest
  <2> QED
    BY <1>2, <1>4, <2>2, <2>3
<1>5. CASE input[n].kind \notin K
  <2>1. before(n + 1) = before(n)
    BY <1>3, <1>5
  <2> HIDE DEF before, Greatest
  <2> QED
    BY <1>2, <1>5, <2>1
<1> QED
  BY <1>4, <1>5

\* The numbers of the table and of the range after a record.
LEMMA NumberStep ==
  ASSUME input \in Inputs, NEW n \in DOMAIN input
  PROVE  /\ TrueTable(n + 1) = IF input[n].kind = "table" THEN input[n].n ELSE TrueTable(n)
         /\ \A kind \in {"rowIndex", "rangeIndex"} :
              TrueIndex(n + 1, kind) = IF input[n].kind = "table" THEN None
                                       ELSE IF input[n].kind = kind THEN input[n].n
                                       ELSE TrueIndex(n, kind)
<1>1. n \in Nat /\ n # 0
  BY InputFacts
<1>2. TrueTable(n + 1) = IF input[n].kind = "table" THEN input[n].n ELSE TrueTable(n)
  BY <1>1, LastBeforeStep DEF TrueTable
<1>3. ASSUME NEW kind \in {"rowIndex", "rangeIndex"}
      PROVE  TrueIndex(n + 1, kind) = IF input[n].kind = "table" THEN None
                                      ELSE IF input[n].kind = kind THEN input[n].n
                                      ELSE TrueIndex(n, kind)
  <2>1. LastBefore(n + 1, {"table", kind}) = IF input[n].kind \in {"table", kind} THEN n
                                             ELSE LastBefore(n, {"table", kind})
    BY LastBeforeStep
  <2> QED
    BY <1>1, <2>1 DEF TrueIndex
<1> QED
  BY <1>2, <1>3

\* The rows between two places, and one more.
LEMMA RowsBetweenStep ==
  ASSUME input \in Inputs, NEW n \in DOMAIN input, NEW j \in 0..n
  PROVE  /\ RowsBetween(j, n) \in Nat
         /\ RowsBetween(n, n + 1) = 0
         /\ j < n => RowsBetween(j, n + 1) =
              IF input[n].kind \in Rows THEN RowsBetween(j, n) + 1 ELSE RowsBetween(j, n)
<1> DEFINE S == {k \in j + 1..n - 1 : input[k].kind \in Rows}
           T == {k \in j + 1..(n + 1) - 1 : input[k].kind \in Rows}
<1>1. n \in Nat /\ j \in Nat /\ j <= n
  BY InputFacts
<1>2. IsFiniteSet(S)
  <2>1. IsFiniteSet(j + 1..n - 1)
    BY <1>1, FS_Interval
  <2>2. S \subseteq j + 1..n - 1
    OBVIOUS
  <2> HIDE DEF S
  <2> QED
    BY <2>1, <2>2, FS_Subset
<1>3. RowsBetween(j, n) = Cardinality(S) /\ Cardinality(S) \in Nat
  BY <1>2, FS_CardinalityType DEF RowsBetween
<1>4. RowsBetween(n, n + 1) = 0
  <2>1. {k \in n + 1..(n + 1) - 1 : input[k].kind \in Rows} = {}
    BY <1>1
  <2> QED
    BY <2>1, FS_EmptySet DEF RowsBetween
<1>5. ASSUME j < n
      PROVE  RowsBetween(j, n + 1) =
               IF input[n].kind \in Rows THEN RowsBetween(j, n) + 1 ELSE RowsBetween(j, n)
  <2>1. j + 1..(n + 1) - 1 = (j + 1..n - 1) \cup {n} /\ n \notin j + 1..n - 1
    BY <1>1, <1>5
  <2>2. T = (IF input[n].kind \in Rows THEN S \cup {n} ELSE S) /\ n \notin S
    BY <2>1
  <2>3. RowsBetween(j, n + 1) = Cardinality(T)
    BY DEF RowsBetween
  <2> HIDE DEF S, T
  <2> QED
    BY <1>2, <1>3, <2>2, <2>3, FS_AddElement
<1> QED
  BY <1>3, <1>4, <1>5

\* The number of the row after a record.
LEMMA RowNumberStep ==
  ASSUME input \in Inputs, NEW n \in DOMAIN input
  PROVE  /\ TrueRowIndex(n) \in Nat \cup {None}
         /\ TrueRowIndex(n + 1) =
              IF input[n].kind = "table" THEN None
              ELSE IF input[n].kind = "rowIndex" THEN input[n].n
              ELSE IF input[n].kind \in Rows /\ TrueRowIndex(n) # None THEN TrueRowIndex(n) + 1
              ELSE TrueRowIndex(n)
<1> DEFINE K == {"table", "rowIndex"}
           j == LastBefore(n, K)
<1>1. n \in Nat /\ n # 0 /\ n \in 1..Len(input) + 1 /\ input[n].n \in Nat /\ None \notin Nat
  BY InputFacts, SizesAssumption
<1>2. j \in 0..n - 1 /\ (j # 0 => j \in DOMAIN input /\ input[j].n \in Nat /\ input[j].kind \in K)
  <2> HIDE DEF K
  <2> QED
    BY <1>1, LastBeforeFacts, InputFacts
<1>3. LastBefore(n + 1, K) = IF input[n].kind \in K THEN n ELSE j
  <2> HIDE DEF K
  <2> QED
    BY LastBeforeStep
<1>4. j \in 0..n /\ j < n /\ n \in 0..n
  BY <1>1, <1>2
<1>5. /\ RowsBetween(j, n) \in Nat /\ RowsBetween(n, n + 1) = 0
      /\ RowsBetween(j, n + 1) =
              IF input[n].kind \in Rows THEN RowsBetween(j, n) + 1 ELSE RowsBetween(j, n)
  <2> HIDE DEF j, K
  <2> QED
    BY <1>4, RowsBetweenStep
<1>6. /\ TrueRowIndex(n) = IF TrueIndex(n, "rowIndex") = None THEN None
                           ELSE input[j].n + RowsBetween(j, n)
      /\ TrueIndex(n, "rowIndex") = IF j = 0 \/ input[j].kind = "table" THEN None ELSE input[j].n
  BY DEF TrueRowIndex, TrueIndex
<1>7. TrueRowIndex(n + 1) =
        IF TrueIndex(n + 1, "rowIndex") = None THEN None
        ELSE input[LastBefore(n + 1, K)].n + RowsBetween(LastBefore(n + 1, K), n + 1)
  BY DEF TrueRowIndex
<1>8. TrueIndex(n + 1, "rowIndex") = IF input[n].kind = "table" THEN None
                                     ELSE IF input[n].kind = "rowIndex" THEN input[n].n
                                     ELSE TrueIndex(n, "rowIndex")
  BY NumberStep
<1> HIDE DEF j
<1>9. TrueRowIndex(n) \in Nat \cup {None}
  BY <1>1, <1>2, <1>5, <1>6
<1>10. CASE input[n].kind = "table"
  BY <1>7, <1>8, <1>9, <1>10
<1>11. CASE input[n].kind = "rowIndex"
  BY <1>1, <1>3, <1>5, <1>7, <1>8, <1>9, <1>11
<1>12. CASE input[n].kind \notin K
  <2>1. LastBefore(n + 1, K) = j /\ TrueIndex(n + 1, "rowIndex") = TrueIndex(n, "rowIndex")
    BY <1>3, <1>8, <1>12
  <2>2. CASE TrueIndex(n, "rowIndex") = None
    BY <1>6, <1>7, <1>9, <1>12, <2>1, <2>2
  <2>3. CASE TrueIndex(n, "rowIndex") # None
    <3>1. input[j].n \in Nat
      BY <1>2, <1>6, <2>3
    <3>2. /\ TrueRowIndex(n) = input[j].n + RowsBetween(j, n)
          /\ TrueRowIndex(n + 1) = input[j].n + RowsBetween(j, n + 1)
      BY <1>6, <1>7, <2>1, <2>3
    <3>3. TrueRowIndex(n) \in Nat /\ TrueRowIndex(n) # None
      BY <1>1, <1>5, <3>1, <3>2
    <3>4. TrueRowIndex(n + 1) = IF input[n].kind \in Rows THEN TrueRowIndex(n) + 1 ELSE TrueRowIndex(n)
      <4> HIDE DEF K
      <4> QED
        BY <1>5, <3>1, <3>2
    <3> QED
      BY <1>9, <1>12, <3>3, <3>4
  <2> QED
    BY <2>2, <2>3
<1> QED
  <2>1. "table" \notin Rows /\ "rowIndex" \notin Rows
    BY DEF Rows
  <2> HIDE DEF K
  <2>2. input[n].kind \in K => input[n].kind = "table" \/ input[n].kind = "rowIndex"
    BY DEF K
  <2> QED
    BY <1>9, <1>10, <1>11, <1>12, <2>1, <2>2

-----------------------------------------------------------------------------
(***************************************************************************)
(* The steps of the reader.                                                *)
(***************************************************************************)
\* What is said of the stream stays true of it.
LEMMA SameStream ==
  ASSUME input' = input
  PROVE  /\ \A i : TrueTable(i)' = TrueTable(i)
         /\ \A i, kind : TrueIndex(i, kind)' = TrueIndex(i, kind)
         /\ \A i : TrueRowIndex(i)' = TrueRowIndex(i)
         /\ \A i : SwitchesBefore(i)' = SwitchesBefore(i)
         /\ \A i, K : LastBefore(i, K)' = LastBefore(i, K)
         /\ \A i, o : Before(i, o)' = Before(i, o)
<1>1. \A i, K : LastBefore(i, K)' = LastBefore(i, K)
  BY DEF LastBefore
<1>2. \A i, j : RowsBetween(i, j)' = RowsBetween(i, j)
  BY DEF RowsBetween
<1>3. \A i : TrueTable(i)' = TrueTable(i)
  BY <1>1 DEF TrueTable
<1>4. \A i, kind : TrueIndex(i, kind)' = TrueIndex(i, kind)
  BY <1>1 DEF TrueIndex
<1>5. \A i : TrueRowIndex(i)' = TrueRowIndex(i)
  BY <1>1, <1>2, <1>4 DEF TrueRowIndex
<1>6. \A i : SwitchesBefore(i)' = SwitchesBefore(i)
  BY DEF SwitchesBefore
<1>7. \A i, o : Before(i, o)' = Before(i, o)
  BY DEF Before, Place, EndOf
<1> QED
  BY <1>1, <1>3, <1>4, <1>5, <1>6, <1>7

\* Between two calls, and where a call refuses a record or ends, the reader stays
\* before the same record, past the separator at most.
LEMMA StandStill ==
  ASSUME NEW n \in 1..Len(input) + 1, ReaderAt(n), pos' \in {pos, Start}, pos' = pos \/ pending = None,
         pending' = pending, UNCHANGED <<streamVars, buf, capacity, base, inputDone, indexVars, passed>>
  PROVE  ReaderAt(n)'
<1>1. StreamTypes'
  BY DEF ReaderAt, StreamTypes, streamVars
<1>2. Window' /\ Before(n, base + pos')
  <2>1. Start \in pos..Len(buf) /\ Before(n, base + Start)
    BY StartIs DEF ReaderAt, Stands
  <2> QED
    BY <2>1 DEF ReaderAt, Window, Stands, streamVars
<1>3. Before(n, base + pos)'
  BY <1>2, SameStream DEF streamVars
<1>4. LinedUp(n)' /\ Consumed(n)'
  BY DEF ReaderAt, Stands, LinedUp, Consumed, streamVars
<1>5. IndicesTrue(n)'
  BY SameStream DEF ReaderAt, Stands, IndicesTrue, streamVars, indexVars
<1> QED
  BY <1>1, <1>2, <1>3, <1>4, <1>5 DEF ReaderAt, Stands

\* A record that is not for the job is applied and passed.
LEMMA ControlStep ==
  ASSUME NEW n \in 1..Len(input) + 1, ReaderAt(n), ApplyControl
  PROVE  n \in DOMAIN input /\ input[n].kind \notin Data /\ ReaderAt(n + 1)'
<1>1. /\ Start < Len(buf) /\ Start + Record.len <= Len(buf)
      /\ Record.kind \in {"table", "rowIndex", "rangeIndex", "skip"}
      /\ pos' = Start + Record.len /\ pending = None /\ pending' = None
      /\ UNCHANGED <<input, limit, bytesTaken, buf, capacity, base, inputDone, passed>>
  BY DEF ApplyControl, Scans, streamVars
<1>2. /\ Start \in pos..Len(buf) /\ n \in DOMAIN input /\ base + Start = input[n].at
      /\ Record = input[n] /\ RecordPlace = n
  BY <1>1, StartIs DEF ReaderAt, Stands
<1>3. input \in Inputs /\ base \in Nat /\ pos \in Nat /\ Len(buf) \in Nat
  BY DEF ReaderAt, StreamTypes, Window
<1>4. /\ n \in Nat /\ input[n].len \in Nat /\ input[n].at \in Nat /\ EndOf(n) \in Nat
      /\ EndOf(n) = input[n].at + input[n].len /\ n \in 1..Len(input)
      /\ n + 1 \in 1..Len(input) + 1 /\ Place(n + 1) = EndOf(n) + 1
  <2>1. n \in Nat /\ input[n].len \in Nat /\ input[n].at \in Nat
    BY <1>2, <1>3, InputFacts
  <2>2. EndOf(n) = input[n].at + input[n].len
    BY DEF EndOf
  <2>3. n \in 1..Len(input) /\ n + 1 \in 1..Len(input) + 1 /\ Place(n + 1) = EndOf(n) + 1
    BY <1>2, <1>3, PlaceFacts
  <2> QED
    BY <2>1, <2>2, <2>3
<1>5. input[n].kind \notin Data
  BY <1>1, <1>2 DEF Data, Rows
<1>6. StreamTypes'
  BY <1>1 DEF ReaderAt, StreamTypes
<1>7. Window' /\ base + pos' = EndOf(n)
  <2>1. pos' \in 0..Len(buf) /\ base + pos' = EndOf(n)
    <3>1. pos' = Start + input[n].len /\ Start + input[n].len <= Len(buf)
      BY <1>1, <1>2
    <3>2. Start \in Nat /\ base + Start = input[n].at
      BY <1>2, <1>3
    <3>3. input[n].len \in Nat /\ EndOf(n) = input[n].at + input[n].len
      BY <1>4
    <3>4. ASSUME NEW x \in Nat, NEW y \in Nat, NEW z \in Nat, NEW w \in Nat, y + z <= w
          PROVE  y + z \in 0..w /\ x + (y + z) = (x + y) + z
      BY <3>4
    <3> QED
      BY <1>3, <3>1, <3>2, <3>3, <3>4
  <2> QED
    BY <1>1, <2>1 DEF ReaderAt, Window
<1>8. Before(n + 1, base + pos)'
  <2>1. Before(n + 1, base + pos')
    BY <1>4, <1>7 DEF Before
  <2> QED
    BY <1>1, <2>1, SameStream
<1>9. LinedUp(n + 1)'
  BY <1>1 DEF LinedUp
<1>10. Consumed(n + 1)'
  <2>1. passed \in 0..n - 1 /\ \A i \in 1..n - 1 : input[i].kind \in Data => i <= passed
    BY DEF ReaderAt, Stands, Consumed
  <2>2. passed \in 0..(n + 1) - 1 /\ \A i \in 1..(n + 1) - 1 : i = n \/ i \in 1..n - 1
    BY <1>4, <2>1
  <2> QED
    BY <1>1, <1>5, <2>1, <2>2 DEF Consumed
<1>11. IndicesTrue(n + 1)'
  <2>1. tableIndex = TrueTable(n) /\ rangeIndex = TrueIndex(n, "rangeIndex") /\ rowIndex = TrueRowIndex(n)
    BY DEF ReaderAt, Stands, IndicesTrue
  <2>2. /\ tableIndex' = IF input[n].kind = "table" THEN input[n].n ELSE tableIndex
        /\ rowIndex' = IF input[n].kind = "table" THEN None
                       ELSE IF input[n].kind = "rowIndex" THEN input[n].n ELSE rowIndex
        /\ rangeIndex' = IF input[n].kind = "table" THEN None
                         ELSE IF input[n].kind = "rangeIndex" THEN input[n].n ELSE rangeIndex
    <3>1. Record.kind = input[n].kind /\ Record.n = input[n].n
      BY <1>2
    <3>2. CASE Record.kind = "table"
      BY <3>1, <3>2 DEF ApplyControl
    <3>3. CASE Record.kind = "rowIndex"
      BY <3>1, <3>3 DEF ApplyControl
    <3>4. CASE Record.kind = "rangeIndex"
      BY <3>1, <3>4 DEF ApplyControl
    <3>5. CASE Record.kind = "skip"
      BY <3>1, <3>5 DEF ApplyControl, indexVars
    <3> QED
      BY <1>1, <3>2, <3>3, <3>4, <3>5
  <2>3. tableIndex' = TrueTable(n + 1) /\ rangeIndex' = TrueIndex(n + 1, "rangeIndex")
    BY <1>2, <1>3, <2>1, <2>2, NumberStep
  <2>4. rowIndex' = TrueRowIndex(n + 1)
    <3>1. input[n].kind \notin Rows
      BY <1>5 DEF Data
    <3> QED
      BY <1>2, <1>3, <2>1, <2>2, <3>1, RowNumberStep
  <2> QED
    BY <1>1, <2>3, <2>4, SameStream DEF IndicesTrue
<1> QED
  BY <1>2, <1>5, <1>6, <1>7, <1>8, <1>9, <1>10, <1>11 DEF ReaderAt, Stands

\* A row or a switch is lined up whole and in its place.
LEMMA LineUpStep ==
  ASSUME NEW n \in 1..Len(input) + 1, ReaderAt(n), LineUp
  PROVE  n \in DOMAIN input /\ ReaderAt(n)'
<1>1. /\ Start < Len(buf) /\ Start + Record.len <= Len(buf) /\ Record.kind \in Data
      /\ pos' = Start /\ pending = None /\ pending' = [kind |-> Record.kind, len |-> Record.len]
      /\ UNCHANGED <<input, limit, bytesTaken, buf, capacity, base, inputDone, passed,
                     tableIndex, rowIndex, rangeIndex>>
  BY DEF LineUp, Scans, streamVars, indexVars
<1>2. /\ Start \in pos..Len(buf) /\ n \in DOMAIN input /\ base + Start = input[n].at
      /\ Record = input[n] /\ Before(n, base + Start)
  BY <1>1, StartIs DEF ReaderAt, Stands
<1>3. StreamTypes'
  BY <1>1 DEF ReaderAt, StreamTypes
<1>4. Window'
  BY <1>1, <1>2 DEF ReaderAt, Window
<1>5. Before(n, base + pos)'
  BY <1>1, <1>2, SameStream
<1>6. LinedUp(n)' /\ Consumed(n)'
  BY <1>1, <1>2 DEF ReaderAt, Stands, LinedUp, Consumed
<1>7. IndicesTrue(n)'
  BY <1>1, SameStream DEF ReaderAt, Stands, IndicesTrue
<1> QED
  BY <1>2, <1>3, <1>4, <1>5, <1>6, <1>7 DEF ReaderAt, Stands

\* What compaction keeps: the bytes from the record on.
LEMMA RestFacts ==
  ASSUME NEW n \in 1..Len(input) + 1, ReaderAt(n)
  PROVE  /\ Start \in Nat /\ base \in Nat /\ Len(Rest) \in Nat /\ Len(Rest) <= capacity
         /\ Start + Len(Rest) = Len(buf) /\ Start <= Len(buf)
         /\ Rest \in Seq(Nat)
         /\ \A k \in 1..Len(Rest) : Rest[k] = base + Start + k - 1
<1>1. Start \in pos..Len(buf)
  BY StartIs DEF ReaderAt, Stands
<1>2. /\ buf \in Seq(Nat) /\ base \in Nat /\ pos \in Nat /\ Len(buf) \in Nat
      /\ \A k \in 1..Len(buf) : buf[k] = base + k - 1
      /\ Len(buf) <= capacity /\ capacity \in Nat
  BY DEF ReaderAt, Window, StreamTypes
<1>3. Start \in Nat /\ Start <= Len(buf)
  BY <1>1, <1>2
<1>4. /\ Rest \in Seq(Nat) /\ Len(Rest) = Len(buf) - Start
      /\ \A k \in 1..Len(buf) - Start : Rest[k] = buf[Start + k]
  <2>1. /\ Start + 1 \in 1..Len(buf) + 1 /\ Len(buf) \in Start..Len(buf)
        /\ \A i \in (Start + 1)..Len(buf) : i \in 1..Len(buf)
    BY <1>2, <1>3
  <2>2. \A i \in (Start + 1)..Len(buf) : buf[i] \in Nat
    BY <1>2, <2>1
  <2> QED
    BY <1>2, <1>3, <2>1, <2>2 DEF Rest
<1>5. ASSUME NEW k \in 1..Len(Rest) PROVE Rest[k] = base + Start + k - 1
  <2>1. k \in 1..Len(buf) - Start /\ Start + k \in 1..Len(buf)
    BY <1>2, <1>3, <1>4
  <2> QED
    BY <1>2, <1>3, <1>4, <2>1
<1> QED
  BY <1>2, <1>3, <1>4, <1>5

\* After growing there is room, within the limits of both sizes.
LEMMA GrownFacts ==
  ASSUME NEW n \in 1..Len(input) + 1, ReaderAt(n), ~TooLarge
  PROVE  /\ Grown \in Nat \ {0} /\ Len(Rest) < Grown /\ capacity <= Grown
         /\ Grown = capacity \/ Grown <= MaxRecord
<1>1. capacity \in Nat \ {0} /\ Len(Rest) \in Nat /\ Len(Rest) <= capacity /\ MaxRecord \in Nat
  BY RestFacts, SizesAssumption DEF ReaderAt, StreamTypes
<1> QED
  BY <1>1 DEF Grown, TooLarge

\* Compaction and a read keep the window on the stream.
LEMMA FillStep ==
  ASSUME NEW n \in 1..Len(input) + 1, ReaderAt(n), NEW m \in Nat,
         pending = None, pending' = None, base' = base + Start, pos' = 0,
         buf' \in Seq(Nat), Len(buf') = Len(Rest) + m,
         \A k \in 1..Len(buf') : buf'[k] = base + Start + k - 1,
         bytesTaken' = bytesTaken + m, bytesTaken' <= limit,
         capacity' \in Nat \ {0}, Len(buf') <= capacity',
         inputDone' \in BOOLEAN, inputDone' => bytesTaken' = limit,
         UNCHANGED <<input, limit, tableIndex, rowIndex, rangeIndex, passed>>
  PROVE  ReaderAt(n)' /\ base' + pos' = base + Start
<1>1. /\ Start \in Nat /\ base \in Nat /\ Len(Rest) \in Nat /\ Start + Len(Rest) = Len(buf)
  BY RestFacts
<1>2. /\ base + Len(buf) = bytesTaken /\ bytesTaken \in Nat /\ limit \in Nat
      /\ Before(n, base + Start)
  <2>1. limit \in 0..StreamEnd(input) /\ bytesTaken \in 0..limit
    BY DEF ReaderAt, StreamTypes
  <2> QED
    BY <2>1, StartIs DEF ReaderAt, StreamTypes, Stands, Window
<1>3. StreamTypes'
  <2>1. bytesTaken' \in 0..limit
    BY <1>2
  <2> QED
    BY <2>1 DEF ReaderAt, StreamTypes
<1>4. base' + pos' = base + Start
  BY <1>1
<1>5. Window'
  <2>1. base' \in Nat /\ pos' \in 0..Len(buf') /\ base' + Len(buf') = bytesTaken'
    <3>1. Len(buf') \in Nat /\ base' \in Nat
      BY <1>1
    <3>2. ASSUME NEW a \in Nat, NEW b \in Nat, NEW c \in Nat
          PROVE  (a + b) + (c + m) = (a + (b + c)) + m
      OBVIOUS
    <3>3. base' + Len(buf') = (base + (Start + Len(Rest))) + m
      BY <1>1, <3>2
    <3>4. pos' \in 0..Len(buf')
      BY <3>1
    <3> QED
      BY <1>1, <1>2, <3>1, <3>3, <3>4
  <2> QED
    BY <2>1 DEF Window
<1>6. Before(n, base + pos)'
  BY <1>2, <1>4, SameStream
<1>7. LinedUp(n)' /\ Consumed(n)'
  BY DEF ReaderAt, Stands, LinedUp, Consumed
<1>8. IndicesTrue(n)'
  BY SameStream DEF ReaderAt, Stands, IndicesTrue
<1> QED
  BY <1>3, <1>4, <1>5, <1>6, <1>7, <1>8 DEF ReaderAt, Stands

\* A read that fails, and a record that is too large, only compact.
LEMMA CompactStep ==
  ASSUME NEW n \in 1..Len(input) + 1, ReaderAt(n), ~inputDone, pending = None, pending' = None,
         base' = base + Start, pos' = 0, buf' = Rest, capacity' = capacity \/ (~TooLarge /\ capacity' = Grown),
         UNCHANGED <<streamVars, inputDone, indexVars, passed>>
  PROVE  ReaderAt(n)' /\ base' + pos' = base + Start
<1>1. /\ Rest \in Seq(Nat) /\ Len(Rest) \in Nat /\ Len(Rest) <= capacity /\ capacity \in Nat \ {0}
      /\ \A k \in 1..Len(Rest) : Rest[k] = base + Start + k - 1
  BY RestFacts DEF ReaderAt, StreamTypes
<1>2. capacity' \in Nat \ {0} /\ Len(Rest) <= capacity'
  BY <1>1, GrownFacts
<1>3. bytesTaken \in Nat /\ limit \in Nat /\ bytesTaken <= limit
  <2>1. limit \in 0..StreamEnd(input) /\ bytesTaken \in 0..limit
    BY DEF ReaderAt, StreamTypes
  <2> QED
    BY <2>1
<1>4. /\ Len(buf') = Len(Rest) + 0 /\ bytesTaken' = bytesTaken + 0 /\ 0 \in Nat
      /\ bytesTaken' <= limit /\ Len(buf') <= capacity'
      /\ UNCHANGED <<input, limit, tableIndex, rowIndex, rangeIndex, passed>>
  BY <1>1, <1>2, <1>3 DEF streamVars, indexVars
<1>5. /\ buf' \in Seq(Nat) /\ inputDone' \in BOOLEAN /\ (inputDone' => bytesTaken' = limit)
      /\ \A k \in 1..Len(buf') : buf'[k] = base + Start + k - 1
  BY <1>1 DEF ReaderAt, StreamTypes
<1> QED
  BY <1>2, <1>4, <1>5, FillStep

\* A read adds the bytes that follow.
LEMMA ReadStep ==
  ASSUME NEW n \in 1..Len(input) + 1, ReaderAt(n), NEW m \in 0..limit, Fill(m)
  PROVE  ReaderAt(n)' /\ base' + pos' = base + Start
<1>1. /\ Rest \in Seq(Nat) /\ Len(Rest) \in Nat /\ base \in Nat /\ Start \in Nat
      /\ Start + Len(Rest) = Len(buf)
      /\ \A k \in 1..Len(Rest) : Rest[k] = base + Start + k - 1
  BY RestFacts
<1>2. bytesTaken \in Nat /\ limit \in Nat /\ m \in Nat /\ base + Len(buf) = bytesTaken
  <2>1. limit \in 0..StreamEnd(input) /\ bytesTaken \in 0..limit
    BY DEF ReaderAt, StreamTypes
  <2> QED
    BY <2>1 DEF ReaderAt, Window
<1>3. Grown \in Nat \ {0} /\ Len(Rest) < Grown
  BY GrownFacts DEF Fill
<1> DEFINE more == [i \in 1..m |-> bytesTaken + i - 1]
<1>4. more \in Seq(Nat) /\ Len(more) = m /\ \A i \in 1..m : more[i] = bytesTaken + i - 1
  <2>1. \A i \in 1..m : bytesTaken + i - 1 \in Nat
    BY <1>2
  <2> QED
    BY <1>2, <2>1
<1>5. /\ pending = None /\ pending' = None /\ ~inputDone /\ base' = base + Start /\ pos' = 0
      /\ capacity' = Grown /\ buf' = Rest \o more /\ bytesTaken' = bytesTaken + m
      /\ (m = 0 <=> bytesTaken = limit \/ Len(Rest) = Grown)
      /\ Len(Rest) + m <= Grown /\ bytesTaken + m <= limit /\ inputDone' = (m = 0)
      /\ UNCHANGED <<input, limit, tableIndex, rowIndex, rangeIndex, passed>>
  BY DEF Fill, Filling, Compact, indexVars
<1>6. buf' \in Seq(Nat) /\ Len(buf') = Len(Rest) + m
  <2>1. Rest \in Seq(Nat) /\ more \in Seq(Nat) /\ Len(more) = m /\ buf' = Rest \o more
    BY <1>1, <1>4, <1>5
  <2> HIDE DEF more
  <2>2. Rest \o more \in Seq(Nat) /\ Len(Rest \o more) = Len(Rest) + Len(more)
    BY <2>1, ConcatProperties
  <2> QED
    BY <2>1, <2>2
<1>7. ASSUME NEW k \in 1..Len(buf') PROVE buf'[k] = base + Start + k - 1
  <2>1. k \in Nat /\ 1 <= k /\ k <= Len(Rest) + m
    BY <1>1, <1>2, <1>6
  <2>2. CASE k <= Len(Rest)
    <3>1. k \in 1..Len(Rest)
      BY <1>1, <2>1, <2>2
    <3>2. buf'[k] = Rest[k]
      <4> HIDE DEF more
      <4> QED
        BY <1>1, <1>4, <1>5, <3>1
    <3> QED
      BY <1>1, <3>1, <3>2
  <2>3. CASE k > Len(Rest)
    <3>1. k - Len(Rest) \in 1..m /\ k \in 1..Len(Rest) + m
      BY <1>1, <1>2, <2>1, <2>3
    <3>2. buf'[k] = more[k - Len(Rest)]
      <4> HIDE DEF more
      <4> QED
        BY <1>1, <1>4, <1>5, <2>3, <3>1
    <3>3. more[k - Len(Rest)] = bytesTaken + (k - Len(Rest)) - 1
      BY <1>4, <3>1
    <3> QED
      BY <1>1, <1>2, <2>1, <3>2, <3>3
  <2> QED
    BY <1>1, <2>1, <2>2, <2>3
<1>8. inputDone' \in BOOLEAN /\ (inputDone' => bytesTaken' = limit)
  <2>1. m = 0 => bytesTaken = limit
    BY <1>1, <1>3, <1>5
  <2>2. m = 0 => bytesTaken' = limit
    BY <1>2, <1>5, <2>1
  <2>3. inputDone' = (m = 0)
    BY <1>5
  <2> QED
    BY <2>2, <2>3
<1>9. bytesTaken' <= limit /\ capacity' \in Nat \ {0} /\ Len(buf') <= capacity'
  BY <1>3, <1>5, <1>6
<1> HIDE DEF more
<1> QED
  BY <1>2, <1>5, <1>6, <1>7, <1>8, <1>9, FillStep

\* What is lined up: the n-th record.
LEMMA PendingIs ==
  ASSUME NEW n \in 1..Len(input) + 1, ReaderAt(n), pending # None
  PROVE  /\ n \in DOMAIN input /\ input[n].kind \in Data /\ RecordPlace = n
         /\ base + pos = input[n].at /\ pos + input[n].len <= Len(buf)
         /\ pending.kind = input[n].kind /\ pending.len = input[n].len
<1>1. /\ n \in DOMAIN input /\ input[n].kind \in Data
      /\ base + pos = input[n].at /\ pos + input[n].len <= Len(buf)
      /\ pending.kind = input[n].kind /\ pending.len = input[n].len
  BY DEF ReaderAt, Stands, LinedUp
<1>2. input \in Inputs /\ pos \in Nat /\ Len(buf) \in Nat
  BY DEF ReaderAt, StreamTypes, Window
<1>3. input[n].at = Place(n) /\ input[n].len \in Nat \ {0}
  BY <1>1, <1>2, InputFacts
<1>4. Start = pos /\ pos < Len(buf)
  BY <1>1, <1>2, <1>3, StartIs DEF ReaderAt, Stands
<1> QED
  BY <1>1, <1>4, StartIs DEF ReaderAt, Stands

\* What is lined up is consumed, once.
LEMMA ConsumeStep ==
  ASSUME NEW n \in 1..Len(input) + 1, ReaderAt(n), pending # None, Consume,
         UNCHANGED <<streamVars, buf, capacity, base, inputDone, tableIndex, rangeIndex>>
  PROVE  n \in DOMAIN input /\ passed' = n /\ pending' = None /\ ReaderAt(n + 1)'
<1>1. /\ n \in DOMAIN input /\ input[n].kind \in Data /\ RecordPlace = n
      /\ base + pos = input[n].at /\ pos + input[n].len <= Len(buf)
      /\ pending.kind = input[n].kind /\ pending.len = input[n].len
  BY PendingIs
<1>2. /\ pos' = pos + input[n].len /\ pending' = None /\ passed' = n
      /\ rowIndex' = IF input[n].kind \in Rows /\ rowIndex # None THEN rowIndex + 1 ELSE rowIndex
      /\ UNCHANGED <<input, limit, bytesTaken, buf, capacity, base, inputDone, tableIndex, rangeIndex>>
  BY <1>1 DEF Consume, streamVars
<1>3. input \in Inputs /\ base \in Nat /\ pos \in Nat /\ Len(buf) \in Nat
  BY DEF ReaderAt, StreamTypes, Window
<1>4. /\ n \in Nat /\ input[n].len \in Nat /\ EndOf(n) = input[n].at + input[n].len /\ EndOf(n) \in Nat
      /\ n + 1 \in 1..Len(input) + 1 /\ Place(n + 1) = EndOf(n) + 1 /\ n > 0
  <2>1. n \in Nat /\ n > 0
    BY <1>1, <1>3, InputFacts
  <2>2. n + 1 \in 1..Len(input) + 1 /\ Place(n + 1) = EndOf(n) + 1
    BY <1>1, <1>3, PlaceFacts
  <2> QED
    BY <1>1, <1>3, <2>1, <2>2, InputFacts DEF EndOf
<1>5. StreamTypes'
  BY <1>2 DEF ReaderAt, StreamTypes
<1>6. pos' \in 0..Len(buf) /\ base + pos' = EndOf(n)
  <2>1. ASSUME NEW x \in Nat, NEW y \in Nat, NEW z \in Nat, NEW w \in Nat, y + z <= w
        PROVE  y + z \in 0..w /\ x + (y + z) = (x + y) + z
    BY <2>1
  <2>2. PICK x, y, z, w \in Nat : x = base /\ y = pos /\ z = input[n].len /\ w = Len(buf)
    BY <1>3, <1>4
  <2>3. pos' = y + z /\ y + z <= w /\ x + y = input[n].at /\ EndOf(n) = input[n].at + z
    BY <1>1, <1>2, <1>4, <2>2
  <2>4. y + z \in 0..w /\ x + (y + z) = (x + y) + z
    BY <2>1, <2>3
  <2> QED
    BY <2>2, <2>3, <2>4
<1>7. Window'
  BY <1>2, <1>6 DEF ReaderAt, Window
<1>8. Before(n + 1, base + pos)'
  <2>1. Before(n + 1, base + pos')
    BY <1>4, <1>6 DEF Before
  <2> QED
    BY <1>2, <2>1, SameStream
<1>9. LinedUp(n + 1)'
  BY <1>2 DEF LinedUp
<1>10. Consumed(n + 1)'
  <2>1. passed' \in 0..(n + 1) - 1 /\ \A i \in 1..(n + 1) - 1 : i <= passed'
    BY <1>2, <1>4
  <2> QED
    BY <2>1 DEF Consumed
<1>11. IndicesTrue(n + 1)'
  <2>1. tableIndex = TrueTable(n) /\ rangeIndex = TrueIndex(n, "rangeIndex") /\ rowIndex = TrueRowIndex(n)
    BY DEF ReaderAt, Stands, IndicesTrue
  <2>2. input[n].kind \notin {"table", "rowIndex", "rangeIndex"}
    BY <1>1 DEF Data, Rows
  <2>3. tableIndex' = TrueTable(n + 1) /\ rangeIndex' = TrueIndex(n + 1, "rangeIndex")
    BY <1>1, <1>2, <1>3, <2>1, <2>2, NumberStep
  <2>4. rowIndex' = TrueRowIndex(n + 1)
    BY <1>1, <1>2, <1>3, <2>1, <2>2, RowNumberStep
  <2> QED
    BY <1>2, <2>3, <2>4, SameStream DEF IndicesTrue
<1> QED
  BY <1>1, <1>2, <1>5, <1>7, <1>8, <1>9, <1>10, <1>11 DEF ReaderAt, Stands

\* A row as it should be handed out.
RowTrue(res, i) ==
  /\ input[i].kind \in Rows
  /\ res.bytes = [k \in 1..input[i].len |-> input[i].at + k - 1]
  /\ res.offset = input[i].at
  /\ res.table = TrueTable(i)
  /\ res.row = TrueRowIndex(i)
  /\ res.range = TrueIndex(i, "rangeIndex")

\* The row that is handed out is the one lined up.
LEMMA TheRowIs ==
  ASSUME NEW n \in 1..Len(input) + 1, ReaderAt(n), pending # None, pending.kind \in Rows
  PROVE  TheRow.is = "row" /\ RowTrue(TheRow, n)
<1>1. /\ n \in DOMAIN input /\ base + pos = input[n].at /\ pos + input[n].len <= Len(buf)
      /\ pending.kind = input[n].kind /\ pending.len = input[n].len
  BY PendingIs
<1>2. /\ base \in Nat /\ pos \in Nat /\ Len(buf) \in Nat /\ buf \in Seq(Nat)
      /\ \A k \in 1..Len(buf) : buf[k] = base + k - 1
  BY DEF ReaderAt, Window
<1>3. input[n].len \in Nat /\ input[n].at \in Nat
  BY <1>1, InputFacts DEF ReaderAt, StreamTypes
<1> DEFINE len == input[n].len
           bytes == SubSeq(buf, pos + 1, pos + len)
<1>4. bytes = [k \in 1..len |-> input[n].at + k - 1]
  <2>1. /\ \A i \in (pos + 1)..(pos + len) : i \in 1..Len(buf)
        /\ pos + 1 \in 1..Len(buf) + 1 /\ pos + len \in (pos + 1) - 1..Len(buf)
        /\ (pos + len) - (pos + 1) + 1 = len
    BY <1>1, <1>2, <1>3
  <2>2. Len(bytes) = len /\ bytes \in Seq(Nat) /\ \A k \in 1..len : bytes[k] = buf[pos + k]
    <3>1. \A i \in (pos + 1)..(pos + len) : buf[i] \in Nat
      <4>1. buf \in [1..Len(buf) -> Nat]
        BY <1>2, LenProperties
      <4>2. \A i \in (pos + 1)..(pos + len) : i \in 1..Len(buf)
        BY <2>1
      <4> QED
        BY <4>1, <4>2
    <3>2. pos + 1 \in Int /\ pos + len \in Int /\ len \in Nat
      BY <1>2, <1>3
    <3>3. /\ bytes \in Seq(Nat)
          /\ Len(bytes) = IF pos + 1 <= pos + len THEN (pos + len) - (pos + 1) + 1 ELSE 0
          /\ \A k \in 1..(pos + len) - (pos + 1) + 1 : bytes[k] = buf[(pos + 1) + k - 1]
      <4> HIDE DEF len
      <4> QED
        BY <3>1, <3>2, SubSeqProperties
    <3>4. \A k \in 1..len : (pos + 1) + k - 1 = pos + k
      BY <1>2, <3>2
    <3> HIDE DEF bytes, len
    <3> QED
      BY <1>2, <2>1, <3>2, <3>3, <3>4
  <2>3. ASSUME NEW k \in 1..len PROVE bytes[k] = input[n].at + k - 1
    <3>1. pos + k \in 1..Len(buf) /\ k \in Nat
      BY <1>1, <1>2, <1>3
    <3>2. buf[pos + k] = base + (pos + k) - 1
      BY <1>2, <3>1
    <3>3. base + (pos + k) - 1 = input[n].at + k - 1
      BY <1>1, <1>2, <1>3, <3>1
    <3> QED
      BY <2>2, <3>2, <3>3
  <2>4. bytes \in [1..len -> Nat]
    <3> HIDE DEF bytes, len
    <3> QED
      BY <2>2, LenProperties
  <2> HIDE DEF bytes, len
  <2> QED
    BY <2>3, <2>4
<1>5. /\ TheRow.is = "row" /\ TheRow.bytes = bytes /\ TheRow.offset = base + pos
      /\ TheRow.table = tableIndex /\ TheRow.row = rowIndex /\ TheRow.range = rangeIndex
  BY <1>1 DEF TheRow
<1>6. tableIndex = TrueTable(n) /\ rangeIndex = TrueIndex(n, "rangeIndex") /\ rowIndex = TrueRowIndex(n)
  BY DEF ReaderAt, Stands, IndicesTrue
<1> HIDE DEF bytes
<1> QED
  BY <1>1, <1>4, <1>5, <1>6 DEF RowTrue

-----------------------------------------------------------------------------
(***************************************************************************)
(* Rows are true, and the reader stops where it should.                    *)
(***************************************************************************)
\* The reader stands before a record, and what the last call returned is true.
ReaderInv ==
  /\ \E n \in 1..Len(input) + 1 : ReaderAt(n)
  /\ pc # "idle" => result = [is |-> "none"]
  /\ RowsAreTrue /\ EndIsReal /\ TooLargeIsTrue

CapacityFits == capacity <= (IF BufferBytes < MaxRecord THEN MaxRecord ELSE BufferBytes)

\* A call that hands out no row and reports no stop has nothing to be wrong about.
LEMMA Quiet ==
  ASSUME result'.is \notin {"row", "end", "truncated", "tooLarge"}, CapacityFits'
  PROVE  RowsAreTrue' /\ EndIsReal' /\ TooLargeIsTrue'
BY DEF RowsAreTrue, EndIsReal, TooLargeIsTrue, CapacityFits

\* Growing keeps the buffer within the larger of both sizes.
LEMMA CapacityStep ==
  ASSUME NEW n \in 1..Len(input) + 1, ReaderAt(n), CapacityFits,
         capacity' = capacity \/ (~TooLarge /\ capacity' = Grown)
  PROVE  CapacityFits'
<1>1. capacity \in Nat /\ MaxRecord \in Nat /\ BufferBytes \in Nat
  BY SizesAssumption DEF ReaderAt, StreamTypes
<1>2. ~TooLarge => Grown \in Nat /\ (Grown = capacity \/ Grown <= MaxRecord)
  BY GrownFacts
<1> QED
  BY <1>1, <1>2 DEF CapacityFits

\* The row that a call hands out is the one lined up.
LEMMA HandedOut ==
  ASSUME NEW n \in 1..Len(input) + 1, ReaderAt(n), pending # None, pending.kind \in Rows,
         input' = input, passed' = n, result' = TheRow, CapacityFits'
  PROVE  RowsAreTrue' /\ EndIsReal' /\ TooLargeIsTrue'
<1>1. TheRow.is = "row" /\ RowTrue(TheRow, n)
  BY TheRowIs
<1>2. RowTrue(TheRow, n) => LET r == input'[n] IN
      /\ r.kind \in Rows
      /\ result'.bytes = [i \in 1..r.len |-> r.at + i - 1]
      /\ result'.offset = r.at
      /\ result'.table = TrueTable(n)'
      /\ result'.row = TrueRowIndex(n)'
      /\ result'.range = TrueIndex(n, "rangeIndex")'
  BY SameStream DEF RowTrue
<1>3. RowsAreTrue'
  BY <1>1, <1>2 DEF RowsAreTrue
<1> QED
  BY <1>1, <1>3 DEF EndIsReal, TooLargeIsTrue, CapacityFits

\* At the end nothing whole is left; a record cut there is the n-th.
LEMMA EndHere ==
  ASSUME NEW n \in 1..Len(input) + 1, ReaderAt(n), AtEnd
  PROVE  /\ \A i \in DOMAIN input : WholeRecord(i) /\ input[i].kind \in Data => i <= passed
         /\ Start < Len(buf) <=> \E i \in DOMAIN input : input[i].at < limit /\ ~WholeRecord(i)
<1>1. /\ input \in Inputs /\ base \in Nat /\ Len(buf) \in Nat /\ base + Len(buf) = limit
      /\ Start \in Nat /\ Start <= Len(buf) /\ limit \in Nat
  <2>1. base \in Nat /\ Len(buf) \in Nat /\ base + Len(buf) = bytesTaken /\ bytesTaken = limit
    BY DEF ReaderAt, Window, AtEnd
  <2> QED
    BY <2>1, RestFacts DEF ReaderAt, StreamTypes
<1>2. /\ Before(n, base + Start)
      /\ Start < Len(buf) => n \in DOMAIN input /\ base + Start = input[n].at /\ Record = input[n]
  BY StartIs DEF ReaderAt, Stands
<1>3. /\ Place(n) \in Nat /\ (base + Start = Place(n) \/ base + Start = Place(n) - 1)
      /\ n \in Nat /\ DOMAIN input = 1..Len(input) /\ Len(input) \in Nat
  BY <1>1, <1>2, PlaceFacts, InputFacts DEF Before
<1>4. ASSUME NEW i \in DOMAIN input
      PROVE  /\ i \in Nat /\ input[i].at \in Nat /\ EndOf(i) \in Nat /\ input[i].at < EndOf(i)
             /\ WholeRecord(i) <=> EndOf(i) <= limit
             /\ i < n => EndOf(i) < Place(n)
             /\ n <= i => Place(n) <= input[i].at
  BY <1>1, <1>3, PlaceFacts, InputFacts DEF EndOf, WholeRecord
<1>5. ASSUME NEW i \in DOMAIN input, i < n PROVE EndOf(i) <= limit
  BY <1>1, <1>3, <1>4, <1>5
<1>6. ASSUME Start < Len(buf) PROVE EndOf(n) > limit /\ input[n].at < limit /\ n \in DOMAIN input
  <2>1. n \in DOMAIN input /\ base + Start = input[n].at /\ Record = input[n] /\ input[n].kind \in Kinds
        /\ input[n].len \in Nat
    BY <1>1, <1>2, <1>6, InputFacts
  <2>2. ~(Start + input[n].len <= Len(buf))
    BY <1>6, <2>1 DEF AtEnd, Incomplete, Scans
  <2>3. EndOf(n) = base + Start + input[n].len
    BY <2>1 DEF EndOf
  <2> QED
    BY <1>1, <1>6, <2>1, <2>2, <2>3
<1>7. ASSUME NEW i \in DOMAIN input, n <= i PROVE ~WholeRecord(i) /\ (input[i].at < limit => Start < Len(buf))
  <2>1. CASE Start < Len(buf)
    <3>1. CASE i = n
      BY <1>1, <1>4, <1>6, <2>1, <3>1
    <3>2. CASE i # n
      <4>1. n \in DOMAIN input /\ n < i
        BY <1>3, <1>4, <1>6, <1>7, <2>1, <3>2
      <4>2. EndOf(n) < input[i].at
        BY <1>1, <4>1, RecordsInOrder
      <4> QED
        BY <1>1, <1>4, <1>6, <2>1, <4>1, <4>2
    <3> QED
      BY <3>1, <3>2
  <2>2. CASE Start = Len(buf)
    BY <1>1, <1>3, <1>4, <1>7, <2>2
  <2> QED
    BY <1>1, <2>1, <2>2
<1>8. ASSUME NEW i \in DOMAIN input, WholeRecord(i), input[i].kind \in Data PROVE i <= passed
  <2>1. i \in 1..n - 1
    BY <1>3, <1>4, <1>7, <1>8
  <2> QED
    BY <1>8, <2>1 DEF ReaderAt, Stands, Consumed
<1>9. ASSUME NEW i \in DOMAIN input, input[i].at < limit, ~WholeRecord(i) PROVE Start < Len(buf)
  BY <1>3, <1>4, <1>5, <1>7, <1>9
<1>10. Start < Len(buf) => \E i \in DOMAIN input : input[i].at < limit /\ ~WholeRecord(i)
  BY <1>1, <1>4, <1>6
<1> QED
  BY <1>8, <1>9, <1>10

\* What Truncated and End report is where the stream stands.
LEMMA EndReported ==
  ASSUME NEW n \in 1..Len(input) + 1, ReaderAt(n), AtEnd, CapacityFits',
         UNCHANGED <<input, limit, passed>>,
         result' = IF Start < Len(buf) THEN [is |-> "truncated"] ELSE [is |-> "end"]
  PROVE  RowsAreTrue' /\ EndIsReal' /\ TooLargeIsTrue'
<1>1. /\ result'.is \in {"end", "truncated"} /\ (result'.is = "truncated" <=> Start < Len(buf))
  OBVIOUS
<1>2. RowsAreTrue' /\ TooLargeIsTrue'
  BY <1>1 DEF RowsAreTrue, TooLargeIsTrue, CapacityFits
<1>3. \A i : WholeRecord(i)' <=> WholeRecord(i)
  BY DEF WholeRecord
<1>4. EndIsReal'
  BY <1>1, <1>3, EndHere DEF EndIsReal
<1> QED
  BY <1>2, <1>4

\* A record refused for its size is larger than the limit.
LEMMA TooLargeHere ==
  ASSUME NEW n \in 1..Len(input) + 1, ReaderAt(n), CapacityFits, FillTooLarge
  PROVE  ReaderAt(n)' /\ RowsAreTrue' /\ EndIsReal' /\ TooLargeIsTrue'
<1>1. /\ pending = None /\ pending' = None /\ ~inputDone /\ Incomplete
      /\ Len(Rest) = capacity /\ capacity >= MaxRecord /\ base' = base + Start /\ pos' = 0
      /\ buf' = Rest /\ capacity' = capacity /\ result' = [is |-> "tooLarge"]
      /\ UNCHANGED <<streamVars, inputDone, indexVars, passed>> /\ UNCHANGED input
  BY DEF FillTooLarge, Filling, TooLarge, Compact, Returns, streamVars
<1>2. ReaderAt(n)' /\ base' + pos' = base + Start
  BY <1>1, CompactStep
<1>3. /\ capacity \in Nat \ {0} /\ MaxRecord \in Nat /\ Start \in Nat /\ Len(buf) \in Nat
      /\ Start + Len(Rest) = Len(buf) /\ input \in Inputs /\ Len(Rest) \in Nat
  BY RestFacts, SizesAssumption DEF ReaderAt, StreamTypes, Window
<1>4. Start < Len(buf)
  BY <1>1, <1>3
<1>5. n \in DOMAIN input /\ base + Start = input[n].at /\ Record = input[n]
  BY <1>4, StartIs DEF ReaderAt, Stands
<1>6. input[n].kind \in Kinds /\ input[n].len \in Nat
  BY <1>3, <1>5, InputFacts
<1>7. ~(Start + input[n].len <= Len(buf))
  BY <1>1, <1>4, <1>5, <1>6 DEF Incomplete, Scans
<1>8. input[n].len > MaxRecord
  BY <1>1, <1>3, <1>6, <1>7
<1>9. TooLargeIsTrue'
  <2>1. n \in DOMAIN input' /\ input'[n].at = base' + pos' /\ input'[n].len > MaxRecord
    BY <1>1, <1>2, <1>5, <1>8
  <2>2. CapacityFits'
    BY <1>1 DEF CapacityFits
  <2> QED
    BY <2>1, <2>2 DEF TooLargeIsTrue, CapacityFits
<1> QED
  BY <1>1, <1>2, <1>9 DEF RowsAreTrue, EndIsReal

\* A reader begins before the first record, with nothing read.
LEMMA ReaderAtInit ==
  ASSUME Init
  PROVE  1 \in 1..Len(input) + 1 /\ ReaderAt(1)
<1>1. input \in Inputs /\ Len(input) \in Nat
  BY InputFacts DEF Init
<1>2. 1 \in 1..Len(input) + 1
  BY <1>1
<1>3. \A K : LastBefore(1, K) = 0
  <2> SUFFICES ASSUME NEW K PROVE LastBefore(1, K) = 0
    OBVIOUS
  <2>1. LastBefore(1, K) \in 0..1 - 1
    BY <1>1, <1>2, LastBeforeFacts
  <2> QED
    BY <2>1
<1>4. IndicesTrue(1)
  BY <1>3 DEF Init, IndicesTrue, TrueTable, TrueIndex, TrueRowIndex
<1>5. Before(1, base + pos)
  BY <1>2 DEF Init, Before, Place
<1>6. LinedUp(1) /\ Consumed(1)
  BY DEF Init, LinedUp, Consumed
<1>7. StreamTypes
  <2>1. Len(input) + 1 \in 1..Len(input) + 1 /\ Len(input) + 1 \notin DOMAIN input
    BY <1>1, InputFacts
  <2>2. StreamEnd(input) \in Nat
    BY <1>1, <2>1, PlaceFacts
  <2>3. limit \in Nat /\ 0 \in 0..limit
    BY <2>2 DEF Init
  <2> QED
    BY <2>3, SizesAssumption DEF Init, StreamTypes
<1>8. Window
  BY SizesAssumption DEF Init, Window
<1> QED
  BY <1>2, <1>4, <1>5, <1>6, <1>7, <1>8 DEF ReaderAt, Stands

\* ReaderInv holds of a new reader.
LEMMA ReaderInvInit == Init => ReaderInv
<1> SUFFICES ASSUME Init PROVE ReaderInv
  OBVIOUS
<1>1. RowsAreTrue /\ EndIsReal
  BY DEF Init, RowsAreTrue, EndIsReal
<1>2. TooLargeIsTrue
  BY SizesAssumption DEF Init, TooLargeIsTrue
<1> QED
  BY <1>1, <1>2, ReaderAtInit DEF ReaderInv, Init

\* A call between whose steps nothing of the stream moves.
LEMMA CallStep ==
  ASSUME NEW n \in 1..Len(input) + 1, ReaderAt(n), CapacityFits,
         UNCHANGED <<streamVars, bufferVars, pending, indexVars, passed>>
  PROVE  n \in 1..Len(input') + 1 /\ ReaderAt(n)' /\ CapacityFits'
<1>1. UNCHANGED <<streamVars, buf, capacity, pos, base, inputDone, indexVars, passed, pending, input>>
  BY DEF bufferVars, streamVars
<1>2. ReaderAt(n)'
  BY <1>1, StandStill
<1> QED
  BY <1>1, <1>2 DEF CapacityFits

\* Every step of a call, and every read, keeps ReaderInv.
LEMMA ReaderInvStep == ReaderInv /\ [Next]_vars => ReaderInv'
<1> SUFFICES ASSUME ReaderInv, [Next]_vars PROVE ReaderInv'
  OBVIOUS
<1>0. PICK n \in 1..Len(input) + 1 : ReaderAt(n)
  BY DEF ReaderInv
<1>1. CapacityFits /\ (pc # "idle" => result = [is |-> "none"])
  BY DEF ReaderInv, TooLargeIsTrue, CapacityFits
<1>2. ASSUME ReaderAt(n)', input' = input, CapacityFits',
             result'.is \notin {"row", "end", "truncated", "tooLarge"},
             pc' # "idle" => result' = [is |-> "none"]
      PROVE  ReaderInv'
  BY <1>2, Quiet DEF ReaderInv
<1>3. ASSUME n \in DOMAIN input, ReaderAt(n + 1)', input' = input PROVE \E k \in 1..Len(input') + 1 : ReaderAt(k)'
  <2>1. n + 1 \in 1..Len(input') + 1
    BY <1>0, <1>3, PlaceFacts DEF ReaderAt, StreamTypes
  <2> QED
    BY <1>3, <2>1
<1>4. CASE NextEvent
  <2>1. /\ UNCHANGED <<streamVars, bufferVars, pending, indexVars, passed>> /\ input' = input
        /\ result' = [is |-> "none"]
    BY <1>4 DEF NextEvent, streamVars
  <2> QED
    BY <1>0, <1>1, <1>2, <2>1, CallStep
<1>5. CASE NextGroup
  <2>1. /\ UNCHANGED <<streamVars, bufferVars, pending, indexVars, passed>> /\ input' = input
        /\ result' = [is |-> "none"]
    BY <1>5 DEF NextGroup, streamVars
  <2> QED
    BY <1>0, <1>1, <1>2, <2>1, CallStep
<1>6. CASE NextRow
  <2>1. /\ UNCHANGED <<streamVars, bufferVars, pending, indexVars, passed>> /\ input' = input
        /\ \/ pc' = "idle" /\ result' = [is |-> "boundary"]
           \/ result' = [is |-> "none"]
    BY <1>6 DEF NextRow, Returns, streamVars
  <2>2. result'.is \notin {"row", "end", "truncated", "tooLarge"} /\ (pc' # "idle" => result' = [is |-> "none"])
    BY <2>1
  <2> QED
    BY <1>0, <1>1, <1>2, <2>1, <2>2, CallStep
<1>7. CASE ApplyControl
  <2>1. /\ pc # "idle" /\ capacity' = capacity /\ result' = result /\ pc' = pc /\ input' = input
    BY <1>7 DEF ApplyControl, streamVars
  <2>2. CapacityFits' /\ result' = [is |-> "none"]
    BY <1>1, <2>1 DEF CapacityFits
  <2>3. \E k \in 1..Len(input') + 1 : ReaderAt(k)'
    BY <1>0, <1>3, <1>7, <2>1, ControlStep
  <2> QED
    BY <2>2, <2>3, Quiet DEF ReaderInv
<1>8. CASE LineUp
  <2>1. /\ pc # "idle" /\ capacity' = capacity /\ result' = result /\ pc' = pc /\ input' = input
    BY <1>8 DEF LineUp, streamVars
  <2>2. CapacityFits' /\ result' = [is |-> "none"]
    BY <1>1, <2>1 DEF CapacityFits
  <2>3. ReaderAt(n)'
    BY <1>0, <1>8, LineUpStep
  <2> QED
    BY <1>2, <2>1, <2>2, <2>3
<1>9. CASE RefuseRecord
  <2>1. /\ pos' = Start /\ pending = None /\ pending' = pending /\ pc' = "idle"
        /\ UNCHANGED <<streamVars, buf, capacity, base, inputDone, indexVars, passed>> /\ input' = input
        /\ result'.is \in {"yson", "badControl"}
    BY <1>9 DEF RefuseRecord, Returns, streamVars
  <2>2. CapacityFits' /\ ReaderAt(n)'
    BY <1>0, <1>1, <2>1, StandStill DEF CapacityFits
  <2> QED
    BY <1>2, <2>1, <2>2
<1>10. CASE FillTooLarge
  <2>1. pc' = "idle" /\ input' = input
    BY <1>10 DEF FillTooLarge, Returns, streamVars
  <2> QED
    BY <1>0, <1>1, <1>10, <2>1, TooLargeHere DEF ReaderInv
<1>11. ASSUME NEW m \in 0..limit, Fill(m) PROVE ReaderInv'
  <2>1. pc # "idle" /\ pc' = pc /\ result' = result /\ input' = input /\ ~TooLarge /\ capacity' = Grown
    BY <1>11 DEF Fill, Filling
  <2>2. CapacityFits' /\ result' = [is |-> "none"]
    BY <1>0, <1>1, <2>1, CapacityStep
  <2>3. ReaderAt(n)'
    BY <1>0, <1>11, ReadStep
  <2> QED
    BY <1>2, <2>1, <2>2, <2>3
<1>12. CASE FillFails
  <2>1. /\ pending = None /\ pending' = None /\ ~inputDone /\ base' = base + Start /\ pos' = 0
        /\ buf' = Rest /\ ~TooLarge /\ capacity' = Grown /\ pc' = "idle" /\ result' = [is |-> "read"]
        /\ UNCHANGED <<streamVars, inputDone, indexVars, passed>> /\ input' = input
    BY <1>12 DEF FillFails, Filling, Compact, Returns, streamVars
  <2>2. CapacityFits' /\ ReaderAt(n)'
    BY <1>0, <1>1, <2>1, CapacityStep, CompactStep
  <2> QED
    BY <1>2, <2>1, <2>2
<1>13. CASE Truncated
  <2>1. /\ AtEnd /\ pos' = Start /\ pending = None /\ pending' = pending /\ pc' = "idle"
        /\ UNCHANGED <<streamVars, buf, capacity, base, inputDone, indexVars, passed>>
        /\ UNCHANGED <<input, limit, passed>>
        /\ result' = IF Start < Len(buf) THEN [is |-> "truncated"] ELSE [is |-> "end"]
    BY <1>13 DEF Truncated, AtEnd, Returns, streamVars
  <2>2. CapacityFits' /\ ReaderAt(n)'
    BY <1>0, <1>1, <2>1, StandStill DEF CapacityFits
  <2>3. RowsAreTrue' /\ EndIsReal' /\ TooLargeIsTrue'
    BY <1>0, <2>1, <2>2, EndReported
  <2> QED
    BY <2>1, <2>2, <2>3 DEF ReaderInv
<1>14. CASE End
  <2>1. /\ AtEnd /\ pos' = Start /\ pending = None /\ pending' = pending /\ pc' = "idle"
        /\ UNCHANGED <<streamVars, buf, capacity, base, inputDone, indexVars, passed>>
        /\ UNCHANGED <<input, limit, passed>> /\ Start = Len(buf) /\ result' = [is |-> "end"]
    BY <1>14 DEF End, AtEnd, Returns, streamVars
  <2>2. CapacityFits' /\ ReaderAt(n)'
    BY <1>0, <1>1, <2>1, StandStill DEF CapacityFits
  <2>3. result' = IF Start < Len(buf) THEN [is |-> "truncated"] ELSE [is |-> "end"]
    <3>1. Len(buf) \in Nat
      BY <1>0 DEF ReaderAt, Window
    <3> QED
      BY <2>1, <3>1
  <2>4. RowsAreTrue' /\ EndIsReal' /\ TooLargeIsTrue'
    BY <1>0, <2>1, <2>2, <2>3, EndReported
  <2> QED
    BY <2>1, <2>2, <2>4 DEF ReaderInv
<1>15. ASSUME pending # None, Consume,
              UNCHANGED <<streamVars, buf, capacity, base, inputDone, tableIndex, rangeIndex>>,
              \/ result'.is \notin {"row", "end", "truncated", "tooLarge"}
              \/ pending.kind \in Rows /\ result' = TheRow,
              pc' # "idle" => result' = [is |-> "none"]
       PROVE  ReaderInv'
  <2>1. n \in DOMAIN input /\ passed' = n /\ ReaderAt(n + 1)' /\ input' = input
    BY <1>0, <1>15, ConsumeStep DEF streamVars
  <2>2. CapacityFits'
    BY <1>1, <1>15 DEF CapacityFits
  <2>3. RowsAreTrue' /\ EndIsReal' /\ TooLargeIsTrue'
    BY <1>0, <1>15, <2>1, <2>2, Quiet, HandedOut
  <2> QED
    BY <1>3, <1>15, <2>1, <2>3 DEF ReaderInv
<1>16. CASE EventReady
  <2>1. /\ pending # None /\ Consume /\ pc' = "idle"
        /\ UNCHANGED <<streamVars, buf, capacity, base, inputDone, tableIndex, rangeIndex>>
        /\ result' = IF pending.kind \in Rows THEN TheRow ELSE [is |-> "switch"]
    BY <1>16 DEF EventReady, Ready, Returns
  <2>2. \/ result'.is \notin {"row", "end", "truncated", "tooLarge"}
        \/ pending.kind \in Rows /\ result' = TheRow
    BY <2>1
  <2> QED
    BY <1>15, <2>1, <2>2
<1>17. CASE DrainReady
  <2>1. /\ pending # None /\ Consume /\ result' = result /\ pc # "idle"
        /\ UNCHANGED <<streamVars, buf, capacity, base, inputDone, tableIndex, rangeIndex>>
    BY <1>17 DEF DrainReady, Ready
  <2>2. result' = [is |-> "none"] /\ result'.is = "none"
    BY <1>1, <2>1
  <2> QED
    BY <1>15, <2>1, <2>2
<1>18. CASE EmptyGroup
  <2>1. /\ pending # None /\ Consume /\ result' = [is |-> "group"] /\ pc' = "idle"
        /\ UNCHANGED <<streamVars, buf, capacity, base, inputDone, tableIndex, rangeIndex>>
    BY <1>18 DEF EmptyGroup, Ready, Returns
  <2> QED
    BY <1>15, <2>1
<1>19. CASE FullGroup
  <2>1. /\ UNCHANGED <<streamVars, bufferVars, pending, indexVars, passed>> /\ input' = input
        /\ pc' = "idle" /\ result'.is \in {"yson", "group"}
    BY <1>19 DEF FullGroup, Returns, streamVars
  <2> QED
    BY <1>0, <1>1, <1>2, <2>1, CallStep
<1>20. CASE RowReady /\ pending.kind = "switch"
  <2>1. /\ UNCHANGED <<streamVars, bufferVars, pending, indexVars, passed>> /\ input' = input
        /\ pc' = "idle" /\ result'.is = "boundary"
    BY <1>20 DEF RowReady, Returns, streamVars, bufferVars, indexVars
  <2> QED
    BY <1>0, <1>1, <1>2, <2>1, CallStep
<1>21. CASE RowReady /\ pending.kind # "switch"
  <2>1. /\ pending # None /\ Consume /\ pc' = "idle" /\ result' = TheRow
        /\ UNCHANGED <<streamVars, buf, capacity, base, inputDone, tableIndex, rangeIndex>>
    BY <1>21 DEF RowReady, Ready, Returns
  <2>2. pending.kind \in Rows
    BY <1>0, <1>21, <2>1, PendingIs DEF Data
  <2> QED
    BY <1>15, <2>1, <2>2
<1>22. CASE UNCHANGED vars
  <2>1. /\ UNCHANGED <<streamVars, bufferVars, pending, indexVars, passed>>
        /\ UNCHANGED <<input, limit, passed, result, pc, capacity, base, pos>>
    BY <1>22 DEF vars, streamVars, bufferVars
  <2>2. \A i : WholeRecord(i)' <=> WholeRecord(i)
    BY <2>1 DEF WholeRecord
  <2>3. EndIsReal' /\ TooLargeIsTrue'
    BY <2>1, <2>2 DEF ReaderInv, EndIsReal, TooLargeIsTrue
  <2>4. RowsAreTrue'
    BY <2>1, SameStream DEF ReaderInv, RowsAreTrue
  <2> QED
    BY <1>0, <1>1, <2>1, <2>3, <2>4, CallStep DEF ReaderInv
<1> QED
  BY <1>4, <1>5, <1>6, <1>7, <1>8, <1>9, <1>10, <1>11, <1>12, <1>13, <1>14, <1>16, <1>17,
     <1>18, <1>19, <1>20, <1>21, <1>22 DEF Next, ReaderStep

\* However the stream is cut into reads and the buffer compacted and grown, a row
\* comes out of next_event and next_row with its own bytes, offset and numbers.
THEOREM RowsComeOutTrue == Spec => []RowsAreTrue
<1>1. ReaderInv => RowsAreTrue
  BY DEF ReaderInv
<1> QED
  BY <1>1, ReaderInvInit, ReaderInvStep, PTL DEF Spec

\* A stream is reported to have ended, or to be cut, exactly where it is; a record is
\* refused for its size only if it is larger than the limit that fill enforces.
THEOREM EndsAndSizesAreTrue == Spec => [](EndIsReal /\ TooLargeIsTrue)
<1>1. ReaderInv => EndIsReal /\ TooLargeIsTrue
  BY DEF ReaderInv
<1> QED
  BY <1>1, ReaderInvInit, ReaderInvStep, PTL DEF Spec

-----------------------------------------------------------------------------
(***************************************************************************)
(* What is refused as malformed.  In the binary format a record that a     *)
(* read has cut is incomplete and never an error.                          *)
(***************************************************************************)
BinaryStreams == \A s \in Inputs : \A i \in DOMAIN s : s[i].torn = {}

\* A malformed record in the binary format.
LEMMA MalformedIs ==
  ASSUME BinaryStreams, NEW n \in 1..Len(input) + 1, ReaderAt(n), Malformed
  PROVE  n \in DOMAIN input /\ input[n].kind = "malformed" /\ base + Start = input[n].at
<1>1. n \in DOMAIN input /\ Record = input[n] /\ base + Start = input[n].at
  BY StartIs DEF Malformed, ReaderAt, Stands
<1>2. input[n].torn = {}
  BY <1>1 DEF BinaryStreams, ReaderAt, StreamTypes
<1> QED
  BY <1>1, <1>2 DEF Malformed

\* A refusal stays true until the next call, and each new one is.
LEMMA RefusalStep ==
  ASSUME BinaryStreams, ReaderInv, RefusalIsReal, [Next]_vars
  PROVE  RefusalIsReal'
<1>0. PICK n \in 1..Len(input) + 1 : ReaderAt(n)
  BY DEF ReaderInv
<1>1. pc # "idle" => result = [is |-> "none"]
  BY DEF ReaderInv
<1>2. ASSUME result'.is # "yson" PROVE RefusalIsReal'
  BY <1>2 DEF RefusalIsReal
<1>3. CASE NextEvent \/ NextGroup
  BY <1>2, <1>3 DEF NextEvent, NextGroup
<1>4. CASE NextRow
  BY <1>2, <1>4 DEF NextRow, Returns
<1>5. CASE ApplyControl \/ LineUp
  BY <1>1, <1>2, <1>5 DEF ApplyControl, LineUp
<1>6. CASE RefuseRecord
  <2>1. CASE Malformed
    <3>1. n \in DOMAIN input /\ input[n].kind = "malformed" /\ base + Start = input[n].at
      BY <1>0, <2>1, MalformedIs
    <3>2. input' = input /\ base' = base /\ pos' = Start
      BY <1>6 DEF RefuseRecord, streamVars
    <3> QED
      BY <3>1, <3>2 DEF RefusalIsReal
  <2>2. CASE result' = [is |-> "badControl"]
    BY <1>2, <2>2
  <2> QED
    BY <1>6, <2>1, <2>2 DEF RefuseRecord, Returns
<1>7. CASE FillTooLarge \/ FillFails \/ Truncated \/ End
  BY <1>2, <1>7 DEF FillTooLarge, FillFails, Truncated, End, Returns
<1>8. ASSUME NEW m \in 0..limit, Fill(m) PROVE RefusalIsReal'
  BY <1>1, <1>2, <1>8 DEF Fill, Filling
<1>9. CASE EventReady
  <2>1. result'.is \in {"row", "switch"}
    BY <1>9 DEF EventReady, Returns, TheRow
  <2> QED
    BY <1>2, <2>1
<1>10. CASE DrainReady
  BY <1>1, <1>2, <1>10 DEF DrainReady, Ready
<1>11. CASE EmptyGroup
  BY <1>2, <1>11 DEF EmptyGroup, Returns
<1>12. CASE FullGroup
  <2>1. CASE KeyFails
    <3>1. pending # None /\ reading = "groupsBy" /\ pending.kind = "list"
      BY <1>12, <2>1 DEF FullGroup, Ready, KeyFails
    <3>2. n \in DOMAIN input /\ input[n].kind = "list" /\ base + pos = input[n].at
      BY <1>0, <3>1, PendingIs
    <3>3. UNCHANGED <<input, base, pos, reading>>
      BY <1>12 DEF FullGroup, streamVars, bufferVars
    <3> QED
      BY <3>1, <3>2, <3>3 DEF RefusalIsReal
  <2>2. CASE ~KeyFails
    BY <1>2, <1>12, <2>2 DEF FullGroup, Returns
  <2> QED
    BY <2>1, <2>2
<1>13. CASE RowReady
  <2>1. result'.is \in {"row", "boundary"}
    BY <1>13 DEF RowReady, Returns, TheRow
  <2> QED
    BY <1>2, <2>1
<1>14. CASE UNCHANGED vars
  BY <1>14 DEF vars, streamVars, bufferVars, groupVars, RefusalIsReal
<1> QED
  BY <1>3, <1>4, <1>5, <1>6, <1>7, <1>8, <1>9, <1>10, <1>11, <1>12, <1>13, <1>14
  DEF Next, ReaderStep

\* In the binary format the stream stops for a job only where it really does.
THEOREM StopsHold ==
  ASSUME BinaryStreams
  PROVE  Spec => []StopsAreReal
<1> DEFINE Inv == ReaderInv /\ RefusalIsReal
<1>1. Init => Inv
  BY ReaderInvInit DEF Init, RefusalIsReal
<1>2. Inv /\ [Next]_vars => Inv'
  BY ReaderInvStep, RefusalStep
<1>3. Inv => StopsAreReal
  BY DEF ReaderInv, StopsAreReal
<1> QED
  BY <1>1, <1>2, <1>3, PTL DEF Spec

-----------------------------------------------------------------------------
(***************************************************************************)
(* Groups.                                                                 *)
(***************************************************************************)
CallTypes ==
  /\ reading \in {"events", "groups", "groupsBy"} /\ inGroup \in BOOLEAN /\ lapsed \in BOOLEAN
  /\ group \in [no : Nat, done : BOOLEAN, key : Nat \cup {None}] \cup {None} /\ made \in Nat

\* Nothing comes after this: the stream ends before the n-th record does, or the
\* record is refused again whenever it is asked for.
Stuck(n) ==
  \/ n \notin DOMAIN input
  \/ ~WholeRecord(n)
  \/ input[n].kind \in {"malformed", "badControl"}
  \/ MaxRecord <= capacity /\ capacity < input[n].len

\* No row or switch has come since the last switch.
AtBoundary(n) == LastBefore(n, Data) = 0 \/ input[LastBefore(n, Data)].kind = "switch"

\* A call goes with the way in which the job reads.
CallsFit ==
  /\ reading = "events" => group = None /\ pc \in {"idle", "event"}
  /\ pc = "event" => reading = "events"
  /\ pc = "row" => group # None /\ ~group.done
  /\ pc = "drain" => inGroup

\* A group that is alive is the last one made, and its key was read at the head of
\* the run in which the reader is.
LiveGroup(n) ==
  group # None /\ ~group.done =>
    /\ inGroup /\ group.no = made /\ pc \in {"idle", "row"}
    /\ reading = "groupsBy" =>
         group.key \in 1..n /\ SwitchesBefore(group.key) = SwitchesBefore(n) /\ AtBoundary(group.key)

\* As many groups as runs, as long as there is more to come.
Counted(n) ==
  reading # "events" /\ ~Stuck(n) =>
    /\ (inGroup => pc = "group") => AtBoundary(n)
    /\ ~lapsed => made = SwitchesBefore(n) + (IF inGroup /\ pc # "group" THEN 1 ELSE 0)

GroupsFit(n) == CallTypes /\ CallsFit /\ LiveGroup(n) /\ Counted(n)

\* A switch ends a run; nothing else does.
LEMMA RunStep ==
  ASSUME input \in Inputs, NEW n \in DOMAIN input
  PROVE  /\ SwitchesBefore(n) \in Nat
         /\ SwitchesBefore(n + 1) =
              IF input[n].kind = "switch" THEN SwitchesBefore(n) + 1 ELSE SwitchesBefore(n)
         /\ input[n].kind = "switch" => AtBoundary(n + 1)
         /\ input[n].kind \notin Data => (AtBoundary(n + 1) <=> AtBoundary(n))
<1> DEFINE S == {k \in 1..n - 1 : input[k].kind = "switch"}
           T == {k \in 1..(n + 1) - 1 : input[k].kind = "switch"}
<1>1. n \in Nat /\ 1 <= n
  BY InputFacts
<1>2. IsFiniteSet(S)
  <2>1. IsFiniteSet(1..n - 1)
    BY <1>1, FS_Interval
  <2>2. S \subseteq 1..n - 1
    OBVIOUS
  <2> HIDE DEF S
  <2> QED
    BY <2>1, <2>2, FS_Subset
<1>3. SwitchesBefore(n) = Cardinality(S) /\ Cardinality(S) \in Nat
  BY <1>2, FS_CardinalityType DEF SwitchesBefore
<1>4. 1..(n + 1) - 1 = (1..n - 1) \cup {n} /\ n \notin 1..n - 1
  BY <1>1
<1>5. T = (IF input[n].kind = "switch" THEN S \cup {n} ELSE S) /\ n \notin S
  BY <1>4
<1>6. SwitchesBefore(n + 1) = Cardinality(T)
  BY DEF SwitchesBefore
<1>7. SwitchesBefore(n + 1) =
        IF input[n].kind = "switch" THEN SwitchesBefore(n) + 1 ELSE SwitchesBefore(n)
  <2> HIDE DEF S, T
  <2> QED
    BY <1>2, <1>3, <1>5, <1>6, FS_AddElement
<1>8. LastBefore(n + 1, Data) = IF input[n].kind \in Data THEN n ELSE LastBefore(n, Data)
  BY LastBeforeStep
<1>9. input[n].kind = "switch" => AtBoundary(n + 1)
  BY <1>8 DEF AtBoundary, Data
<1>10. input[n].kind \notin Data => (AtBoundary(n + 1) <=> AtBoundary(n))
  BY <1>8 DEF AtBoundary
<1> QED
  BY <1>3, <1>7, <1>9, <1>10

\* What is said of runs stays true of the stream.
LEMMA SameRuns ==
  ASSUME input' = input, limit' = limit
  PROVE  /\ \A i : SwitchesBefore(i)' = SwitchesBefore(i)
         /\ \A i : AtBoundary(i)' <=> AtBoundary(i)
         /\ capacity' = capacity => \A i : Stuck(i)' <=> Stuck(i)
<1>1. \A i : AtBoundary(i)' <=> AtBoundary(i)
  BY SameStream DEF AtBoundary
<1>2. capacity' = capacity => \A i : Stuck(i)' <=> Stuck(i)
  BY DEF Stuck, WholeRecord
<1> QED
  BY <1>1, <1>2, SameStream

\* A record that the buffer holds whole is there to be taken.
LEMMA WholeIsThere ==
  ASSUME NEW n \in 1..Len(input) + 1, ReaderAt(n), n \in DOMAIN input, NEW q \in Nat,
         base + q = input[n].at, q + input[n].len <= Len(buf),
         input[n].kind \notin {"malformed", "badControl"}
  PROVE  ~Stuck(n)
<1>1. /\ base \in Nat /\ Len(buf) \in Nat /\ base + Len(buf) = bytesTaken /\ Len(buf) <= capacity
      /\ capacity \in Nat /\ input \in Inputs /\ limit \in Nat /\ bytesTaken <= limit
  <2>1. limit \in 0..StreamEnd(input) /\ bytesTaken \in 0..limit
    BY DEF ReaderAt, StreamTypes
  <2> QED
    BY <2>1 DEF ReaderAt, Window, StreamTypes
<1>2. input[n].len \in Nat /\ input[n].at \in Nat
  BY <1>1, InputFacts
<1>3. input[n].at + input[n].len <= limit /\ ~(capacity < input[n].len)
  <2>1. ASSUME NEW x \in Nat, NEW l \in Nat, NEW y \in Nat, q + l <= y
        PROVE  (x + q) + l <= x + y /\ l <= y
    BY <2>1
  <2>2. (base + q) + input[n].len <= base + Len(buf) /\ input[n].len <= Len(buf)
    BY <1>1, <1>2, <2>1
  <2> QED
    BY <1>1, <1>2, <2>2
<1> QED
  BY <1>3 DEF Stuck, WholeRecord

\* What is lined up is there to be taken.
LEMMA PendingIsThere ==
  ASSUME NEW n \in 1..Len(input) + 1, ReaderAt(n), pending # None
  PROVE  ~Stuck(n)
<1>1. /\ n \in DOMAIN input /\ input[n].kind \in Data
      /\ base + pos = input[n].at /\ pos + input[n].len <= Len(buf)
  BY PendingIs
<1>2. input[n].kind \notin {"malformed", "badControl"} /\ pos \in Nat
  BY <1>1 DEF Data, Rows, ReaderAt, Window
<1> QED
  BY <1>1, <1>2, WholeIsThere

\* Where the stream ends, the reader is stuck.
LEMMA EndIsStuck ==
  ASSUME NEW n \in 1..Len(input) + 1, ReaderAt(n), AtEnd
  PROVE  Stuck(n)
<1> SUFFICES ASSUME n \in DOMAIN input, WholeRecord(n) PROVE FALSE
  BY DEF Stuck
<1>1. /\ input \in Inputs /\ base \in Nat /\ Len(buf) \in Nat /\ base + Len(buf) = limit
      /\ Start \in Nat /\ Start <= Len(buf)
  <2>1. base \in Nat /\ Len(buf) \in Nat /\ base + Len(buf) = bytesTaken /\ bytesTaken = limit
    BY DEF ReaderAt, Window, AtEnd
  <2> QED
    BY <2>1, RestFacts DEF ReaderAt, StreamTypes
<1>2. /\ input[n].at \in Nat /\ input[n].len \in Nat \ {0} /\ input[n].kind \in Kinds
      /\ input[n].at = Place(n) /\ input[n].at + input[n].len <= limit
  BY <1>1, InputFacts DEF WholeRecord
<1>3. /\ base + Start = Place(n) \/ base + Start = Place(n) - 1
      /\ Start < Len(buf) => base + Start = input[n].at /\ Record = input[n]
  BY StartIs DEF ReaderAt, Stands, Before
<1>4. CASE Start < Len(buf)
  <2>1. ~(Start + input[n].len <= Len(buf))
    BY <1>2, <1>3, <1>4 DEF AtEnd, Incomplete, Scans
  <2>2. base + Start = input[n].at
    BY <1>3, <1>4
  <2> QED
    BY <1>1, <1>2, <2>1, <2>2
<1>5. CASE Start = Len(buf)
  BY <1>1, <1>2, <1>3, <1>5
<1> QED
  BY <1>1, <1>4, <1>5

\* A step that only takes the reader further through records of its own, or reads more.
LEMMA GroupsKept ==
  ASSUME NEW n, NEW k, GroupsFit(n), UNCHANGED <<input, limit, groupVars, pc>>,
         n \in Nat, k \in {n, n + 1},
         SwitchesBefore(k) = SwitchesBefore(n), AtBoundary(k) <=> AtBoundary(n),
         Stuck(n) => Stuck(k)'
  PROVE  GroupsFit(k)'
<1>1. UNCHANGED <<reading, inGroup, group, made, lapsed, pc>>
  BY DEF groupVars
<1>2. CallTypes' /\ CallsFit'
  BY <1>1 DEF GroupsFit, CallTypes, CallsFit
<1>3. /\ \A i : SwitchesBefore(i)' = SwitchesBefore(i)
      /\ \A i : AtBoundary(i)' <=> AtBoundary(i)
  BY SameRuns
<1>4. LiveGroup(k)'
  <2>1. \A i \in 1..n : i \in 1..k
    OBVIOUS
  <2> QED
    BY <1>1, <1>3, <2>1 DEF GroupsFit, LiveGroup
<1>5. Counted(k)'
  BY <1>1, <1>3 DEF GroupsFit, Counted
<1> QED
  BY <1>2, <1>4, <1>5 DEF GroupsFit

\* Where nothing more comes, a call may give up.
LEMMA GroupsGivenUp ==
  ASSUME NEW n, GroupsFit(n), UNCHANGED <<input, limit, reading, inGroup, made, lapsed, group>>,
         pc # "idle", pc' = "idle", Stuck(n)'
  PROVE  GroupsFit(n)'
<1>1. CallTypes'
  BY DEF GroupsFit, CallTypes
<1>2. CallsFit' /\ Counted(n)'
  BY DEF GroupsFit, CallsFit, Counted
<1>3. LiveGroup(n)'
  BY SameRuns DEF GroupsFit, LiveGroup
<1> QED
  BY <1>1, <1>2, <1>3 DEF GroupsFit

\* next_event, next_group and next_row begin.
LEMMA GroupsCalled ==
  ASSUME NEW n, GroupsFit(n), NextEvent \/ NextGroup \/ NextRow
  PROVE  GroupsFit(n)'
<1>1. /\ UNCHANGED <<input, limit, capacity, reading, inGroup, made, lapsed>>
      /\ pc = "idle" /\ group' \in {group, None}
      /\ \/ reading = "events" /\ pc' = "event" /\ group' = group
         \/ reading # "events" /\ group' = None /\ pc' = (IF inGroup THEN "drain" ELSE "group")
         \/ group' = group /\ group # None /\ (pc' = "idle" \/ (pc' = "row" /\ ~group.done))
  <2>1. CASE NextEvent
    BY <2>1 DEF NextEvent, streamVars, bufferVars, groupVars
  <2>2. CASE NextGroup
    BY <2>2 DEF NextGroup, streamVars, bufferVars
  <2>3. CASE NextRow
    <3>1. /\ UNCHANGED <<input, limit, capacity, reading, inGroup, made, lapsed, group>>
          /\ pc = "idle" /\ group # None
      BY <2>3 DEF NextRow, streamVars, bufferVars, groupVars
    <3>2. CASE group.done
      BY <2>3, <3>1, <3>2 DEF NextRow, Returns
    <3>3. CASE ~group.done
      BY <2>3, <3>1, <3>3 DEF NextRow
    <3> QED
      BY <3>2, <3>3
  <2> QED
    BY <2>1, <2>2, <2>3
<1>2. CallTypes'
  BY <1>1 DEF GroupsFit, CallTypes
<1>3. /\ \A i : SwitchesBefore(i)' = SwitchesBefore(i)
      /\ \A i : AtBoundary(i)' <=> AtBoundary(i)
      /\ Stuck(n)' <=> Stuck(n)
  BY <1>1, SameRuns
<1>4. CallsFit'
  BY <1>1 DEF GroupsFit, CallTypes, CallsFit
<1>5. LiveGroup(n)'
  BY <1>1, <1>3 DEF GroupsFit, CallsFit, LiveGroup
<1>6. Counted(n)'
  <2>1. (inGroup /\ pc # "group") <=> (inGroup' /\ pc' # "group")
    BY <1>1
  <2>2. (inGroup => pc = "group") <=> (inGroup' => pc' = "group")
    BY <1>1
  <2> QED
    BY <1>1, <1>3, <2>1, <2>2 DEF GroupsFit, Counted
<1> QED
  BY <1>2, <1>4, <1>5, <1>6 DEF GroupsFit

\* A failed read ends the call; a next_group that it ends has lapsed.
LEMMA GroupsLapsed ==
  ASSUME NEW n, GroupsFit(n), UNCHANGED <<input, limit, reading, inGroup, made, group>>,
         pc # "idle", pc' = "idle", lapsed' = (lapsed \/ pc \in {"drain", "group"}),
         Stuck(n) => Stuck(n)'
  PROVE  GroupsFit(n)'
<1>1. CallTypes'
  BY DEF GroupsFit, CallTypes
<1>2. CallsFit'
  BY DEF GroupsFit, CallsFit
<1>3. LiveGroup(n)'
  BY SameRuns DEF GroupsFit, LiveGroup
<1>4. Counted(n)'
  <2>1. /\ \A i : SwitchesBefore(i)' = SwitchesBefore(i)
        /\ \A i : AtBoundary(i)' <=> AtBoundary(i)
    BY SameRuns
  <2>2. (inGroup' => pc' = "group") => (inGroup => pc = "group")
    OBVIOUS
  <2>3. ~lapsed' => ~lapsed /\ ((inGroup /\ pc # "group") <=> (inGroup' /\ pc' # "group"))
    OBVIOUS
  <2> QED
    BY <2>1, <2>2, <2>3 DEF GroupsFit, Counted
<1> QED
  BY <1>1, <1>2, <1>3, <1>4 DEF GroupsFit

\* The rest of a group is drained up to its switch.
LEMMA GroupsDrained ==
  ASSUME NEW n \in 1..Len(input) + 1, ReaderAt(n), GroupsFit(n), DrainReady
  PROVE  GroupsFit(n + 1)'
<1>1. /\ pc = "drain" /\ pending # None /\ pc' = (IF pending.kind = "switch" THEN "group" ELSE "drain")
      /\ UNCHANGED <<input, limit, reading, inGroup, group, made, lapsed>>
  BY DEF DrainReady, Ready, streamVars, groupVars
<1>2. n \in DOMAIN input /\ pending.kind = input[n].kind /\ ~Stuck(n) /\ input \in Inputs
  BY <1>1, PendingIs, PendingIsThere DEF ReaderAt, StreamTypes
<1>3. /\ SwitchesBefore(n) \in Nat
      /\ SwitchesBefore(n + 1) =
              IF input[n].kind = "switch" THEN SwitchesBefore(n) + 1 ELSE SwitchesBefore(n)
      /\ input[n].kind = "switch" => AtBoundary(n + 1)
  BY <1>2, RunStep
<1>4. inGroup /\ reading # "events" /\ ~(group # None /\ ~group.done)
  BY <1>1 DEF GroupsFit, CallsFit, LiveGroup
<1>5. CallTypes' /\ CallsFit'
  BY <1>1, <1>4 DEF GroupsFit, CallTypes, CallsFit
<1>6. LiveGroup(n + 1)'
  BY <1>1, <1>4 DEF LiveGroup
<1>7. ~lapsed => made = SwitchesBefore(n) + 1
  BY <1>1, <1>2, <1>4 DEF GroupsFit, Counted
<1>8. Counted(n + 1)'
  <2>1. SwitchesBefore(n + 1)' = SwitchesBefore(n + 1) /\ (AtBoundary(n + 1)' <=> AtBoundary(n + 1))
    BY <1>1, SameRuns
  <2>2. CASE input[n].kind = "switch"
    BY <1>1, <1>2, <1>3, <1>7, <2>1, <2>2 DEF Counted
  <2>3. CASE input[n].kind # "switch"
    BY <1>1, <1>2, <1>3, <1>4, <1>7, <2>1, <2>3 DEF Counted
  <2> QED
    BY <2>2, <2>3
<1> QED
  BY <1>5, <1>6, <1>8 DEF GroupsFit

\* Two switches in a row are an empty group.
LEMMA GroupsEmpty ==
  ASSUME NEW n \in 1..Len(input) + 1, ReaderAt(n), GroupsFit(n), EmptyGroup
  PROVE  GroupsFit(n + 1)'
<1>1. /\ pc = "group" /\ pending # None /\ pending.kind = "switch" /\ pc' = "idle"
      /\ inGroup' = FALSE /\ made' = made + 1
      /\ group' = [no |-> made + 1, done |-> TRUE, key |-> None]
      /\ UNCHANGED <<input, limit, reading, lapsed>>
  BY DEF EmptyGroup, Ready, Returns, streamVars
<1>2. n \in DOMAIN input /\ input[n].kind = "switch" /\ ~Stuck(n) /\ input \in Inputs
  BY <1>1, PendingIs, PendingIsThere DEF ReaderAt, StreamTypes
<1>3. /\ SwitchesBefore(n) \in Nat /\ SwitchesBefore(n + 1) = SwitchesBefore(n) + 1
      /\ AtBoundary(n + 1)
  BY <1>2, RunStep
<1>4. reading # "events"
  BY <1>1 DEF GroupsFit, CallsFit
<1>5. CallTypes'
  <2>1. made + 1 \in Nat
    BY DEF GroupsFit, CallTypes
  <2>2. group' \in [no : Nat, done : BOOLEAN, key : Nat \cup {None}]
    BY <1>1, <2>1
  <2>3. made' \in Nat /\ inGroup' \in BOOLEAN
    BY <1>1, <2>1
  <2>4. reading' \in {"events", "groups", "groupsBy"} /\ lapsed' \in BOOLEAN
    BY <1>1 DEF GroupsFit, CallTypes
  <2> QED
    BY <2>2, <2>3, <2>4 DEF CallTypes
<1>6. CallsFit' /\ LiveGroup(n + 1)'
  BY <1>1, <1>4 DEF CallsFit, LiveGroup
<1>7. ~lapsed => made = SwitchesBefore(n)
  BY <1>1, <1>2, <1>3, <1>4 DEF GroupsFit, Counted
<1>8. Counted(n + 1)'
  <2>1. SwitchesBefore(n + 1)' = SwitchesBefore(n + 1) /\ (AtBoundary(n + 1)' <=> AtBoundary(n + 1))
    BY <1>1, SameRuns
  <2> QED
    BY <1>1, <1>3, <1>7, <2>1 DEF Counted
<1> QED
  BY <1>5, <1>6, <1>8 DEF GroupsFit

\* A group begins at the head of a run, and takes its key there.
LEMMA GroupsMade ==
  ASSUME NEW n \in 1..Len(input) + 1, ReaderAt(n), GroupsFit(n), FullGroup
  PROVE  GroupsFit(n)'
<1>1. /\ pc = "group" /\ pending # None /\ pending.kind \in Rows /\ pc' = "idle"
      /\ UNCHANGED <<input, limit, reading>>
      /\ \/ lapsed' = TRUE /\ UNCHANGED <<inGroup, made, group>>
         \/ /\ inGroup' = TRUE /\ made' = made + 1 /\ lapsed' = lapsed
            /\ group' = [no |-> made + 1, done |-> FALSE, key |-> Key]
  BY DEF FullGroup, Ready, Returns, streamVars
<1>2. n \in DOMAIN input /\ RecordPlace = n /\ ~Stuck(n) /\ input \in Inputs /\ n \in Nat /\ n \in 1..n
  <2>1. n \in DOMAIN input /\ input \in Inputs
    BY <1>1, PendingIs DEF ReaderAt, StreamTypes
  <2>2. n \in Nat /\ n \in 1..n
    BY <2>1, InputFacts
  <2> QED
    BY <1>1, <2>1, <2>2, PendingIs, PendingIsThere
<1>3. reading # "events" /\ AtBoundary(n) /\ (~lapsed => made = SwitchesBefore(n)) /\ SwitchesBefore(n) \in Nat
  <2>1. reading # "events" /\ SwitchesBefore(n) \in Nat
    BY <1>1, <1>2, RunStep DEF GroupsFit, CallsFit
  <2>2. AtBoundary(n) /\ (~lapsed => made = SwitchesBefore(n) + 0)
    BY <1>1, <1>2, <2>1 DEF GroupsFit, Counted
  <2> QED
    BY <2>1, <2>2
<1>4. Key \in Nat \cup {None} /\ (reading = "groupsBy" => Key = n)
  BY <1>2 DEF Key
<1>5. SwitchesBefore(n)' = SwitchesBefore(n) /\ (AtBoundary(n)' <=> AtBoundary(n))
  BY <1>1, SameRuns
<1>6. CASE lapsed' = TRUE /\ UNCHANGED <<inGroup, made, group>>
  <2>1. CallTypes' /\ CallsFit'
    BY <1>1, <1>3, <1>6 DEF GroupsFit, CallTypes, CallsFit
  <2>2. ~(group # None /\ ~group.done)
    BY <1>1 DEF GroupsFit, LiveGroup
  <2>3. LiveGroup(n)' /\ Counted(n)'
    BY <1>1, <1>3, <1>5, <1>6, <2>2 DEF LiveGroup, Counted
  <2> QED
    BY <2>1, <2>3 DEF GroupsFit
<1>7. CASE /\ inGroup' = TRUE /\ made' = made + 1 /\ lapsed' = lapsed
           /\ group' = [no |-> made + 1, done |-> FALSE, key |-> Key]
  <2>1. CallTypes'
    BY <1>1, <1>4, <1>7 DEF GroupsFit, CallTypes
  <2>2. CallsFit'
    BY <1>1, <1>3 DEF CallsFit
  <2>3. LiveGroup(n)'
    <3>1. group'.no = made' /\ group'.key = Key /\ inGroup' /\ pc' = "idle"
      BY <1>1, <1>7
    <3>2. reading' = "groupsBy" => /\ group'.key = n /\ group'.key \in 1..n
                                   /\ SwitchesBefore(n)' = SwitchesBefore(n)' /\ AtBoundary(n)'
      BY <1>1, <1>2, <1>3, <1>4, <1>5, <3>1
    <3>3. \A x : x = n => (SwitchesBefore(x)' = SwitchesBefore(n)' /\ (AtBoundary(x)' <=> AtBoundary(n)'))
      OBVIOUS
    <3> QED
      BY <1>1, <1>2, <3>1, <3>2, <3>3, SameRuns DEF LiveGroup
  <2>4. Counted(n)'
    BY <1>1, <1>3, <1>5, <1>7 DEF Counted
  <2> QED
    BY <2>1, <2>2, <2>3, <2>4 DEF GroupsFit
<1> QED
  BY <1>1, <1>6, <1>7

\* next_row stops at the switch, which stays for next_group.
LEMMA GroupsDone ==
  ASSUME NEW n \in 1..Len(input) + 1, ReaderAt(n), GroupsFit(n), RowReady, pending.kind = "switch"
  PROVE  GroupsFit(n)'
<1>1. /\ pc = "row" /\ pc' = "idle" /\ group' = [group EXCEPT !.done = TRUE]
      /\ UNCHANGED <<input, limit, capacity, reading, inGroup, made, lapsed>>
  BY DEF RowReady, Ready, Returns, streamVars
<1>2. group # None /\ reading # "events" /\ inGroup /\ group \in [no : Nat, done : BOOLEAN, key : Nat \cup {None}]
  BY <1>1 DEF GroupsFit, CallTypes, CallsFit, LiveGroup
<1>3. group'.done /\ CallTypes'
  BY <1>1, <1>2 DEF GroupsFit, CallTypes
<1>4. CallsFit' /\ LiveGroup(n)'
  BY <1>1, <1>2, <1>3 DEF CallsFit, LiveGroup
<1>5. Counted(n)'
  BY <1>1, <1>2, SameRuns DEF GroupsFit, Counted
<1> QED
  BY <1>3, <1>4, <1>5 DEF GroupsFit

\* next_row takes a row of the run.
LEMMA GroupsRow ==
  ASSUME NEW n \in 1..Len(input) + 1, ReaderAt(n), GroupsFit(n), RowReady, pending.kind # "switch"
  PROVE  GroupsFit(n + 1)'
<1>1. /\ pc = "row" /\ pc' = "idle" /\ pending # None
      /\ UNCHANGED <<input, limit, reading, inGroup, group, made, lapsed>>
  BY DEF RowReady, Ready, Returns, streamVars
<1>2. n \in DOMAIN input /\ input[n].kind # "switch" /\ ~Stuck(n) /\ input \in Inputs
  BY <1>1, PendingIs, PendingIsThere DEF ReaderAt, StreamTypes
<1>3. SwitchesBefore(n + 1) = SwitchesBefore(n) /\ n \in Nat
  BY <1>2, RunStep, InputFacts
<1>4. group # None /\ reading # "events" /\ inGroup
  BY <1>1 DEF GroupsFit, CallsFit, LiveGroup
<1>5. CallTypes' /\ CallsFit'
  BY <1>1, <1>4 DEF GroupsFit, CallTypes, CallsFit
<1>6. /\ \A i : SwitchesBefore(i)' = SwitchesBefore(i)
      /\ \A i : AtBoundary(i)' <=> AtBoundary(i)
  BY <1>1, SameRuns
<1>7. LiveGroup(n + 1)'
  <2>1. \A i \in 1..n : i \in 1..n + 1
    BY <1>3
  <2> QED
    BY <1>1, <1>3, <1>6, <2>1 DEF GroupsFit, LiveGroup
<1>8. Counted(n + 1)'
  BY <1>1, <1>2, <1>3, <1>4, <1>6 DEF GroupsFit, Counted
<1> QED
  BY <1>5, <1>7, <1>8 DEF GroupsFit

\* The row is handed out by the group of its own run.
LEMMA SegmentHeld ==
  ASSUME NEW n \in 1..Len(input) + 1, ReaderAt(n), GroupsFit(n), RowReady, pending.kind # "switch"
  PROVE  GroupsAreSegments'
<1>1. /\ pc = "row" /\ pending # None /\ result' = TheRow /\ Consume
      /\ UNCHANGED <<input, limit, reading, lapsed>>
  BY DEF RowReady, Ready, Returns, streamVars
<1>2. n \in DOMAIN input /\ RecordPlace = n /\ ~Stuck(n) /\ n \in Nat
  <2>1. n \in DOMAIN input /\ input \in Inputs
    BY <1>1, PendingIs DEF ReaderAt, StreamTypes
  <2> QED
    BY <1>1, <2>1, PendingIs, PendingIsThere, InputFacts
<1>3. passed' = n
  BY <1>1, <1>2 DEF Consume
<1>4. group # None /\ ~group.done /\ reading # "events"
  BY <1>1 DEF GroupsFit, CallsFit
<1>5. inGroup /\ group.no = made /\ (reading = "groupsBy" =>
         group.key \in 1..n /\ SwitchesBefore(group.key) = SwitchesBefore(n) /\ AtBoundary(group.key))
  BY <1>4 DEF GroupsFit, LiveGroup
<1>6. result'.group = group.no /\ result'.key = group.key
  BY <1>1, <1>4 DEF TheRow
<1>7. ~lapsed => made = SwitchesBefore(n) + 1
  BY <1>1, <1>2, <1>4, <1>5 DEF GroupsFit, Counted
<1>8. None \notin 1..n
  BY <1>2, SizesAssumption
<1>9. /\ \A i : SwitchesBefore(i)' = SwitchesBefore(i)
      /\ \A i, K : LastBefore(i, K)' = LastBefore(i, K)
  BY <1>1, SameStream
<1>10. ~lapsed' => result'.group = SwitchesBefore(n)' + 1
  BY <1>1, <1>5, <1>6, <1>7, <1>9
<1>11. reading' = "groupsBy" =>
         /\ result'.key # None
         /\ SwitchesBefore(result'.key) = SwitchesBefore(n)
         /\ LastBefore(result'.key, Data) = 0
              \/ input'[LastBefore(result'.key, Data)].kind = "switch"
  BY <1>1, <1>5, <1>6, <1>8 DEF AtBoundary
<1>12. /\ SwitchesBefore(passed)' = SwitchesBefore(n) /\ SwitchesBefore(result.key)' = SwitchesBefore(result'.key)
       /\ LastBefore(result.key, Data)' = LastBefore(result'.key, Data)
  BY <1>1, <1>3 DEF SwitchesBefore, LastBefore
<1> QED
  BY <1>9, <1>10, <1>11, <1>12 DEF GroupsAreSegments

GroupInv ==
  /\ \E n \in 1..Len(input) + 1 : ReaderAt(n) /\ GroupsFit(n)
  /\ pc # "idle" => result = [is |-> "none"]
  /\ GroupsAreSegments

\* GroupInv holds of a new reader.
LEMMA GroupInvInit == Init => GroupInv
<1> SUFFICES ASSUME Init PROVE GroupInv
  OBVIOUS
<1>1. 1 \in 1..Len(input) + 1 /\ ReaderAt(1) /\ input \in Inputs
  BY ReaderAtInit DEF ReaderAt, StreamTypes
<1>2. CallTypes /\ CallsFit /\ LiveGroup(1)
  BY DEF Init, CallTypes, CallsFit, LiveGroup
<1>3. AtBoundary(1)
  <2>1. LastBefore(1, Data) \in 0..1 - 1
    BY <1>1, LastBeforeFacts
  <2> QED
    BY <2>1 DEF AtBoundary
<1>4. SwitchesBefore(1) = 0
  <2>1. {k \in 1..1 - 1 : input[k].kind = "switch"} = {}
    OBVIOUS
  <2> QED
    BY <2>1, FS_EmptySet DEF SwitchesBefore
<1>5. Counted(1)
  BY <1>3, <1>4 DEF Init, Counted
<1>6. GroupsFit(1)
  BY <1>2, <1>5 DEF GroupsFit
<1>7. GroupsAreSegments /\ (pc # "idle" => result = [is |-> "none"])
  BY DEF Init, GroupsAreSegments
<1> QED
  BY <1>1, <1>6, <1>7 DEF GroupInv

\* Every step keeps GroupInv, in the binary format.
LEMMA GroupInvStep ==
  ASSUME BinaryStreams, ReaderInv', GroupInv, [Next]_vars
  PROVE  GroupInv'
<1>0. PICK n \in 1..Len(input) + 1 : ReaderAt(n) /\ GroupsFit(n)
  BY DEF GroupInv
<1>1. (pc # "idle" => result = [is |-> "none"]) /\ (pc' # "idle" => result' = [is |-> "none"])
  BY DEF GroupInv, ReaderInv
<1>2. input \in Inputs /\ n \in Nat /\ capacity \in Nat
  BY <1>0, InputFacts DEF ReaderAt, StreamTypes
<1>3. ASSUME result'.is # "row" PROVE GroupsAreSegments'
  BY <1>3 DEF GroupsAreSegments
<1>4. ASSUME input' = input, ReaderAt(n)', GroupsFit(n)', GroupsAreSegments' PROVE GroupInv'
  BY <1>1, <1>4 DEF GroupInv
<1>5. ASSUME input' = input, n \in DOMAIN input, ReaderAt(n + 1)', GroupsFit(n + 1)', GroupsAreSegments'
      PROVE  GroupInv'
  <2>1. n + 1 \in 1..Len(input') + 1
    BY <1>2, <1>5, PlaceFacts
  <2> QED
    BY <1>1, <1>5, <2>1 DEF GroupInv
<1>6. CASE NextEvent \/ NextGroup \/ NextRow
  <2>1. UNCHANGED <<streamVars, bufferVars, pending, indexVars, passed, input>>
    BY <1>6 DEF NextEvent, NextGroup, NextRow, streamVars
  <2>2. ReaderAt(n)'
    <3>1. UNCHANGED <<streamVars, buf, capacity, pos, base, inputDone, indexVars, passed, pending>>
      BY <2>1 DEF bufferVars
    <3> QED
      BY <1>0, <3>1, StandStill
  <2>3. result'.is # "row"
    BY <1>6 DEF NextEvent, NextGroup, NextRow, Returns
  <2> QED
    BY <1>0, <1>3, <1>4, <1>6, <2>1, <2>2, <2>3, GroupsCalled
<1>7. CASE ApplyControl
  <2>1. /\ pc # "idle" /\ result' = result /\ UNCHANGED <<input, limit, capacity, groupVars, pc>>
        /\ Start < Len(buf) /\ Start + Record.len <= Len(buf)
        /\ Record.kind \in {"table", "rowIndex", "rangeIndex", "skip"}
    BY <1>7 DEF ApplyControl, Scans, streamVars
  <2>2. n \in DOMAIN input /\ input[n].kind \notin Data /\ ReaderAt(n + 1)'
    BY <1>0, <1>7, ControlStep
  <2>3. Record = input[n] /\ base + Start = input[n].at /\ Start \in Nat
    BY <1>0, <2>1, StartIs, RestFacts DEF ReaderAt, Stands
  <2>4. input[n].kind \notin {"malformed", "badControl", "switch"}
    BY <2>1, <2>3
  <2>5. ~Stuck(n)
    BY <1>0, <2>1, <2>2, <2>3, <2>4, WholeIsThere
  <2>6. SwitchesBefore(n + 1) = SwitchesBefore(n) /\ (AtBoundary(n + 1) <=> AtBoundary(n))
    BY <1>2, <2>2, <2>4, RunStep
  <2>7. GroupsFit(n + 1)'
    <3>1. n + 1 \in {n, n + 1}
      OBVIOUS
    <3> QED
      BY <1>0, <1>2, <2>1, <2>5, <2>6, <3>1, GroupsKept
  <2>8. result'.is # "row"
    BY <1>1, <2>1
  <2> QED
    BY <1>3, <1>5, <2>1, <2>2, <2>7, <2>8
<1>8. CASE LineUp
  <2>1. pc # "idle" /\ result' = result /\ UNCHANGED <<input, limit, capacity, groupVars, pc>>
    BY <1>8 DEF LineUp, streamVars
  <2>2. Stuck(n) => Stuck(n)'
    BY <2>1, SameRuns
  <2>3. GroupsFit(n)'
    BY <1>0, <1>2, <2>1, <2>2, GroupsKept
  <2>4. result'.is # "row" /\ ReaderAt(n)'
    BY <1>0, <1>1, <1>8, <2>1, LineUpStep
  <2> QED
    BY <1>3, <1>4, <2>1, <2>3, <2>4
<1>9. CASE RefuseRecord
  <2>1. /\ pos' = Start /\ pending = None /\ pending' = pending /\ pc # "idle" /\ pc' = "idle"
        /\ UNCHANGED <<streamVars, buf, capacity, base, inputDone, indexVars, passed>>
        /\ UNCHANGED <<input, limit, reading, inGroup, made, lapsed, group>> /\ result'.is # "row"
    BY <1>9 DEF RefuseRecord, Returns, streamVars, groupVars
  <2>2. n \in DOMAIN input /\ input[n].kind \in {"malformed", "badControl"}
    <3>1. CASE Malformed
      BY <1>0, <3>1, MalformedIs
    <3>2. CASE Scans({"badControl"})
      BY <1>0, <3>2, StartIs DEF Scans, ReaderAt, Stands
    <3> QED
      BY <1>9, <3>1, <3>2 DEF RefuseRecord
  <2>3. Stuck(n)'
    BY <2>1, <2>2 DEF Stuck
  <2>4. GroupsFit(n)' /\ ReaderAt(n)'
    BY <1>0, <2>1, <2>3, GroupsGivenUp, StandStill
  <2> QED
    BY <1>3, <1>4, <2>1, <2>4
<1>10. CASE FillTooLarge
  <2>1. /\ pc # "idle" /\ pc' = "idle" /\ result'.is # "row" /\ capacity' = capacity
        /\ UNCHANGED <<input, limit, reading, inGroup, made, lapsed, group>>
        /\ Incomplete /\ Len(Rest) = capacity /\ capacity >= MaxRecord
    BY <1>10 DEF FillTooLarge, Filling, TooLarge, Returns, streamVars, groupVars
  <2>3. ReaderAt(n)'
    <3>1. /\ pending = None /\ pending' = None /\ ~inputDone /\ base' = base + Start /\ pos' = 0
          /\ buf' = Rest /\ UNCHANGED <<streamVars, inputDone, indexVars, passed>>
      BY <1>10 DEF FillTooLarge, Filling, Compact
    <3> QED
      BY <1>0, <2>1, <3>1, CompactStep
  <2>4. Stuck(n)
    <3> SUFFICES ASSUME n \in DOMAIN input PROVE MaxRecord <= capacity /\ capacity < input[n].len
      BY DEF Stuck
    <3>1. /\ Start \in Nat /\ Len(buf) \in Nat /\ Start + Len(Rest) = Len(buf) /\ capacity # 0
      BY <1>0, RestFacts DEF ReaderAt, StreamTypes, Window
    <3>2. Start < Len(buf)
      BY <1>2, <2>1, <3>1
    <3>3. Record = input[n]
      BY <1>0, <3>2, StartIs DEF ReaderAt, Stands
    <3>4. input[n].kind \in Kinds /\ input[n].len \in Nat
      BY <1>2, InputFacts
    <3>5. ~(Start + input[n].len <= Len(buf))
      BY <2>1, <3>2, <3>3, <3>4 DEF Incomplete, Scans
    <3> QED
      BY <1>2, <2>1, <3>1, <3>4, <3>5, SizesAssumption
  <2>5. Stuck(n)'
    BY <2>1, <2>4, SameRuns
  <2>6. GroupsFit(n)'
    BY <1>0, <2>1, <2>5, GroupsGivenUp
  <2> QED
    BY <1>3, <1>4, <2>1, <2>3, <2>6
<1>11. ASSUME ~TooLarge, capacity' = Grown, UNCHANGED <<input, limit>> PROVE Stuck(n) => Stuck(n)'
  <2>1. Len(Rest) \in Nat /\ Len(Rest) <= capacity /\ MaxRecord \in Nat
    BY <1>0, RestFacts, SizesAssumption
  <2>2. MaxRecord <= capacity => Grown = capacity
    BY <1>2, <1>11, <2>1 DEF TooLarge, Grown
  <2> QED
    BY <1>11, <2>2 DEF Stuck, WholeRecord
<1>12. ASSUME NEW m \in 0..limit, Fill(m) PROVE GroupInv'
  <2>1. /\ pc # "idle" /\ result' = result /\ UNCHANGED <<input, limit, groupVars, pc>>
        /\ ~TooLarge /\ capacity' = Grown
    BY <1>12 DEF Fill, Filling
  <2>2. GroupsFit(n)'
    BY <1>0, <1>2, <1>11, <2>1, GroupsKept
  <2>3. ReaderAt(n)' /\ result'.is # "row"
    BY <1>0, <1>1, <1>12, <2>1, ReadStep
  <2> QED
    BY <1>3, <1>4, <2>1, <2>2, <2>3
<1>13. CASE FillFails
  <2>1. /\ pending = None /\ pending' = None /\ ~inputDone /\ base' = base + Start /\ pos' = 0
        /\ buf' = Rest /\ ~TooLarge /\ capacity' = Grown /\ result'.is # "row"
        /\ UNCHANGED <<streamVars, inputDone, indexVars, passed>>
    BY <1>13 DEF FillFails, Filling, Compact, Returns
  <2>2. /\ UNCHANGED <<input, limit, reading, inGroup, made, group>> /\ pc # "idle" /\ pc' = "idle"
        /\ lapsed' = (lapsed \/ pc \in {"drain", "group"})
    BY <1>13 DEF FillFails, Filling, Returns, streamVars
  <2>3. ReaderAt(n)'
    BY <1>0, <2>1, CompactStep
  <2>4. GroupsFit(n)'
    BY <1>0, <1>11, <2>1, <2>2, GroupsLapsed
  <2> QED
    BY <1>3, <1>4, <2>1, <2>2, <2>3, <2>4
<1>15. CASE Truncated
  <2>1. /\ AtEnd /\ pos' = Start /\ pc' = "idle" /\ result'.is # "row"
        /\ UNCHANGED <<streamVars, buf, capacity, base, inputDone, indexVars, passed, pending>>
        /\ UNCHANGED <<input, limit, reading, inGroup, made, lapsed, group>>
    BY <1>15 DEF Truncated, Returns, groupVars, streamVars
  <2>2. ReaderAt(n)' /\ Stuck(n)' /\ pc # "idle"
    BY <1>0, <2>1, StandStill, EndIsStuck, SameRuns DEF AtEnd
  <2>3. GroupsFit(n)'
    BY <1>0, <2>1, <2>2, GroupsGivenUp
  <2> QED
    BY <1>3, <1>4, <2>1, <2>2, <2>3
<1>16. CASE End
  <2>1. /\ AtEnd /\ pos' = Start /\ pc' = "idle" /\ result'.is # "row"
        /\ group' = IF pc = "row" THEN [group EXCEPT !.done = TRUE] ELSE None
        /\ inGroup' = (inGroup /\ pc = "row")
        /\ UNCHANGED <<streamVars, buf, capacity, base, inputDone, indexVars, passed, pending>>
        /\ UNCHANGED <<input, limit, reading, made, lapsed>>
    BY <1>16 DEF End, Returns, streamVars
  <2>2. ReaderAt(n)' /\ Stuck(n)'
    BY <1>0, <2>1, StandStill, EndIsStuck, SameRuns DEF AtEnd
  <2>3. /\ pc = "row" => group # None /\ reading # "events"
        /\ group \in [no : Nat, done : BOOLEAN, key : Nat \cup {None}] \cup {None}
        /\ inGroup \in BOOLEAN
    BY <1>0 DEF GroupsFit, CallTypes, CallsFit
  <2>4. group' = None \/ group' \in [no : Nat, done : {TRUE}, key : Nat \cup {None}]
    BY <2>1, <2>3
  <2>5. CallTypes'
    BY <1>0, <2>1, <2>3, <2>4 DEF GroupsFit, CallTypes
  <2>6. CallsFit' /\ LiveGroup(n)' /\ Counted(n)'
    BY <2>1, <2>2, <2>3, <2>4 DEF CallsFit, LiveGroup, Counted
  <2>7. GroupsFit(n)'
    BY <2>5, <2>6 DEF GroupsFit
  <2> QED
    BY <1>3, <1>4, <2>1, <2>2, <2>7
<1>17. CASE EventReady
  <2>1. /\ pc = "event" /\ pending # None /\ Consume /\ pc' = "idle"
        /\ UNCHANGED <<streamVars, buf, capacity, base, inputDone, tableIndex, rangeIndex>>
        /\ UNCHANGED <<input, reading, inGroup, group, made, lapsed>>
        /\ result' = IF pending.kind \in Rows THEN TheRow ELSE [is |-> "switch"]
    BY <1>17 DEF EventReady, Ready, Returns, streamVars, groupVars
  <2>2. reading = "events" /\ group = None
    BY <1>0, <2>1 DEF GroupsFit, CallsFit
  <2>3. n \in DOMAIN input /\ ReaderAt(n + 1)'
    BY <1>0, <2>1, ConsumeStep
  <2>4. GroupsFit(n + 1)'
    BY <1>0, <2>1, <2>2 DEF GroupsFit, CallTypes, CallsFit, LiveGroup, Counted
  <2>5. GroupsAreSegments'
    BY <2>1, <2>2 DEF GroupsAreSegments, TheRow
  <2> QED
    BY <1>5, <2>1, <2>3, <2>4, <2>5
<1>18. CASE DrainReady
  <2>1. /\ pc # "idle" /\ pending # None /\ Consume /\ result' = result /\ input' = input
        /\ UNCHANGED <<streamVars, buf, capacity, base, inputDone, tableIndex, rangeIndex>>
    BY <1>18 DEF DrainReady, Ready, streamVars
  <2>2. n \in DOMAIN input /\ ReaderAt(n + 1)'
    BY <1>0, <2>1, ConsumeStep
  <2>3. result'.is # "row" /\ GroupsFit(n + 1)'
    BY <1>0, <1>1, <1>18, <2>1, GroupsDrained
  <2> QED
    BY <1>3, <1>5, <2>1, <2>2, <2>3
<1>19. CASE EmptyGroup
  <2>1. /\ pending # None /\ Consume /\ result'.is # "row" /\ input' = input
        /\ UNCHANGED <<streamVars, buf, capacity, base, inputDone, tableIndex, rangeIndex>>
    BY <1>19 DEF EmptyGroup, Ready, Returns, streamVars
  <2>2. n \in DOMAIN input /\ ReaderAt(n + 1)' /\ GroupsFit(n + 1)'
    BY <1>0, <1>19, <2>1, ConsumeStep, GroupsEmpty
  <2> QED
    BY <1>3, <1>5, <2>1, <2>2
<1>20. CASE FullGroup
  <2>1. /\ UNCHANGED <<streamVars, buf, capacity, pos, base, inputDone, indexVars, passed, pending, input>>
        /\ result'.is # "row"
    BY <1>20 DEF FullGroup, Returns, streamVars, bufferVars
  <2>2. ReaderAt(n)' /\ GroupsFit(n)'
    BY <1>0, <1>20, <2>1, StandStill, GroupsMade
  <2> QED
    BY <1>3, <1>4, <2>1, <2>2
<1>21. CASE RowReady /\ pending.kind = "switch"
  <2>1. /\ UNCHANGED <<streamVars, buf, capacity, pos, base, inputDone, indexVars, passed, pending, input>>
        /\ result'.is # "row"
    BY <1>21 DEF RowReady, Returns, streamVars, indexVars
  <2>2. ReaderAt(n)' /\ GroupsFit(n)'
    BY <1>0, <1>21, <2>1, StandStill, GroupsDone
  <2> QED
    BY <1>3, <1>4, <2>1, <2>2
<1>22. CASE RowReady /\ pending.kind # "switch"
  <2>1. /\ pending # None /\ Consume /\ input' = input
        /\ UNCHANGED <<streamVars, buf, capacity, base, inputDone, tableIndex, rangeIndex>>
    BY <1>22 DEF RowReady, Ready, streamVars
  <2>2. n \in DOMAIN input /\ ReaderAt(n + 1)' /\ GroupsFit(n + 1)' /\ GroupsAreSegments'
    BY <1>0, <1>22, <2>1, ConsumeStep, GroupsRow, SegmentHeld
  <2> QED
    BY <1>5, <2>1, <2>2
<1>23. CASE UNCHANGED vars
  <2>1. /\ UNCHANGED <<streamVars, buf, capacity, pos, base, inputDone, indexVars, passed, pending>>
        /\ UNCHANGED <<input, limit, capacity, groupVars, pc, result, reading, lapsed, passed>>
    BY <1>23 DEF vars, streamVars, bufferVars, groupVars
  <2>2. Stuck(n) => Stuck(n)'
    BY <2>1, SameRuns
  <2>3. ReaderAt(n)' /\ GroupsFit(n)'
    BY <1>0, <1>2, <2>1, <2>2, StandStill, GroupsKept
  <2>4. GroupsAreSegments'
    BY <2>1 DEF GroupInv, GroupsAreSegments, SwitchesBefore, LastBefore
  <2> QED
    BY <1>4, <2>1, <2>3, <2>4
<1> QED
  BY <1>6, <1>7, <1>8, <1>9, <1>10, <1>12, <1>13, <1>15, <1>16, <1>17, <1>18, <1>19, <1>20,
     <1>21, <1>22, <1>23 DEF Next, ReaderStep

\* In the binary format a row is handed out by the group of its own run between key
\* switches, with the key of the run's first row, whatever was drained before.
THEOREM GroupsHold ==
  ASSUME BinaryStreams
  PROVE  Spec => []GroupsAreSegments
<1> DEFINE Inv == ReaderInv /\ GroupInv
<1>1. Init => Inv
  BY ReaderInvInit, GroupInvInit
<1>2. Inv /\ [Next]_vars => Inv'
  BY ReaderInvStep, GroupInvStep
<1>3. Inv => GroupsAreSegments
  BY DEF GroupInv
<1> QED
  BY <1>1, <1>2, <1>3, PTL DEF Spec
=============================================================================
