--------------------------- MODULE StreamProofs ---------------------------
(***************************************************************************)
(* What goes through a stream arrives as it was sent, for every stream:    *)
(* the body of an upload (RowUpload), the packets of a connection (Bus),   *)
(* the tables a job writes (JobWriter) and the rows of a table             *)
(* (TabletClient).                                                         *)
(*                                                                         *)
(* Each proof has the same shape.  What has gone out, what is held back    *)
(* and what is still to come make up the whole, and a step moves elements  *)
(* from one to the next.  The sequences are put together by FlattenSeq and *)
(* by recursive functions; what these compute is shown by induction on the *)
(* number of elements, as a set of numbers that contains 0 and is closed   *)
(* under successor.                                                        *)
(***************************************************************************)
EXTENDS Integers, Sequences, SequencesExt, RowUpload, Bus, JobWriter, TabletClient, SequenceTheorems,
        FiniteSetTheorems, NaturalsInduction, WellFoundedInduction, TLAPS

\* A set of numbers that is not empty has a least one.
LEMMA LeastOf ==
  ASSUME NEW T \in SUBSET Nat, T # {}
  PROVE  \E m \in T : \A k \in T : ~(k < m)
<1>1. PICK m \in T : \A k \in T : <<k, m>> \notin OpToRel(<, Nat)
  BY NatLessThanWellFounded, WFMin
<1>2. ASSUME NEW k \in T, k < m PROVE FALSE
  <2>1. <<k, m>> \in OpToRel(<, Nat)
    BY <1>2 DEF OpToRel
  <2> QED
    BY <1>1, <2>1
<1> QED
  BY <1>2

\* Induction, for a set of numbers.
LEMMA Inductive ==
  ASSUME NEW P \in SUBSET Nat, 0 \in P, \A n \in P : n + 1 \in P
  PROVE  P = Nat
<1> SUFFICES ASSUME Nat \ P # {} PROVE FALSE
  OBVIOUS
<1>1. Nat \ P \in SUBSET Nat
  OBVIOUS
<1>2. PICK m \in Nat \ P : \A k \in Nat \ P : ~(k < m)
  <2> QED BY <1>1, LeastOf
<1>3. m # 0 /\ m - 1 \in Nat /\ m - 1 < m /\ (m - 1) + 1 = m
  BY <1>2
<1>4. m - 1 \in P
  BY <1>2, <1>3
<1> QED
  BY <1>2, <1>3, <1>4

\* Three sequences are the same whichever two are joined first.
Joinable(a, b, c) == (a \o b) \o c = a \o (b \o c)
LEMMA Joined ==
  ASSUME NEW S, NEW a \in Seq(S), NEW b \in Seq(S), NEW c \in Seq(S)
  PROVE  Joinable(a, b, c)
BY ConcatAssociative DEF Joinable

\* What FlattenSeq is computed by.
IsFlat(g, seqs, n) ==
  \A i \in 1..n : g[i] = IF i = 1 THEN seqs[i] ELSE g[i - 1] \o seqs[i]

\* The recursion that puts sequences together has a solution
LEMMA FlatExists ==
  ASSUME NEW S, NEW seqs \in Seq(Seq(S))
  PROVE  \A n \in Nat : n <= Len(seqs) => \E g \in [1..n -> Seq(S)] : IsFlat(g, seqs, n)
<1> DEFINE P == {n \in Nat : n <= Len(seqs) => \E g \in [1..n -> Seq(S)] : IsFlat(g, seqs, n)}
<1>1. 0 \in P
  <2>1. 1..0 = {}
    OBVIOUS
  <2>2. [i \in 1..0 |-> <<>>] \in [1..0 -> Seq(S)] /\ IsFlat([i \in 1..0 |-> <<>>], seqs, 0)
    BY <2>1 DEF IsFlat
  <2> QED
    BY <2>2
<1>2. ASSUME NEW n \in P PROVE n + 1 \in P
  <2>1. n \in Nat /\ n + 1 \in Nat
    OBVIOUS
  <2> SUFFICES ASSUME n + 1 <= Len(seqs) PROVE \E g \in [1..n + 1 -> Seq(S)] : IsFlat(g, seqs, n + 1)
    BY <2>1
  <2>2. n <= Len(seqs) /\ seqs[n + 1] \in Seq(S)
    BY <2>1
  <2>3. PICK g \in [1..n -> Seq(S)] : IsFlat(g, seqs, n)
    BY <2>2
  <2> DEFINE h == [i \in 1..n + 1 |-> IF i <= n THEN g[i]
                                      ELSE IF n = 0 THEN seqs[i] ELSE g[n] \o seqs[i]]
  <2>4. n # 0 => g[n] \in Seq(S) /\ g[n] \o seqs[n + 1] \in Seq(S)
    BY <2>1, <2>2, <2>3, ConcatProperties
  <2>5. h \in [1..n + 1 -> Seq(S)]
    BY <2>1, <2>2, <2>4
  <2>6. ASSUME NEW i \in 1..n + 1 PROVE h[i] = IF i = 1 THEN seqs[i] ELSE h[i - 1] \o seqs[i]
    <3>1. CASE i <= n
      <4>0. i \in 1..n /\ h[i] = g[i]
        BY <2>1, <3>1
      <4>1. g[i] = IF i = 1 THEN seqs[i] ELSE g[i - 1] \o seqs[i]
        BY <2>3, <4>0, Zenon DEF IsFlat
      <4>2. i # 1 => h[i - 1] = g[i - 1]
        BY <2>1, <4>0
      <4> QED
        BY <4>0, <4>1, <4>2
    <3>2. CASE ~(i <= n)
      <4>1. i = n + 1 /\ (n # 0 => h[n] = g[n])
        BY <2>1, <3>2
      <4>2. h[i] = IF n = 0 THEN seqs[i] ELSE g[n] \o seqs[i]
        BY <2>1, <4>1
      <4>3. (i = 1 <=> n = 0) /\ i - 1 = n
        BY <2>1, <4>1
      <4> QED
        BY <4>1, <4>2, <4>3
    <3> QED
      BY <3>1, <3>2
  <2>7. IsFlat(h, seqs, n + 1)
    BY <2>6 DEF IsFlat
  <2> QED
    BY <2>5, <2>7
<1>3. P = Nat
  <2>1. P \in SUBSET Nat
    OBVIOUS
  <2> HIDE DEF P
  <2> QED
    BY <1>1, <1>2, <2>1, Inductive
<1> QED
  BY <1>3

\* ... and only one
LEMMA FlatUnique ==
  ASSUME NEW seqs, NEW g, NEW h, NEW n \in Nat, IsFlat(g, seqs, n), IsFlat(h, seqs, n)
  PROVE  \A i \in 1..n : g[i] = h[i]
<1> DEFINE P == {i \in Nat : i \in 1..n => g[i] = h[i]}
<1>1. 0 \in P
  OBVIOUS
<1>2. ASSUME NEW i \in P PROVE i + 1 \in P
  BY DEF IsFlat
<1>3. P = Nat
  <2>1. P \in SUBSET Nat
    OBVIOUS
  <2> HIDE DEF P
  <2> QED
    BY <1>1, <1>2, <2>1, Inductive
<1> QED
  BY <1>3

\* ... which is what FlattenSeq returns.
LEMMA FlattenDef ==
  ASSUME NEW S, NEW seqs \in Seq(Seq(S)), seqs # <<>>
  PROVE  \E g \in [1..Len(seqs) -> Seq(S)] : IsFlat(g, seqs, Len(seqs)) /\ FlattenSeq(seqs) = g[Len(seqs)]
<1> DEFINE n == Len(seqs)
           F(g) == [i \in 1..n |-> IF i = 1 THEN seqs[i] ELSE g[i - 1] \o seqs[i]]
           c == CHOOSE g : g = F(g)
<1>1. n \in Nat /\ n # 0
  OBVIOUS
<1>2. PICK g \in [1..n -> Seq(S)] : IsFlat(g, seqs, n)
  <2>1. n <= Len(seqs)
    BY <1>1
  <2> HIDE DEF n
  <2> QED
    BY <1>1, <2>1, FlatExists
<1>3. g = F(g)
  <2>1. ASSUME NEW i \in 1..n PROVE g[i] = F(g)[i]
    <3>1. F(g)[i] = IF i = 1 THEN seqs[i] ELSE g[i - 1] \o seqs[i]
      BY Zenon
    <3>2. g[i] = IF i = 1 THEN seqs[i] ELSE g[i - 1] \o seqs[i]
      BY <1>2, Zenon DEF IsFlat
    <3> HIDE DEF F
    <3> QED
      BY <3>1, <3>2
  <2>2. g = [i \in 1..n |-> g[i]] /\ F(g) = [i \in 1..n |-> F(g)[i]]
    OBVIOUS
  <2> HIDE DEF F
  <2> QED
    BY <2>1, <2>2
<1>4. c = F(c)
  BY <1>3
<1>5. IsFlat(c, seqs, n)
  <2> HIDE DEF c
  <2> QED
   BY <1>4, <1>1 DEF IsFlat
<1>6. DOMAIN c = 1..n
  <2> HIDE DEF c
  <2> QED
   BY <1>4
<1>7. c = [i \in 1..n |-> c[i]]
  <2> HIDE DEF c
  <2> QED
   BY <1>4
<1>8. \A i \in 1..n : c[i] = g[i]
  <2> HIDE DEF c, n
  <2> QED
    BY <1>1, <1>2, <1>5, FlatUnique
<1>9. c = g
  <2> HIDE DEF c
  <2> QED
    BY <1>7, <1>8
<1>10. FlattenSeq(seqs) = c[n]
  BY <1>1 DEF FlattenSeq
<1> QED
  BY <1>2, <1>9, <1>10

\* Nothing put together is nothing.
LEMMA FlattenEmpty ==
  FlattenSeq(<<>>) = <<>>
BY DEF FlattenSeq

\* What is put together is made of the same elements.
LEMMA FlattenIn ==
  ASSUME NEW S, NEW seqs \in Seq(Seq(S))
  PROVE  FlattenSeq(seqs) \in Seq(S)
<1>1. CASE seqs = <<>>
  BY <1>1, FlattenEmpty, EmptySeq
<1>2. CASE seqs # <<>>
  <2>1. Len(seqs) \in 1..Len(seqs)
    BY <1>2
  <2>2. PICK g \in [1..Len(seqs) -> Seq(S)] : FlattenSeq(seqs) = g[Len(seqs)]
    BY <1>2, FlattenDef
  <2> QED
    BY <2>1, <2>2
<1> QED
  BY <1>1, <1>2

\* One more sequence comes after the others.
LEMMA FlattenAppend ==
  ASSUME NEW S, NEW seqs \in Seq(Seq(S)), NEW s \in Seq(S)
  PROVE  FlattenSeq(Append(seqs, s)) = FlattenSeq(seqs) \o s
<1> DEFINE all == Append(seqs, s)
           n == Len(seqs)
<1>1. /\ all \in Seq(Seq(S)) /\ all # <<>> /\ Len(all) = n + 1 /\ n \in Nat
      /\ \A i \in 1..n : all[i] = seqs[i]
      /\ all[n + 1] = s
  BY AppendProperties
<1>2. PICK g : IsFlat(g, all, n + 1) /\ FlattenSeq(all) = g[n + 1]
  <2> HIDE DEF all, n
  <2> QED
    BY <1>1, FlattenDef
<1>3. CASE n = 0
  <2>1. seqs = <<>> /\ g[1] = all[1]
    BY <1>1, <1>2, <1>3 DEF IsFlat
  <2> QED
    BY <1>1, <1>2, <1>3, <2>1, FlattenEmpty, ConcatEmptySeq
<1>4. CASE n # 0
  <2>1. seqs # <<>>
    BY <1>4
  <2>2. PICK h : IsFlat(h, seqs, n) /\ FlattenSeq(seqs) = h[n]
    BY <2>1, FlattenDef
  <2>3. IsFlat(g, seqs, n)
    <3> SUFFICES ASSUME NEW i \in 1..n PROVE g[i] = IF i = 1 THEN seqs[i] ELSE g[i - 1] \o seqs[i]
      BY DEF IsFlat
    <3>1. i \in 1..n + 1 /\ all[i] = seqs[i]
      BY <1>1
    <3>2. g[i] = IF i = 1 THEN all[i] ELSE g[i - 1] \o all[i]
      BY <1>2, <3>1, Zenon DEF IsFlat
    <3> HIDE DEF all
    <3> QED
      BY <3>1, <3>2
  <2>4. g[n] = h[n]
    <3>1. n \in 1..n
      BY <1>1, <1>4
    <3>2. n \in Nat /\ IsFlat(g, seqs, n) /\ IsFlat(h, seqs, n)
      BY <1>1, <2>2, <2>3
    <3> HIDE DEF all, n
    <3>3. \A i \in 1..n : g[i] = h[i]
      BY <3>2, FlatUnique
    <3> QED
      BY <3>1, <3>3, Zenon
  <2>5. n + 1 \in 1..n + 1 /\ n + 1 # 1 /\ (n + 1) - 1 = n
    BY <1>1, <1>4
  <2>6. g[n + 1] = IF n + 1 = 1 THEN all[n + 1] ELSE g[(n + 1) - 1] \o all[n + 1]
    BY <1>2, <2>5, Zenon DEF IsFlat
  <2>7. FlattenSeq(all) = FlattenSeq(seqs) \o s
    <3>1. g[n + 1] = g[n] \o s
      <4> HIDE DEF all, n
      <4>1. g[n + 1] = g[(n + 1) - 1] \o all[n + 1]
        BY <2>5, <2>6, Zenon
      <4>2. g[(n + 1) - 1] = g[n]
        BY <2>5
      <4>3. all[n + 1] = s
        BY <1>1
      <4> QED
        BY <4>1, <4>2, <4>3, Zenon
    <3>2. FlattenSeq(all) = g[n + 1] /\ FlattenSeq(seqs) = g[n]
      <4> HIDE DEF all, n
      <4> QED
        BY <1>2, <2>2, <2>4, Zenon
    <3> HIDE DEF all, n
    <3> QED
      BY <3>1, <3>2, Zenon
  <2> QED
    BY <2>7
<1> QED
  BY <1>3, <1>4

\* A recursion over 0..n, by what a turn makes of what came before it.
Recurs(f, n, base, step) == f[0] = base /\ \A i \in 1..n : f[i] = step[i][f[i - 1]]

\* It has a solution.
LEMMA Recursion ==
  ASSUME NEW V, NEW n \in Nat, NEW base \in V, NEW step \in [1..n -> [V -> V]]
  PROVE  \E f \in [0..n -> V] : Recurs(f, n, base, step)
<1> DEFINE Solves(f, m) == f[0] = base /\ \A i \in 1..m : f[i] = step[i][f[i - 1]]
           P == {m \in Nat : m <= n => \E f \in [0..m -> V] : Solves(f, m)}
<1>1. 0 \in P
  <2>1. [i \in 0..0 |-> base] \in [0..0 -> V] /\ Solves([i \in 0..0 |-> base], 0)
    OBVIOUS
  <2> QED
    BY <2>1
<1>2. ASSUME NEW m \in P PROVE m + 1 \in P
  <2>1. m \in Nat /\ m + 1 \in Nat
    OBVIOUS
  <2> SUFFICES ASSUME m + 1 <= n PROVE \E f \in [0..m + 1 -> V] : Solves(f, m + 1)
    BY <2>1
  <2>2. m <= n /\ m + 1 \in 1..n /\ m \in 0..m /\ (m + 1) - 1 = m
    BY <2>1
  <2>3. PICK f \in [0..m -> V] : Solves(f, m)
    BY <2>2
  <2> DEFINE g == [i \in 0..m + 1 |-> IF i <= m THEN f[i] ELSE step[m + 1][f[m]]]
  <2>4. f[m] \in V /\ step[m + 1][f[m]] \in V
    BY <2>2, <2>3
  <2>5. g \in [0..m + 1 -> V]
    BY <2>1, <2>4
  <2>6. g[0] = base
    BY <2>1, <2>3
  <2>7. ASSUME NEW i \in 1..m + 1 PROVE g[i] = step[i][g[i - 1]]
    <3>1. CASE i <= m
      <4>1. g[i] = f[i] /\ g[i - 1] = f[i - 1] /\ i \in 1..m
        BY <2>1, <3>1
      <4>2. f[i] = step[i][f[i - 1]]
        BY <2>3, <4>1
      <4> HIDE DEF g
      <4> QED
        BY <4>1, <4>2
    <3>2. CASE ~(i <= m)
      <4>1. i = m + 1 /\ i - 1 = m /\ g[m] = f[m] /\ g[m + 1] = step[m + 1][f[m]]
        BY <2>1, <3>2
      <4> HIDE DEF g
      <4> QED
        BY <4>1
    <3> QED
      BY <3>1, <3>2
  <2> HIDE DEF g
  <2> QED
    BY <2>5, <2>6, <2>7
<1>3. P = Nat
  <2>1. P \in SUBSET Nat
    OBVIOUS
  <2> HIDE DEF P
  <2> QED
    BY <1>1, <1>2, <2>1, Inductive
<1>4. n \in P
  <2> HIDE DEF P
  <2> QED
    BY <1>3
<1>5. n <= n
  OBVIOUS
<1> QED
  BY <1>4, <1>5 DEF Recurs

\* A function on 1..n is a sequence.
LEMMA FunIsSeq ==
  ASSUME NEW S, NEW n \in Nat, NEW f \in [1..n -> S]
  PROVE  f \in Seq(S) /\ Len(f) = n
OBVIOUS

\* What comes first is a prefix.
LEMMA PrefixOfConcat ==
  ASSUME NEW S, NEW s \in Seq(S), NEW t \in Seq(S)
  PROVE  IsPrefix(s, s \o t)
<1>1. /\ Len(s) \in Nat /\ Len(t) \in Nat /\ s \o t \in Seq(S) /\ Len(s \o t) = Len(s) + Len(t)
      /\ \A i \in 1..Len(s) : (s \o t)[i] = s[i]
  <2>1. Len(s) \in Nat /\ Len(t) \in Nat
    OBVIOUS
  <2> QED
    BY <2>1, ConcatProperties
<1>2. SubSeq(s, 1, Len(s)) = s
  BY SubSeqFull
<1>3. SubSeq(s \o t, 1, Len(s)) = s
  <2> DEFINE u == SubSeq(s \o t, 1, Len(s))
  <2>1. \A i \in 1..Len(s) : (s \o t)[i] \in S
    BY <1>1
  <2>2. /\ u \in Seq(S) /\ Len(u) = Len(s)
        /\ \A i \in 1..Len(s) : u[i] = s[i]
    BY <1>1, <2>1, SubSeqProperties
  <2> HIDE DEF u
  <2>3. u = s
    BY <2>2, SeqEqual
  <2> QED
    BY <2>3 DEF u
<1> QED
  BY <1>1, <1>2, <1>3 DEF IsPrefix

\* A piece of a sequence and what comes after it.
LEMMA CutHere ==
  ASSUME NEW S, NEW b \in Seq(S), NEW p \in 0..Len(b), NEW q \in p..Len(b)
  PROVE  /\ SubSeq(b, p + 1, q) \in Seq(S) /\ SubSeq(b, q + 1, Len(b)) \in Seq(S)
         /\ SubSeq(b, p + 1, Len(b)) = SubSeq(b, p + 1, q) \o SubSeq(b, q + 1, Len(b))
<1>1. Len(b) \in Nat /\ p \in Nat /\ q \in Nat /\ p <= q /\ q <= Len(b)
  OBVIOUS
<1>2. (\A i \in p + 1..q : b[i] \in S) /\ (\A i \in q + 1..Len(b) : b[i] \in S)
  BY <1>1
<1>3. SubSeq(b, p + 1, q) \in Seq(S) /\ SubSeq(b, q + 1, Len(b)) \in Seq(S)
  BY <1>1, <1>2, SubSeqProperties
<1>4. p + 1 \in 1..Len(b) + 1 /\ q \in (p + 1) - 1..Len(b) /\ Len(b) \in q..Len(b)
  BY <1>1
<1> QED
  BY <1>3, <1>4, ConcatAdjacentSubSeq

\* One more element of a sequence.
LEMMA TakeOne ==
  ASSUME NEW S, NEW s \in Seq(S), NEW k \in Nat, k < Len(s)
  PROVE  /\ SubSeq(s, 1, k) \in Seq(S) /\ Len(SubSeq(s, 1, k)) = k /\ s[k + 1] \in S
         /\ SubSeq(s, 1, k + 1) = Append(SubSeq(s, 1, k), s[k + 1])
<1>1. Len(s) \in Nat /\ k + 1 \in 1..Len(s) /\ s[k + 1] \in S
  OBVIOUS
<1> DEFINE some == SubSeq(s, 1, k)
           more == SubSeq(s, 1, k + 1)
<1>2. (\A i \in 1..k : s[i] \in S) /\ (\A i \in 1..k + 1 : s[i] \in S)
  BY <1>1
<1>3. some \in Seq(S) /\ Len(some) = k /\ \A i \in 1..k : some[i] = s[i]
  BY <1>2, SubSeqProperties
<1>4. more \in Seq(S) /\ Len(more) = k + 1 /\ \A i \in 1..k + 1 : more[i] = s[i]
  BY <1>2, SubSeqProperties
<1> HIDE DEF some, more
<1> DEFINE app == Append(some, s[k + 1])
<1>5. /\ app \in Seq(S) /\ Len(app) = k + 1 /\ app[k + 1] = s[k + 1]
      /\ \A i \in 1..k : app[i] = s[i]
  BY <1>1, <1>3, AppendProperties
<1> HIDE DEF app
<1>6. ASSUME NEW i \in 1..k + 1 PROVE more[i] = app[i]
  <2>1. CASE i = k + 1
    BY <1>4, <1>5, <2>1
  <2>2. CASE i # k + 1
    <3>1. i \in 1..k
      BY <2>2
    <3> QED
      BY <1>4, <1>5, <3>1
  <2> QED
    BY <2>1, <2>2
<1>7. more = app
  BY <1>4, <1>5, <1>6, SeqEqual
<1> QED
  BY <1>1, <1>3, <1>7 DEF some, more, app

\* ... and of sequences put together.
LEMMA FlattenTake ==
  ASSUME NEW S, NEW seqs \in Seq(Seq(S)), NEW k \in Nat, k < Len(seqs)
  PROVE  /\ FlattenSeq(SubSeq(seqs, 1, k)) \in Seq(S) /\ seqs[k + 1] \in Seq(S)
         /\ FlattenSeq(SubSeq(seqs, 1, k + 1)) = FlattenSeq(SubSeq(seqs, 1, k)) \o seqs[k + 1]
<1> DEFINE some == SubSeq(seqs, 1, k)
<1>1. some \in Seq(Seq(S)) /\ seqs[k + 1] \in Seq(S) /\ SubSeq(seqs, 1, k + 1) = Append(some, seqs[k + 1])
  BY TakeOne
<1> HIDE DEF some
<1>2. FlattenSeq(Append(some, seqs[k + 1])) = FlattenSeq(some) \o seqs[k + 1] /\ FlattenSeq(some) \in Seq(S)
  BY <1>1, FlattenAppend, FlattenIn
<1> QED
  BY <1>1, <1>2 DEF some

\* What the first of some sequences make is where what all of them make begins.
LEMMA FlattenPrefix ==
  ASSUME NEW S, NEW seqs \in Seq(Seq(S)), NEW k \in Nat, k <= Len(seqs)
  PROVE  \A m \in k..Len(seqs) : \E t \in Seq(S) :
           FlattenSeq(SubSeq(seqs, 1, m)) = FlattenSeq(SubSeq(seqs, 1, k)) \o t
<1> DEFINE Flat(m) == FlattenSeq(SubSeq(seqs, 1, m))
           Grows(m) == \E t \in Seq(S) : Flat(m) = Flat(k) \o t
           P == {m \in Nat : m \in k..Len(seqs) => Grows(m)}
<1>1. Len(seqs) \in Nat
  OBVIOUS
<1>2. ASSUME NEW m \in Nat, m <= Len(seqs) PROVE Flat(m) \in Seq(S)
  <2>1. \A i \in 1..m : seqs[i] \in Seq(S)
    BY <1>1, <1>2
  <2>2. SubSeq(seqs, 1, m) \in Seq(Seq(S))
    BY <2>1, SubSeqProperties
  <2> QED
    BY <2>2, FlattenIn
<1>3. ASSUME NEW m \in Nat, m < Len(seqs) PROVE Flat(m + 1) = Flat(m) \o seqs[m + 1] /\ seqs[m + 1] \in Seq(S)
  BY <1>3, FlattenTake
<1> HIDE DEF Flat
<1>4. Grows(k)
  <2>1. Flat(k) \o <<>> = Flat(k) /\ <<>> \in Seq(S)
    BY <1>2, ConcatEmptySeq, EmptySeq
  <2> QED
    BY <2>1
<1>5. 0 \in P
  <2>1. 0 \in k..Len(seqs) => k = 0
    BY <1>1
  <2> HIDE DEF Grows
  <2> QED
    BY <1>4, <2>1
<1>6. ASSUME NEW m \in P PROVE m + 1 \in P
  <2>1. m \in Nat /\ m + 1 \in Nat
    OBVIOUS
  <2> SUFFICES ASSUME m + 1 \in k..Len(seqs) PROVE Grows(m + 1)
    BY <2>1
  <2>2. CASE m + 1 = k
    <3> HIDE DEF Grows
    <3> QED
      BY <1>4, <2>2
  <2>3. CASE m + 1 # k
    <3>1. m \in k..Len(seqs) /\ m < Len(seqs)
      BY <1>1, <2>1, <2>3
    <3>2. PICK t \in Seq(S) : Flat(m) = Flat(k) \o t
      BY <3>1
    <3> DEFINE e == seqs[m + 1]
               x == Flat(k)
    <3>3. e \in Seq(S) /\ x \in Seq(S)
      BY <1>2, <1>3, <2>1, <3>1
    <3>4. Flat(m + 1) = (x \o t) \o e
      BY <1>3, <2>1, <3>1, <3>2
    <3> HIDE DEF e, x
    <3>5. (x \o t) \o e = x \o (t \o e)
      <4>1. Joinable(x, t, e)
        BY <3>3, Joined
      <4> QED
        BY <4>1 DEF Joinable
    <3>6. t \o e \in Seq(S)
      BY <3>3, ConcatProperties
    <3> QED
      BY <3>4, <3>5, <3>6 DEF x
  <2> QED
    BY <2>2, <2>3
<1>7. P = Nat
  <2>1. P \in SUBSET Nat
    OBVIOUS
  <2> HIDE DEF P
  <2> QED
    BY <1>5, <1>6, <2>1, Inductive
<1>8. \A m \in k..Len(seqs) : m \in Nat /\ Grows(m)
  <2> HIDE DEF Grows
  <2> QED
    BY <1>1, <1>7
<1> QED
  BY <1>8 DEF Flat

\* Places in two sequences, one after the other.
LEMMA TwoParts ==
  ASSUME NEW S, NEW a \in Seq(S), NEW b \in Seq(S)
  PROVE  /\ a \o b \in Seq(S) /\ Len(a) \in Nat /\ Len(b) \in Nat /\ Len(a \o b) = Len(a) + Len(b)
         /\ \A i \in 1..Len(a) : (a \o b)[i] = a[i]
         /\ \A i \in 1..Len(b) : (a \o b)[Len(a) + i] = b[i]
<1>1. Len(a) \in Nat /\ Len(b) \in Nat
  OBVIOUS
<1>2. /\ a \o b \in Seq(S) /\ Len(a \o b) = Len(a) + Len(b)
      /\ \A i \in 1..Len(a) + Len(b) : (a \o b)[i] = IF i <= Len(a) THEN a[i] ELSE b[i - Len(a)]
  BY ConcatProperties
<1> DEFINE m == Len(a)
           n == Len(b)
           c == a \o b
<1>3. m \in Nat /\ n \in Nat /\ \A i \in 1..m + n : c[i] = IF i <= m THEN a[i] ELSE b[i - m]
  BY <1>1, <1>2
<1> HIDE DEF m, n, c
<1>4. ASSUME NEW i \in 1..m PROVE c[i] = a[i]
  BY <1>3
<1>5. ASSUME NEW i \in 1..n PROVE c[m + i] = b[i]
  <2>1. m + i \in 1..m + n /\ ~(m + i <= m) /\ (m + i) - m = i
    BY <1>3
  <2> QED
    BY <1>3, <2>1
<1> QED
  BY <1>1, <1>2, <1>4, <1>5 DEF m, n, c

\* Two recursions of the same steps agree as far as both go.
LEMMA RecursAgree ==
  ASSUME NEW f, NEW g, NEW n \in Nat, NEW m \in Nat, NEW base, NEW step, NEW other,
         Recurs(f, n, base, step), Recurs(g, m, base, other), n <= m,
         \A i \in 1..n : other[i] = step[i]
  PROVE  \A i \in 0..n : f[i] = g[i]
<1> DEFINE P == {i \in Nat : i <= n => f[i] = g[i]}
<1>1. 0 \in P
  BY DEF Recurs
<1>2. ASSUME NEW i \in P PROVE i + 1 \in P
  <2>1. i \in Nat /\ i + 1 \in Nat
    OBVIOUS
  <2> SUFFICES ASSUME i + 1 <= n PROVE f[i + 1] = g[i + 1]
    BY <2>1
  <2>2. i <= n /\ i + 1 \in 1..n /\ i + 1 \in 1..m /\ (i + 1) - 1 = i
    BY <2>1
  <2>3. f[i] = g[i]
    BY <2>2
  <2>4. f[i + 1] = step[i + 1][f[i]] /\ g[i + 1] = other[i + 1][g[i]]
    BY <2>2 DEF Recurs
  <2> QED
    BY <2>2, <2>3, <2>4
<1>3. P = Nat
  <2>1. P \in SUBSET Nat
    OBVIOUS
  <2> HIDE DEF P
  <2> QED
    BY <1>1, <1>2, <2>1, Inductive
<1>4. ASSUME NEW i \in 0..n PROVE f[i] = g[i]
  <2>1. i \in Nat /\ i <= n
    OBVIOUS
  <2>2. i \in P
    <3> HIDE DEF P
    <3> QED
      BY <1>3, <2>1
  <2> QED
    BY <2>1, <2>2
<1> QED
  BY <1>4

\* One more element of what comes second.
LEMMA ConcatTake ==
  ASSUME NEW S, NEW s \in Seq(S), NEW t \in Seq(S), NEW k \in Nat, k < Len(t)
  PROVE  /\ s \o SubSeq(t, 1, k) \in Seq(S) /\ t[k + 1] \in S
         /\ s \o SubSeq(t, 1, k + 1) = Append(s \o SubSeq(t, 1, k), t[k + 1])
<1>1. /\ SubSeq(t, 1, k) \in Seq(S) /\ t[k + 1] \in S
      /\ SubSeq(t, 1, k + 1) = Append(SubSeq(t, 1, k), t[k + 1])
  BY TakeOne
<1> DEFINE u == SubSeq(t, 1, k)
           e == t[k + 1]
<1> HIDE DEF u, e
<1>2. u \in Seq(S) /\ e \in S
  BY <1>1 DEF u, e
<1>3. s \o u \in Seq(S) /\ <<e>> \in Seq(S)
  BY <1>2, ConcatProperties
<1>4. Append(u, e) = u \o <<e>>
  BY <1>2, AppendIsConcat
<1>5. Append(s \o u, e) = (s \o u) \o <<e>>
  BY <1>2, <1>3, AppendIsConcat
<1>6. s \o (u \o <<e>>) = (s \o u) \o <<e>>
  <2>1. Joinable(s, u, <<e>>)
    BY <1>2, <1>3, Joined
  <2> QED
    BY <2>1 DEF Joinable
<1> QED
  BY <1>1, <1>2, <1>3, <1>4, <1>5, <1>6 DEF u, e

\* Put together, the first of some sequences comes first.
LEMMA FlattenHead ==
  ASSUME NEW S, NEW first \in Seq(S), NEW rest \in Seq(Seq(S))
  PROVE  FlattenSeq(<<first>> \o rest) = first \o FlattenSeq(rest)
<1> DEFINE all(k) == <<first>> \o SubSeq(rest, 1, k)
           P == {k \in Nat : k <= Len(rest) => FlattenSeq(all(k)) = first \o FlattenSeq(SubSeq(rest, 1, k))}
<1>0. <<first>> \in Seq(Seq(S)) /\ Len(rest) \in Nat
  OBVIOUS
<1>1. 0 \in P
  <2>1. SubSeq(rest, 1, 0) = <<>>
    BY SubSeqEmpty
  <2>2. all(0) = <<first>>
    BY <1>0, <2>1, ConcatEmptySeq
  <2>3. Append(<<>>, first) = <<first>> /\ <<>> \in Seq(Seq(S)) /\ <<>> \in Seq(S)
    BY EmptySeq
  <2>4. FlattenSeq(<<first>>) = FlattenSeq(<<>>) \o first
    BY <2>3, FlattenAppend
  <2>5. FlattenSeq(<<first>>) = first
    BY <2>3, <2>4, FlattenEmpty, ConcatEmptySeq
  <2>6. first \o FlattenSeq(SubSeq(rest, 1, 0)) = first
    BY <2>1, FlattenEmpty, ConcatEmptySeq
  <2>7. FlattenSeq(all(0)) = first \o FlattenSeq(SubSeq(rest, 1, 0))
    BY <2>2, <2>5, <2>6
  <2> QED
    BY <2>7
<1>2. ASSUME NEW k \in P PROVE k + 1 \in P
  <2>1. k \in Nat /\ k + 1 \in Nat
    OBVIOUS
  <2> SUFFICES ASSUME k + 1 <= Len(rest) PROVE FlattenSeq(all(k + 1)) = first \o FlattenSeq(SubSeq(rest, 1, k + 1))
    BY <2>1
  <2>2. k < Len(rest) /\ k <= Len(rest)
    BY <1>0, <2>1
  <2>3. FlattenSeq(all(k)) = first \o FlattenSeq(SubSeq(rest, 1, k))
    BY <2>2
  <2>4. all(k) \in Seq(Seq(S)) /\ rest[k + 1] \in Seq(S) /\ all(k + 1) = Append(all(k), rest[k + 1])
    BY <1>0, <2>1, <2>2, ConcatTake
  <2>5. /\ FlattenSeq(SubSeq(rest, 1, k)) \in Seq(S)
        /\ FlattenSeq(SubSeq(rest, 1, k + 1)) = FlattenSeq(SubSeq(rest, 1, k)) \o rest[k + 1]
    BY <2>1, <2>2, FlattenTake
  <2> DEFINE x == FlattenSeq(SubSeq(rest, 1, k))
             y == rest[k + 1]
  <2> HIDE DEF all, P, x, y
  <2>6. FlattenSeq(all(k + 1)) = FlattenSeq(all(k)) \o y
    BY <2>4, FlattenAppend DEF y
  <2>7. x \in Seq(S) /\ y \in Seq(S) /\ first \in Seq(S)
    BY <2>4, <2>5 DEF x, y
  <2>8. (first \o x) \o y = first \o (x \o y)
    <3>1. Joinable(first, x, y)
      BY <2>7, Joined
    <3> QED
      BY <3>1 DEF Joinable
  <2> QED
    BY <2>3, <2>5, <2>6, <2>8 DEF x, y
<1>3. P = Nat
  <2>1. P \in SUBSET Nat
    OBVIOUS
  <2> HIDE DEF P
  <2> QED
    BY <1>1, <1>2, <2>1, Inductive
<1>4. FlattenSeq(all(Len(rest))) = first \o FlattenSeq(SubSeq(rest, 1, Len(rest)))
  <2>1. Len(rest) \in P
    <3> HIDE DEF P
    <3> QED
      BY <1>0, <1>3
  <2>2. Len(rest) <= Len(rest)
    BY <1>0
  <2> HIDE DEF all
  <2> QED
    BY <2>1, <2>2
<1>5. SubSeq(rest, 1, Len(rest)) = rest
  BY SubSeqFull
<1> QED
  BY <1>4, <1>5

\* Cut into single elements and put together again.
LEMMA FlattenSingles ==
  ASSUME NEW S, NEW s \in Seq(S)
  PROVE  LET ones == [k \in 1..Len(s) |-> <<s[k]>>]
         IN  ones \in Seq(Seq(S)) /\ Len(ones) = Len(s) /\ FlattenSeq(ones) = s
<1> DEFINE n == Len(s)
           ones == [k \in 1..n |-> <<s[k]>>]
           P == {k \in Nat : k <= n => FlattenSeq(SubSeq(ones, 1, k)) = SubSeq(s, 1, k)}
<1>0. n \in Nat /\ \A k \in 1..n : s[k] \in S /\ <<s[k]>> \in Seq(S)
  OBVIOUS
<1>1. ones \in Seq(Seq(S)) /\ Len(ones) = n /\ \A k \in 1..n : ones[k] = <<s[k]>>
  <2>1. ones \in [1..n -> Seq(S)] /\ \A k \in 1..n : ones[k] = <<s[k]>>
    BY <1>0
  <2> HIDE DEF ones, n
  <2> QED
    BY <1>0, <2>1, FunIsSeq
<1> HIDE DEF ones
<1>2. 0 \in P
  <2>1. SubSeq(ones, 1, 0) = <<>> /\ SubSeq(s, 1, 0) = <<>>
    BY SubSeqEmpty
  <2>2. FlattenSeq(SubSeq(ones, 1, 0)) = SubSeq(s, 1, 0)
    BY <2>1, FlattenEmpty
  <2> QED
    BY <2>2
<1>3. ASSUME NEW k \in P PROVE k + 1 \in P
  <2>1. k \in Nat /\ k + 1 \in Nat
    OBVIOUS
  <2> SUFFICES ASSUME k + 1 <= n PROVE FlattenSeq(SubSeq(ones, 1, k + 1)) = SubSeq(s, 1, k + 1)
    BY <2>1
  <2>2. k < n /\ k <= n /\ k + 1 \in 1..n
    BY <1>0, <2>1
  <2>3. FlattenSeq(SubSeq(ones, 1, k)) = SubSeq(s, 1, k)
    BY <2>2
  <2>4. FlattenSeq(SubSeq(ones, 1, k + 1)) = FlattenSeq(SubSeq(ones, 1, k)) \o ones[k + 1]
    BY <1>1, <2>1, <2>2, FlattenTake
  <2>5. SubSeq(s, 1, k) \in Seq(S) /\ SubSeq(s, 1, k + 1) = Append(SubSeq(s, 1, k), s[k + 1]) /\ s[k + 1] \in S
    BY <2>1, <2>2, TakeOne
  <2> HIDE DEF P
  <2>6. Append(SubSeq(s, 1, k), s[k + 1]) = SubSeq(s, 1, k) \o <<s[k + 1]>>
    BY <2>5, AppendIsConcat
  <2> QED
    BY <1>1, <2>2, <2>3, <2>4, <2>5, <2>6
<1>4. P = Nat
  <2>1. P \in SUBSET Nat
    OBVIOUS
  <2> HIDE DEF P
  <2> QED
    BY <1>2, <1>3, <2>1, Inductive
<1>5. FlattenSeq(SubSeq(ones, 1, n)) = SubSeq(s, 1, n)
  <2>1. n \in P
    <3> HIDE DEF P
    <3> QED
      BY <1>0, <1>4
  <2> QED
    BY <1>0, <2>1
<1>6. SubSeq(ones, 1, n) = ones /\ SubSeq(s, 1, n) = s
  BY <1>1, SubSeqFull
<1> QED
  BY <1>1, <1>5, <1>6 DEF ones

-----------------------------------------------------------------------------
(***************************************************************************)
(* RowUpload: a body is whole.                                             *)
(***************************************************************************)
\* The bytes of the first k rows.
Body(k) == FlattenSeq([i \in 1..k |-> EncodedBytes(i)])
RowByte == Nat \X Nat

\* A row that can be written has bytes, and they are bytes.
LEMMA EncodedIn ==
  ASSUME source \in RowSources, NEW i \in DOMAIN source, source[i] # Ends
  PROVE  EncodedBytes(i) \in Seq(RowByte) /\ EncodedBytes(i) # <<>>
<1>1. source[i] \in Nat \cup {Unwritable} /\ i \in Nat
  BY UploadAssumption
<1>2. CASE source[i] = Unwritable
  BY <1>1, <1>2 DEF EncodedBytes, RowByte
<1>3. CASE source[i] # Unwritable
  <2>1. source[i] \in Nat
    BY <1>1, <1>3
  <2>2. \A b \in 1..source[i] + 1 : (IF b > source[i] THEN <<i, 0>> ELSE <<i, b>>) \in RowByte
    BY <1>1, <2>1 DEF RowByte
  <2> DEFINE e == [b \in 1..source[i] + 1 |-> IF b > source[i] THEN <<i, 0>> ELSE <<i, b>>]
  <2>3. e \in Seq(RowByte) /\ Len(e) = source[i] + 1
    <3>1. source[i] + 1 \in Nat /\ e \in [1..source[i] + 1 -> RowByte]
      BY <2>1, <2>2
    <3> HIDE DEF e
    <3> QED
      BY <3>1, FunIsSeq
  <2>4. e # <<>>
    BY <2>1, <2>3
  <2> QED
    BY <1>3, <2>3, <2>4 DEF EncodedBytes
<1> QED
  BY <1>2, <1>3

\* The body of one more row.
LEMMA BodyStep ==
  ASSUME source \in RowSources, NEW k \in Nat,
         \A i \in 1..k + 1 : i \in DOMAIN source /\ source[i] # Ends
  PROVE  /\ EncodedBytes(k + 1) \in Seq(RowByte) /\ Body(k) \in Seq(RowByte)
         /\ Body(k + 1) = Body(k) \o EncodedBytes(k + 1)
<1>1. ASSUME NEW i \in 1..k + 1 PROVE EncodedBytes(i) \in Seq(RowByte)
  BY EncodedIn
<1> DEFINE some == [i \in 1..k |-> EncodedBytes(i)]
           more == [i \in 1..k + 1 |-> EncodedBytes(i)]
<1>2. some \in Seq(Seq(RowByte)) /\ Len(some) = k
  BY <1>1
<1>3. more = Append(some, EncodedBytes(k + 1))
  <2>1. more \in Seq(Seq(RowByte)) /\ Len(more) = k + 1
    BY <1>1
  <2>2. k + 1 \in 1..k + 1 /\ EncodedBytes(k + 1) \in Seq(RowByte)
    BY <1>1
  <2>3. Append(some, EncodedBytes(k + 1)) \in Seq(Seq(RowByte)) /\ Len(Append(some, EncodedBytes(k + 1))) = k + 1
    BY <1>2, <2>2, AppendProperties
  <2>4. ASSUME NEW i \in 1..k + 1 PROVE more[i] = Append(some, EncodedBytes(k + 1))[i]
    <3>1. more[i] = EncodedBytes(i)
      OBVIOUS
    <3>2. CASE i = k + 1
      BY <1>2, <2>2, <3>1, <3>2, AppendProperties
    <3>3. CASE i # k + 1
      <4>1. i \in 1..k /\ some[i] = EncodedBytes(i)
        BY <3>3
      <4> HIDE DEF some, more
      <4> QED
        BY <1>2, <2>2, <3>1, <4>1, AppendProperties
    <3> QED
      BY <3>2, <3>3
  <2> HIDE DEF some, more
  <2> QED
    BY <2>1, <2>3, <2>4, SeqEqual
<1>4. EncodedBytes(k + 1) \in Seq(RowByte)
  BY <1>1
<1>5. FlattenSeq(more) = FlattenSeq(some) \o EncodedBytes(k + 1) /\ FlattenSeq(some) \in Seq(RowByte)
  <2> HIDE DEF some, more
  <2> QED
    BY <1>2, <1>3, <1>4, FlattenAppend, FlattenIn
<1>6. Body(k) = FlattenSeq(some) /\ Body(k + 1) = FlattenSeq(more)
  BY DEF Body
<1> HIDE DEF some, more
<1> QED
  BY <1>4, <1>5, <1>6

\* The body of no row.
LEMMA BodyEmpty == Body(0) = <<>>
<1>1. [i \in 1..0 |-> EncodedBytes(i)] = <<>>
  OBVIOUS
<1> QED
  BY <1>1, FlattenEmpty DEF Body

NRows == Cardinality(RowsToWrite)

\* The rows to write are the first ones.
LEMMA RowsAre ==
  ASSUME source \in RowSources
  PROVE  /\ NRows \in Nat /\ NRows <= Len(source) /\ Len(source) \in Nat
         /\ RowsToWrite = 1..NRows
         /\ \A i \in 1..NRows : i \in DOMAIN source /\ source[i] # Ends
         /\ NRows < Len(source) => source[NRows + 1] = Ends
<1>1. source \in Seq(Nat \cup {Unwritable, Ends}) /\ Len(source) \in Nat /\ DOMAIN source = 1..Len(source)
  BY UploadAssumption
<1> DEFINE Over == {k \in Nat : k = Len(source) \/ (k < Len(source) /\ source[k + 1] = Ends)}
<1>2. Over \in SUBSET Nat /\ Len(source) \in Over
  BY <1>1
<1>3. PICK r \in Over : \A k \in Over : ~(k < r)
  <2> HIDE DEF Over
  <2> QED
    BY <1>2, LeastOf
<1> DEFINE n == Len(source)
<1>3a. r \in Nat /\ (r = n \/ (r < n /\ source[r + 1] = Ends))
  BY Zenon
<1>3b. n \in Nat
  BY <1>1
<1>3c. ASSUME NEW k \in Nat, k < n, source[k + 1] = Ends PROVE ~(k < r)
  BY <1>3, <1>3c
<1> HIDE DEF Over, n
<1>4. r \in Nat /\ r <= n /\ (r < n => source[r + 1] = Ends)
  BY <1>3a, <1>3b
<1>5. ASSUME NEW i \in 1..r PROVE source[i] # Ends
  <2>1. i - 1 \in Nat /\ i - 1 < r /\ i - 1 < n /\ (i - 1) + 1 = i
    BY <1>3b, <1>4
  <2> QED
    BY <1>3c, <2>1
<1>5a. DOMAIN source = 1..n
  BY <1>1 DEF n
<1>6. RowsToWrite = 1..r
  <2>1. ASSUME NEW i \in DOMAIN source, \A j \in 1..i : source[j] # Ends PROVE i \in 1..r
    BY <1>3b, <1>4, <1>5a, <2>1
  <2>2. ASSUME NEW i \in 1..r PROVE i \in DOMAIN source /\ \A j \in 1..i : source[j] # Ends
    BY <1>3b, <1>4, <1>5, <1>5a
  <2> QED
    BY <1>5a, <2>1, <2>2 DEF RowsToWrite
<1>7. Cardinality(1..r) = r
  <2>1. Cardinality(1..r) = IF 1 > r THEN 0 ELSE r - 1 + 1
    BY <1>4, FS_Interval
  <2> QED
    BY <1>4, <2>1
<1>8. NRows = r
  BY <1>6, <1>7 DEF NRows
<1>9. \A i \in 1..r : i \in DOMAIN source
  BY <1>3b, <1>4, <1>5a
<1> QED
  BY <1>1, <1>4, <1>5, <1>6, <1>8, <1>9 DEF n

\* The body of the rows to write, and of some of them.
LEMMA BodyGrows ==
  ASSUME source \in RowSources, NEW d \in 0..NRows
  PROVE  /\ \A m \in d..NRows : Body(m) \in Seq(RowByte) /\ \E t \in Seq(RowByte) : Body(m) = Body(d) \o t
         /\ Body(NRows) = WholeBody
<1>1. NRows \in Nat /\ \A i \in 1..NRows : i \in DOMAIN source /\ source[i] # Ends
  BY RowsAre
<1> DEFINE Grows(m) == Body(m) \in Seq(RowByte) /\ \E t \in Seq(RowByte) : Body(m) = Body(d) \o t
           P == {m \in Nat : m \in d..NRows => Grows(m)}
           Q == {m \in Nat : m <= NRows => Body(m) \in Seq(RowByte)}
<1>2. ASSUME NEW m \in Nat, m + 1 <= NRows
      PROVE  /\ Body(m) \in Seq(RowByte) /\ EncodedBytes(m + 1) \in Seq(RowByte)
             /\ Body(m + 1) = Body(m) \o EncodedBytes(m + 1)
  <2>1. \A i \in 1..m + 1 : i \in DOMAIN source /\ source[i] # Ends
    BY <1>1, <1>2
  <2> QED
    BY <2>1, BodyStep
<1>3. ASSUME NEW m \in Nat, m <= NRows PROVE Body(m) \in Seq(RowByte)
  <2>1. CASE m = 0
    BY <2>1, BodyEmpty, EmptySeq
  <2>2. CASE m # 0
    <3>1. m - 1 \in Nat /\ (m - 1) + 1 = m
      BY <2>2
    <3> QED
      BY <1>2, <1>3, <3>1, ConcatProperties
  <2> QED
    BY <2>1, <2>2
<1>4. Grows(d)
  <2>1. Body(d) \in Seq(RowByte)
    BY <1>1, <1>3
  <2>2. Body(d) \o <<>> = Body(d) /\ <<>> \in Seq(RowByte)
    BY <2>1, ConcatEmptySeq, EmptySeq
  <2> QED
    BY <2>1, <2>2
<1>5. 0 \in P
  <2>1. 0 \in d..NRows => d = 0
    BY <1>1
  <2> HIDE DEF Grows
  <2> QED
    BY <1>4, <2>1
<1>6. ASSUME NEW m \in P PROVE m + 1 \in P
  <2>1. m \in Nat /\ m + 1 \in Nat
    OBVIOUS
  <2> SUFFICES ASSUME m + 1 \in d..NRows PROVE Grows(m + 1)
    BY <2>1
  <2>2. CASE m + 1 = d
    <3> HIDE DEF Grows
    <3> QED
      BY <1>4, <2>2
  <2>3. CASE m + 1 # d
    <3>1. m \in d..NRows /\ m + 1 <= NRows
      BY <1>1, <2>1, <2>3
    <3>2. PICK t \in Seq(RowByte) : Body(m) = Body(d) \o t
      BY <3>1
    <3> DEFINE u == t \o EncodedBytes(m + 1)
    <3>3. u \in Seq(RowByte)
      BY <1>2, <2>1, <3>1, ConcatProperties
    <3>4. Body(m + 1) = Body(d) \o u
      <4>1. EncodedBytes(m + 1) \in Seq(RowByte) /\ Body(m + 1) = Body(m) \o EncodedBytes(m + 1)
        BY <1>2, <2>1, <3>1
      <4>2. Body(d) \in Seq(RowByte)
        BY <1>4
      <4>3. (Body(d) \o t) \o EncodedBytes(m + 1) = Body(d) \o (t \o EncodedBytes(m + 1))
        <5>1. EncodedBytes(m + 1) \in Seq(RowByte)
          BY <4>1
        <5>2. Joinable(Body(d), t, EncodedBytes(m + 1))
          BY <4>2, <5>1, Joined
        <5> QED
          BY <5>2 DEF Joinable
      <4> QED
        BY <3>2, <4>1, <4>3
    <3>5. Body(m + 1) \in Seq(RowByte)
      BY <1>3, <2>1, <3>1
    <3> QED
      BY <3>3, <3>4, <3>5
  <2> QED
    BY <2>2, <2>3
<1>7. P = Nat
  <2>1. P \in SUBSET Nat
    OBVIOUS
  <2> HIDE DEF P
  <2> QED
    BY <1>5, <1>6, <2>1, Inductive
<1>8. \A m \in d..NRows : m \in Nat /\ Grows(m)
  <2> HIDE DEF Grows
  <2> QED
    BY <1>1, <1>7
<1>9. Body(NRows) = WholeBody
  BY DEF Body, WholeBody, NRows
<1> QED
  BY <1>8, <1>9

Filling == [next : Nat, buffer : Seq(RowByte), over : BOOLEAN, bad : BOOLEAN]

\* How many rows have been encoded.
RowsDone(next, over) == IF over THEN next - 1 ELSE next

\* What the stream knows of its iterator while no row has been refused.
Iterated ==
  /\ source \in RowSources /\ yielded \in Nat /\ yielded <= Len(source) /\ exhausted \in BOOLEAN
  /\ exhausted => yielded = NRows + 1
  /\ ~exhausted => yielded <= NRows
  /\ \A j \in 1..RowsDone(yielded, exhausted) : source[j] # Unwritable

\* ... and what fill knows after i turns.
FillInv(f, i) ==
  /\ f \in Filling
  /\ f.next <= Len(source)
  /\ f.over => f.next = NRows + 1
  /\ ~f.over => f.next <= NRows
  /\ ~f.over /\ ~f.bad /\ Len(f.buffer) < RowChunk => f.next = IF i <= yielded THEN yielded ELSE i
  /\ Body(RowsDone(yielded, exhausted)) \o f.buffer = Body(RowsDone(f.next, f.over))
  /\ RowsDone(yielded, exhausted) <= RowsDone(f.next, f.over)
  /\ f.bad <=> \E j \in 1..RowsDone(f.next, f.over) : source[j] = Unwritable

FillStart == [next |-> yielded, buffer |-> <<>>, over |-> Latched, bad |-> FALSE]

\* How far the source has been encoded.
LEMMA DoneFacts ==
  ASSUME Iterated
  PROVE  /\ NRows \in Nat /\ NRows <= Len(source) /\ Len(source) \in Nat
         /\ RowsDone(yielded, exhausted) \in 0..NRows
         /\ Body(RowsDone(yielded, exhausted)) \in Seq(RowByte)
<1>1. NRows \in Nat /\ NRows <= Len(source) /\ Len(source) \in Nat
  BY RowsAre DEF Iterated
<1>2. RowsDone(yielded, exhausted) \in 0..NRows
  BY <1>1 DEF Iterated, RowsDone
<1>3. RowsDone(yielded, exhausted) \in RowsDone(yielded, exhausted)..NRows
  BY <1>1, <1>2
<1> QED
  BY <1>1, <1>2, <1>3, BodyGrows DEF Iterated

\* A chunk starts from what has been encoded.
LEMMA FillStarts ==
  ASSUME Iterated
  PROVE  FillInv(FillStart, 0)
<1>1. FillStart \in Filling
  BY EmptySeq DEF FillStart, Filling, Iterated, Latched
<1>2. Body(RowsDone(yielded, exhausted)) \o <<>> = Body(RowsDone(yielded, exhausted))
  BY DoneFacts, ConcatEmptySeq
<1>3. ~\E j \in 1..RowsDone(yielded, exhausted) : source[j] = Unwritable
  BY DEF Iterated
<1>4. FillStart.next = yielded /\ FillStart.buffer = <<>> /\ FillStart.over = exhausted /\ FillStart.bad = FALSE
  BY DEF FillStart, Latched
<1>5. RowsDone(yielded, exhausted) <= RowsDone(yielded, exhausted)
  BY DoneFacts
<1> QED
  BY <1>1, <1>2, <1>3, <1>4, <1>5 DEF FillInv, Iterated

\* One more row keeps what FillInv says.
LEMMA FillTurns ==
  ASSUME Iterated, NEW f, NEW i \in 1..Len(source), FillInv(f, i - 1)
  PROVE  FillInv(FillTurn(f, i), i)
<1> DEFINE g == FillTurn(f, i)
           d == RowsDone(yielded, exhausted)
<1>1. /\ NRows \in Nat /\ NRows <= Len(source) /\ Len(source) \in Nat /\ i \in Nat
      /\ \A j \in 1..NRows : j \in DOMAIN source /\ source[j] # Ends
      /\ NRows < Len(source) => source[NRows + 1] = Ends
      /\ yielded \in Nat /\ source \in RowSources /\ RowChunk \in Nat
      /\ d \in 0..NRows /\ Body(d) \in Seq(RowByte)
  BY RowsAre, DoneFacts, UploadAssumption DEF Iterated
<1>2. /\ f \in Filling /\ f.next \in Nat /\ f.buffer \in Seq(RowByte) /\ f.over \in BOOLEAN /\ f.bad \in BOOLEAN
      /\ Len(f.buffer) \in Nat
  BY DEF FillInv, Filling
<1>3. CASE f.over \/ f.bad \/ i <= yielded \/ Len(f.buffer) >= RowChunk
  <2>1. g = f
    BY <1>3 DEF FillTurn
  <2>2. ~f.over /\ ~f.bad /\ Len(f.buffer) < RowChunk => f.next = IF i <= yielded THEN yielded ELSE i
    BY <1>1, <1>2, <1>3 DEF FillInv
  <2> HIDE DEF g
  <2>3. FillInv(f, i)
    BY <2>2 DEF FillInv
  <2> QED
    BY <2>1, <2>3 DEF g
<1>4. CASE ~(f.over \/ f.bad \/ i <= yielded \/ Len(f.buffer) >= RowChunk)
  <2>1. f.next = i - 1 /\ i - 1 <= NRows
    <3>1. ~f.over /\ ~f.bad /\ Len(f.buffer) < RowChunk /\ i > yielded
      BY <1>1, <1>2, <1>4
    <3>2. f.next = (IF i - 1 <= yielded THEN yielded ELSE i - 1) /\ f.next <= NRows
      BY <3>1 DEF FillInv
    <3> QED
      BY <1>1, <3>1, <3>2
  <2>2. RowsDone(f.next, f.over) = i - 1 /\ f.over = FALSE /\ f.bad = FALSE
    BY <1>2, <1>4, <2>1 DEF RowsDone
  <2>3. Body(d) \o f.buffer = Body(i - 1) /\ d <= i - 1 /\ ~\E j \in 1..i - 1 : source[j] = Unwritable
    BY <2>2 DEF FillInv
  <2>4. CASE source[i] = Ends
    <3>1. i = NRows + 1
      BY <1>1, <2>1, <2>4
    <3>2. g = [f EXCEPT !.next = i, !.over = TRUE]
      BY <1>4, <2>4 DEF FillTurn
    <3>3. /\ g \in Filling /\ g.next = i /\ g.over = TRUE /\ g.bad = FALSE /\ g.buffer = f.buffer
      BY <1>1, <1>2, <2>2, <3>2 DEF Filling
    <3>4. RowsDone(g.next, g.over) = i - 1
      BY <3>3 DEF RowsDone
    <3>5. FillInv(g, i)
      <4> HIDE DEF g, d
      <4>1. g.next <= Len(source)
        BY <1>1, <3>1, <3>3
      <4> QED
        BY <2>3, <3>1, <3>3, <3>4, <4>1 DEF FillInv, d
    <3> QED
      BY <3>5
  <2>5. CASE source[i] # Ends
    <3>1. i <= NRows
      BY <1>1, <2>1, <2>5
    <3>2. /\ i - 1 \in Nat /\ (i - 1) + 1 = i
          /\ \A j \in 1..i : j \in DOMAIN source /\ source[j] # Ends
      BY <1>1, <3>1
    <3>3. EncodedBytes(i) \in Seq(RowByte) /\ Body(i) = Body(i - 1) \o EncodedBytes(i)
      <4>1. \A j \in 1..(i - 1) + 1 : j \in DOMAIN source /\ source[j] # Ends
        BY <3>2
      <4> QED
        BY <1>1, <3>2, <4>1, BodyStep
    <3>4. g = [f EXCEPT !.next = i, !.buffer = f.buffer \o EncodedBytes(i), !.bad = (source[i] = Unwritable)]
      BY <1>4, <2>5 DEF FillTurn
    <3>5. f.buffer \o EncodedBytes(i) \in Seq(RowByte)
      BY <1>2, <3>3, ConcatProperties
    <3>6. /\ g \in Filling /\ g.next = i /\ g.over = FALSE /\ g.bad = (source[i] = Unwritable)
          /\ g.buffer = f.buffer \o EncodedBytes(i)
      BY <1>1, <1>2, <2>2, <3>4, <3>5 DEF Filling
    <3>7. RowsDone(g.next, g.over) = i
      BY <3>6 DEF RowsDone
    <3>8. Body(d) \o (f.buffer \o EncodedBytes(i)) = Body(i)
      <4>1. (Body(d) \o f.buffer) \o EncodedBytes(i) = Body(d) \o (f.buffer \o EncodedBytes(i))
        <5>1. EncodedBytes(i) \in Seq(RowByte) /\ f.buffer \in Seq(RowByte) /\ Body(d) \in Seq(RowByte)
          BY <1>1, <1>2, <3>3
        <5> DEFINE x == Body(d)
                   y == f.buffer
                   z == EncodedBytes(i)
        <5>2. (x \o y) \o z = x \o (y \o z)
          <6>1. x \in Seq(RowByte) /\ y \in Seq(RowByte) /\ z \in Seq(RowByte)
            BY <5>1
          <6> HIDE DEF x, y, z
          <6>2. Joinable(x, y, z)
            BY <6>1, Joined
          <6> QED
            BY <6>2 DEF Joinable
        <5> QED
          BY <5>2
      <4> QED
        BY <2>3, <3>3, <4>1
    <3>9. (source[i] = Unwritable) <=> \E j \in 1..i : source[j] = Unwritable
      BY <1>1, <2>3
    <3>10. g.next = IF i <= yielded THEN yielded ELSE i
      BY <1>1, <1>4, <3>6
    <3>11. g.next <= Len(source) /\ d <= i
      BY <1>1, <2>3, <3>6
    <3>12. FillInv(g, i)
      <4> HIDE DEF g
      <4> QED
        BY <3>1, <3>6, <3>7, <3>8, <3>9, <3>10, <3>11 DEF FillInv
    <3> QED
      BY <3>12
  <2> QED
    BY <2>4, <2>5
<1> QED
  BY <1>3, <1>4

\* One more row makes a filling of a filling.
LEMMA TurnIn ==
  ASSUME source \in RowSources, NEW f \in Filling, NEW i \in 1..Len(source)
  PROVE  FillTurn(f, i) \in Filling
<1>1. source \in Seq(Nat \cup {Unwritable, Ends}) /\ i \in DOMAIN source /\ i \in Nat
  BY UploadAssumption
<1>2. f.buffer \in Seq(RowByte)
  BY DEF Filling
<1>3. source[i] # Ends => f.buffer \o EncodedBytes(i) \in Seq(RowByte)
  BY <1>1, <1>2, EncodedIn, ConcatProperties
<1> QED
  BY <1>1, <1>3 DEF FillTurn, Filling

\* What fill leaves behind.
LEMMA FilledIs ==
  ASSUME Iterated
  PROVE  FillInv(Filled, Len(source))
<1> DEFINE n == Len(source)
           F(f) == [i \in 0..n |-> IF i = 0 THEN FillStart ELSE FillTurn(f[i - 1], i)]
           c == CHOOSE f : f = F(f)
<1>1. n \in Nat /\ source \in RowSources /\ FillStart \in Filling
  BY DoneFacts, FillStarts DEF FillInv, Iterated
<1>2. \E f : f = F(f)
  <2> DEFINE step == [i \in 1..n |-> [f \in Filling |-> FillTurn(f, i)]]
  <2>1. step \in [1..n -> [Filling -> Filling]]
    BY <1>1, TurnIn
  <2>2. \A i \in 1..n, f \in Filling : step[i][f] = FillTurn(f, i)
    OBVIOUS
  <2>3. PICK f \in [0..n -> Filling] : Recurs(f, n, FillStart, step)
    <3> HIDE DEF step, n
    <3> QED
      BY <1>1, <2>1, Recursion
  <2> HIDE DEF step
  <2>4. ASSUME NEW i \in 0..n PROVE f[i] = IF i = 0 THEN FillStart ELSE FillTurn(f[i - 1], i)
    <3>1. CASE i = 0
      BY <2>3, <3>1 DEF Recurs
    <3>2. CASE i # 0
      <4>1. i \in 1..n /\ i - 1 \in 0..n
        BY <1>1, <3>2
      <4>2. f[i] = step[i][f[i - 1]] /\ f[i - 1] \in Filling
        BY <2>3, <4>1 DEF Recurs
      <4> QED
        BY <2>2, <3>2, <4>1, <4>2
    <3> QED
      BY <3>1, <3>2
  <2>5. f = [i \in 0..n |-> f[i]]
    BY <2>3
  <2> QED
    BY <2>4, <2>5
<1>3. c = F(c)
  BY <1>2
<1> HIDE DEF c
<1>4. c[0] = FillStart
  <2>1. 0 \in 0..n
    BY <1>1
  <2> QED
    BY <1>3, <2>1
<1>5. ASSUME NEW i \in 1..n PROVE c[i] = FillTurn(c[i - 1], i)
  <2>1. i \in 0..n /\ i # 0
    BY <1>1
  <2> QED
    BY <1>3, <2>1
<1> DEFINE P == {i \in Nat : i <= n => FillInv(c[i], i)}
<1>6. 0 \in P
  BY <1>4, FillStarts
<1>7. ASSUME NEW i \in P PROVE i + 1 \in P
  <2>1. i + 1 \in Nat /\ i \in Nat
    OBVIOUS
  <2> SUFFICES ASSUME i + 1 <= n PROVE FillInv(c[i + 1], i + 1)
    BY <2>1
  <2>2. i + 1 \in 1..n /\ i <= n /\ (i + 1) - 1 = i
    BY <1>1, <2>1
  <2>3. FillInv(c[(i + 1) - 1], (i + 1) - 1)
    BY <2>2
  <2> QED
    BY <1>5, <2>2, <2>3, FillTurns
<1>8. P = Nat
  <2>1. P \in SUBSET Nat
    OBVIOUS
  <2> HIDE DEF P
  <2> QED
    BY <1>6, <1>7, <2>1, Inductive
<1>9. FillInv(c[n], n)
  <2>1. n \in P
    <3> HIDE DEF P
    <3> QED
      BY <1>1, <1>8
  <2>2. n <= n
    BY <1>1
  <2> QED
    BY <2>1, <2>2
<1>10. Filled = c[n]
  BY DEF Filled, c, FillStart
<1> QED
  BY <1>9, <1>10

\* The invariant of an upload: what was taken and what is buffered are the rows
\* that were encoded; the end of the body is the end of the rows.
UploadInv ==
  /\ source \in RowSources /\ yielded \in Nat /\ exhausted \in BOOLEAN /\ rowFailed \in BOOLEAN
  /\ rowBuffer \in Seq(RowByte) /\ taken \in Seq(RowByte) /\ rowPosition \in 0..Len(rowBuffer)
  /\ bodyState \in {"open", "ended", "failed"}
  /\ bodyState = "failed" <=> rowFailed
  /\ ~rowFailed =>
       /\ Iterated
       /\ taken \o SubSeq(rowBuffer, rowPosition + 1, Len(rowBuffer)) = Body(RowsDone(yielded, exhausted))
  /\ bodyState = "ended" =>
       rowPosition = Len(rowBuffer) /\ RowsDone(yielded, exhausted) = NRows
  /\ writeResult = "ok" => bodyState = "ended"

\* The invariant holds of an upload that has not begun.
LEMMA UploadStarts ==
  ASSUME UploadInit
  PROVE  UploadInv
<1>1. NRows \in Nat /\ Len(source) \in Nat
  BY RowsAre DEF UploadInit
<1>2. Iterated
  <2>1. yielded = 0 /\ exhausted = FALSE /\ source \in RowSources /\ RowsDone(yielded, exhausted) = 0
    BY DEF UploadInit, RowsDone
  <2>2. yielded <= Len(source) /\ yielded <= NRows /\ yielded \in Nat
    BY <1>1, <2>1
  <2>3. \A j \in 1..RowsDone(yielded, exhausted) : source[j] # Unwritable
    BY <2>1
  <2> QED
    BY <2>1, <2>2, <2>3 DEF Iterated
<1>3. RowsDone(yielded, exhausted) = 0
  BY DEF UploadInit, RowsDone
<1>4. SubSeq(rowBuffer, 1, Len(rowBuffer)) = <<>> /\ rowBuffer \in Seq(RowByte) /\ Len(rowBuffer) = 0
      /\ taken \in Seq(RowByte)
  BY EmptySeq, SubSeqEmpty DEF UploadInit
<1>5. taken \o SubSeq(rowBuffer, rowPosition + 1, Len(rowBuffer)) = <<>>
  BY <1>4, ConcatEmptySeq, EmptySeq DEF UploadInit
<1>6. rowPosition \in 0..Len(rowBuffer)
  BY <1>4 DEF UploadInit
<1>7. /\ source \in RowSources /\ yielded \in Nat /\ exhausted \in BOOLEAN /\ rowFailed = FALSE
      /\ bodyState = "open" /\ writeResult = "none"
  BY DEF UploadInit
<1> QED
  BY <1>2, <1>3, <1>4, <1>5, <1>6, <1>7, BodyEmpty DEF UploadInv

\* Bytes handed over move from the buffer to the body.
LEMMA HandedOver ==
  ASSUME NEW n \in 1..MaxRead, NEW buffer \in Seq(RowByte), NEW position \in 0..Len(buffer),
         taken \in Seq(RowByte), HandOver(n, buffer, position)
  PROVE  /\ taken' \in Seq(RowByte) /\ rowPosition' \in 0..Len(buffer)
         /\ taken' \o SubSeq(buffer, rowPosition' + 1, Len(buffer))
              = taken \o SubSeq(buffer, position + 1, Len(buffer))
<1>1. n \in Nat /\ Len(buffer) \in Nat /\ position \in Nat /\ position <= Len(buffer)
  BY UploadAssumption
<1> DEFINE last == IF position + n < Len(buffer) THEN position + n ELSE Len(buffer)
           x == SubSeq(buffer, position + 1, last)
           y == SubSeq(buffer, last + 1, Len(buffer))
<1>2. last \in position..Len(buffer) /\ last \in 0..Len(buffer)
  BY <1>1
<1>3. taken' = taken \o x /\ rowPosition' = last
  BY DEF HandOver
<1> HIDE DEF last
<1>4. x \in Seq(RowByte) /\ y \in Seq(RowByte) /\ SubSeq(buffer, position + 1, Len(buffer)) = x \o y
  BY <1>2, CutHere
<1> HIDE DEF x, y
<1>5. taken \o x \in Seq(RowByte)
  BY <1>4, ConcatProperties
<1>6. (taken \o x) \o y = taken \o (x \o y)
  <2>1. x \in Seq(RowByte) /\ y \in Seq(RowByte) /\ taken \in Seq(RowByte)
    BY <1>4
  <2>2. Joinable(taken, x, y)
    BY <2>1, Joined
  <2> QED
    BY <2>2 DEF Joinable
<1> QED
  BY <1>2, <1>3, <1>4, <1>5, <1>6 DEF y

\* Steps that leave the source and what is encoded leave the body.
LEMMA SameSource ==
  ASSUME source' = source
  PROVE  NRows' = NRows /\ \A k : Body(k)' = Body(k)
<1>1. RowsToWrite' = RowsToWrite
  BY DEF RowsToWrite
<1>2. ASSUME NEW k PROVE Body(k)' = Body(k)
  BY DEF Body, EncodedBytes
<1> QED
  BY <1>1, <1>2 DEF NRows

\* Every read, and the end, keep it.
LEMMA UploadKeeps ==
  ASSUME UploadInv, [UploadNext]_uploadVars
  PROVE  UploadInv'
<1> USE DEF UploadInv
<1>1. CASE UNCHANGED uploadVars
  <2>1. source' = source /\ NRows' = NRows /\ \A k : Body(k)' = Body(k)
    BY <1>1, SameSource DEF uploadVars
  <2>2. Iterated' = Iterated
    BY <1>1, <2>1 DEF uploadVars, Iterated
  <2> QED
    BY <1>1, <2>1, <2>2 DEF uploadVars
<1>2. ASSUME NEW n \in 1..MaxRead, ReadBuffered(n) PROVE UploadInv'
  <2>1. /\ UNCHANGED <<source, yielded, rowBuffer, rowFailed, exhausted, bodyState, writeResult>>
        /\ rowPosition < Len(rowBuffer) /\ HandOver(n, rowBuffer, rowPosition) /\ writeResult = "none"
    BY <1>2 DEF ReadBuffered
  <2>2. source' = source /\ NRows' = NRows /\ \A k : Body(k)' = Body(k)
    BY <2>1, SameSource
  <2>3. Iterated' = Iterated
    BY <2>1, <2>2 DEF Iterated
  <2>4. /\ taken' \in Seq(RowByte) /\ rowPosition' \in 0..Len(rowBuffer)
        /\ taken' \o SubSeq(rowBuffer, rowPosition' + 1, Len(rowBuffer))
             = taken \o SubSeq(rowBuffer, rowPosition + 1, Len(rowBuffer))
    BY <2>1, HandedOver
  <2>5. bodyState # "ended"
    <3>1. Len(rowBuffer) \in Nat
      OBVIOUS
    <3> QED
      BY <2>1, <3>1
  <2> QED
    BY <2>1, <2>2, <2>3, <2>4, <2>5
<1>3. ASSUME NEW n \in 1..MaxRead, ReadFilled(n) PROVE UploadInv'
  <2> DEFINE f == Filled
             d == RowsDone(yielded, exhausted)
             e == RowsDone(f.next, f.over)
  <2>1. /\ source' = source /\ writeResult' = writeResult /\ writeResult = "none" /\ ~rowFailed
        /\ yielded' = f.next /\ rowBuffer' = f.buffer /\ rowFailed' = f.bad /\ exhausted' = f.over
        /\ rowPosition = Len(rowBuffer)
    BY <1>3 DEF ReadFilled, Asked
  <2>2. IF f.bad THEN bodyState' = "failed" /\ rowPosition' = 0 /\ taken' = taken
        ELSE IF f.buffer = <<>> THEN bodyState' = "ended" /\ rowPosition' = 0 /\ taken' = taken
        ELSE HandOver(n, f.buffer, 0) /\ bodyState' = bodyState
    BY <1>3 DEF ReadFilled
  <2>3. FillInv(f, Len(source)) /\ Iterated
    BY <2>1, FilledIs
  <2> HIDE DEF f
  <2>4. /\ f.next \in Nat /\ f.buffer \in Seq(RowByte) /\ f.over \in BOOLEAN /\ f.bad \in BOOLEAN
        /\ f.next <= Len(source) /\ Len(f.buffer) \in Nat
    BY <2>3 DEF FillInv, Filling
  <2>5. /\ source' = source /\ NRows' = NRows /\ \A k : Body(k)' = Body(k)
        /\ RowsDone(yielded, exhausted)' = e
    BY <2>1, SameSource DEF RowsDone
  <2>6. taken = Body(d)
    <3>1. Len(rowBuffer) \in Nat
      OBVIOUS
    <3>2. SubSeq(rowBuffer, rowPosition + 1, Len(rowBuffer)) = <<>>
      BY <2>1, <3>1, SubSeqEmpty
    <3> QED
      BY <2>1, <3>2, ConcatEmptySeq
  <2>7. NRows \in Nat /\ Len(source) \in Nat /\ NRows <= Len(source) /\ d \in 0..NRows
    BY <2>3, DoneFacts
  <2>8. d <= e /\ e <= NRows /\ e \in Nat
    BY <2>3, <2>4, <2>7 DEF FillInv, RowsDone
  <2>9. ~f.bad => Iterated'
    <3>1. ~f.bad => \A j \in 1..e : source[j] # Unwritable
      BY <2>3 DEF FillInv
    <3> HIDE DEF e
    <3> QED
      BY <2>1, <2>3, <2>4, <2>5, <3>1 DEF Iterated, FillInv
  <2>10. taken \o f.buffer = Body(e)
    BY <2>3, <2>6 DEF FillInv
  <2>11. 0 \in 0..Len(f.buffer) /\ SubSeq(f.buffer, 0 + 1, Len(f.buffer)) = f.buffer
    BY <2>4, SubSeqFull
  <2>12. bodyState = "ended" => e = NRows /\ ~f.bad /\ f.buffer = <<>>
    <3> SUFFICES ASSUME bodyState = "ended" PROVE e = NRows /\ ~f.bad /\ f.buffer = <<>>
      OBVIOUS
    <3>1. d = NRows
      OBVIOUS
    <3>2. e = NRows
      BY <2>7, <2>8, <3>1
    <3>3. ~f.bad
      <4>1. \A j \in 1..d : source[j] # Unwritable
        BY <2>3 DEF Iterated
      <4> QED
        BY <2>3, <3>1, <3>2, <4>1 DEF FillInv
    <3>4. taken \o f.buffer = taken
      BY <2>6, <2>10, <3>1, <3>2
    <3> QED
      BY <2>4, <3>2, <3>3, <3>4, ConcatEqualIffEmpty
  <2>13. CASE f.bad
    <3>1. bodyState' = "failed" /\ rowPosition' = 0 /\ taken' = taken /\ rowFailed' = TRUE
      BY <2>1, <2>2, <2>4, <2>13
    <3> QED
      BY <2>1, <2>4, <2>11, <3>1
  <2>14. CASE ~f.bad /\ f.buffer = <<>>
    <3>1. bodyState' = "ended" /\ rowPosition' = 0 /\ taken' = taken /\ rowFailed' = FALSE
      BY <2>1, <2>2, <2>4, <2>14
    <3>2. Len(f.buffer) = 0
      BY <2>14
    <3>3. taken' \o SubSeq(rowBuffer', rowPosition' + 1, Len(rowBuffer')) = Body(e)
      BY <2>1, <2>10, <2>11, <3>1
    <3>4. e = NRows
      <4>1. CASE f.over
        <5>1. f.next = NRows + 1
          BY <2>3, <4>1 DEF FillInv
        <5> QED
          BY <2>7, <4>1, <5>1 DEF RowsDone
      <4>2. CASE ~f.over
        <5>1. RowChunk \in Nat \ {0}
          BY UploadAssumption
        <5>2. Len(f.buffer) < RowChunk
          BY <3>2, <5>1
        <5>3. f.next = IF Len(source) <= yielded THEN yielded ELSE Len(source)
          BY <2>3, <2>14, <4>2, <5>2 DEF FillInv
        <5>4. f.next <= NRows /\ yielded \in Nat
          BY <2>3, <4>2 DEF FillInv
        <5>5. f.next = NRows
          BY <2>4, <2>7, <5>3, <5>4
        <5> QED
          BY <4>2, <5>5 DEF RowsDone
      <4> QED
        BY <4>1, <4>2
    <3> HIDE DEF e
    <3> QED
      BY <2>1, <2>4, <2>5, <2>9, <2>14, <3>1, <3>2, <3>3, <3>4
  <2>15. CASE ~f.bad /\ f.buffer # <<>>
    <3>1. HandOver(n, f.buffer, 0) /\ bodyState' = bodyState /\ rowFailed' = FALSE /\ bodyState # "ended"
      BY <2>1, <2>2, <2>4, <2>12, <2>15
    <3>2. /\ taken' \in Seq(RowByte) /\ rowPosition' \in 0..Len(f.buffer)
          /\ taken' \o SubSeq(f.buffer, rowPosition' + 1, Len(f.buffer)) = taken \o SubSeq(f.buffer, 0 + 1, Len(f.buffer))
      BY <2>4, <2>11, <3>1, HandedOver
    <3>3. taken' \o SubSeq(rowBuffer', rowPosition' + 1, Len(rowBuffer')) = Body(e)
      BY <2>1, <2>10, <2>11, <3>2
    <3> HIDE DEF e
    <3> QED
      BY <2>1, <2>4, <2>5, <2>9, <2>15, <3>1, <3>2, <3>3
  <2> QED
    BY <2>4, <2>13, <2>14, <2>15
<1>4. CASE ReadAgain
  <2>1. rowFailed /\ rowFailed' = rowFailed /\ bodyState' = "failed" /\ writeResult = "none"
        /\ UNCHANGED <<source, yielded, rowBuffer, rowPosition, exhausted, taken, writeResult>>
    BY <1>4 DEF ReadAgain, Asked
  <2> QED
    BY <2>1
<1>5. CASE WriteReturns
  <2>1. /\ UNCHANGED <<source, yielded, rowBuffer, rowPosition, rowFailed, exhausted, taken, bodyState>>
        /\ writeResult' = "ok" => ~rowFailed /\ bodyState # "open"
    BY <1>5 DEF WriteReturns
  <2>2. source' = source /\ NRows' = NRows /\ \A k : Body(k)' = Body(k)
    BY <2>1, SameSource
  <2>3. Iterated' = Iterated
    BY <2>1, <2>2 DEF Iterated
  <2> QED
    BY <2>1, <2>2, <2>3
<1> QED
  BY <1>1, <1>2, <1>3, <1>4, <1>5 DEF UploadNext

\* The invariant makes every body whole.
LEMMA UploadHolds ==
  ASSUME UploadInv
  PROVE  BodyIsWhole
<1> USE DEF UploadInv
<1> SUFFICES ASSUME ~rowFailed PROVE BodyIsWhole
  BY DEF BodyIsWhole
<1> DEFINE d == RowsDone(yielded, exhausted)
           rest == SubSeq(rowBuffer, rowPosition + 1, Len(rowBuffer))
<1>1. NRows \in Nat /\ d \in 0..NRows /\ Iterated /\ RowsToWrite = 1..NRows
  BY DoneFacts, RowsAre
<1>2. rest \in Seq(RowByte) /\ taken \o rest = Body(d)
  <2>1. rowPosition \in rowPosition..Len(rowBuffer) /\ Len(rowBuffer) \in rowPosition..Len(rowBuffer)
    OBVIOUS
  <2> QED
    BY <2>1, CutHere
<1>3. PICK t \in Seq(RowByte) : Body(NRows) = Body(d) \o t
  <2>1. NRows \in d..NRows
    BY <1>1
  <2> QED
    BY <1>1, <2>1, BodyGrows
<1>4. Body(NRows) = WholeBody
  BY <1>1, BodyGrows
<1> HIDE DEF rest
<1>5. IsPrefix(taken, WholeBody)
  <2>1. (taken \o rest) \o t = taken \o (rest \o t)
    <3>1. taken \in Seq(RowByte) /\ rest \in Seq(RowByte)
      BY <1>2
    <3>2. Joinable(taken, rest, t)
      BY <3>1, Joined
    <3> QED
      BY <3>2 DEF Joinable
  <2>2. rest \o t \in Seq(RowByte)
    BY <1>2, ConcatProperties
  <2>3. WholeBody = taken \o (rest \o t)
    BY <1>2, <1>3, <1>4, <2>1
  <2> QED
    BY <2>2, <2>3, PrefixOfConcat
<1>6. bodyState = "ended" => taken = WholeBody /\ \A i \in RowsToWrite : source[i] # Unwritable
  <2> SUFFICES ASSUME bodyState = "ended" PROVE taken = WholeBody /\ \A i \in RowsToWrite : source[i] # Unwritable
    OBVIOUS
  <2>1. d = NRows /\ rowPosition = Len(rowBuffer)
    OBVIOUS
  <2>2. rest = <<>>
    <3>1. Len(rowBuffer) \in Nat
      OBVIOUS
    <3> QED
      BY <2>1, <3>1, SubSeqEmpty DEF rest
  <2>3. taken = WholeBody
    BY <1>2, <1>4, <2>1, <2>2, ConcatEmptySeq
  <2> QED
    BY <1>1, <2>1, <2>3 DEF Iterated
<1> QED
  BY <1>5, <1>6 DEF BodyIsWhole

\* BodyIsWhole, of any rows, limits and pieces the body is asked for in: what
\* RowBody yields is the rows in order, and a write reports success only when
\* it was all of them and none was refused.
THEOREM BodiesAreWhole == UploadSpec => []BodyIsWhole
<1>1. UploadInit => UploadInv
  BY UploadStarts
<1>2. UploadInv /\ [UploadNext]_uploadVars => UploadInv'
  BY UploadKeeps
<1>3. UploadInv => BodyIsWhole
  BY UploadHolds
<1> QED
  BY <1>1, <1>2, <1>3, PTL DEF UploadSpec

-----------------------------------------------------------------------------
(***************************************************************************)
(* Bus: frames are true.                                                   *)
(***************************************************************************)
Pkt == [type : STRING, id : STRING, parts : Seq(Nat \cup {Null}), body : STRING]
ValidPkt == {p \in Pkt : Valid(p)}
HeaderOf(p) == [type |-> p.type, id |-> p.id, count |-> Len(p.parts), body |-> p.body]
Header == [type : STRING, id : STRING, count : Nat, body : STRING]
WireWord == [kind : {"fixed", "sum", "size", "data"}, field : Nat, value : Nat \cup Header]

\* Words are words.
LEMMA WordIn ==
  ASSUME NEW f \in Nat, NEW v, v \in Nat \/ v \in Header
  PROVE  /\ Word("fixed", f, v) \in WireWord /\ Word("sum", f, v) \in WireWord
         /\ Word("size", f, v) \in WireWord /\ Word("data", f, v) \in WireWord
BY DEF Word, WireWord

\* What is sent can be written.
LEMMA SentIn ==
  ASSUME script \in Scripts
  PROVE  Sent \in Seq(ValidPkt)
<1> DEFINE one == [i \in DOMAIN script |-> IF Valid(script[i]) THEN <<script[i]>> ELSE <<>>]
<1>1. script \in Seq(Pkt)
  BY ScriptsAssumption DEF Pkt
<1>2. DOMAIN script = 1..Len(script) /\ Len(script) \in Nat
  BY <1>1
<1>3. ASSUME NEW i \in 1..Len(script) PROVE (IF Valid(script[i]) THEN <<script[i]>> ELSE <<>>) \in Seq(ValidPkt)
  <2>1. script[i] \in Pkt
    BY <1>1
  <2>2. CASE Valid(script[i])
    <3>1. script[i] \in ValidPkt
      BY <2>1, <2>2 DEF ValidPkt
    <3> QED
      BY <2>2, <3>1
  <2>3. CASE ~Valid(script[i])
    BY <2>3, EmptySeq
  <2> QED
    BY <2>2, <2>3
<1>4. one \in [1..Len(script) -> Seq(ValidPkt)]
  BY <1>2, <1>3
<1> HIDE DEF one
<1>5. one \in Seq(Seq(ValidPkt))
  BY <1>2, <1>4, FunIsSeq
<1> QED
  BY <1>5, FlattenIn DEF Sent, one

Declared(sizes, n) == IF sizes[n] = NullPartSize THEN 0 ELSE sizes[n]

\* The sum of the sizes, and the length of what has them.
LEMMA PayloadIs ==
  ASSUME NEW S, NEW sizes \in Seq(Nat), NEW data \in Seq(Seq(S)), Len(data) = Len(sizes),
         \A j \in 1..Len(sizes) : Len(data[j]) = Declared(sizes, j)
  PROVE  Payload(sizes) \in Nat /\ Len(FlattenSeq(data)) = Payload(sizes)
<1> DEFINE n == Len(sizes)
           F(f) == [i \in 0..n |-> IF i = 0 THEN 0 ELSE f[i - 1] + (IF sizes[i] = NullPartSize THEN 0 ELSE sizes[i])]
           c == CHOOSE f : f = F(f)
<1>1. n \in Nat /\ \A j \in 1..n : sizes[j] \in Nat /\ Declared(sizes, j) \in Nat
  BY DEF Declared
<1>2. \E f : f = F(f)
  <2> DEFINE step == [i \in 1..n |-> [v \in Nat |-> v + Declared(sizes, i)]]
  <2>1. step \in [1..n -> [Nat -> Nat]]
    <3>1. \A i \in 1..n, v \in Nat : v + Declared(sizes, i) \in Nat
      BY <1>1
    <3> QED
      BY <3>1
  <2>2. \A i \in 1..n, v \in Nat : step[i][v] = v + Declared(sizes, i)
    OBVIOUS
  <2>3. PICK f \in [0..n -> Nat] : Recurs(f, n, 0, step)
    <3> HIDE DEF step, n
    <3> QED
      BY <1>1, <2>1, Recursion
  <2> HIDE DEF step
  <2>4. ASSUME NEW i \in 0..n PROVE f[i] = IF i = 0 THEN 0 ELSE f[i - 1] + (IF sizes[i] = NullPartSize THEN 0 ELSE sizes[i])
    <3>1. CASE i = 0
      BY <2>3, <3>1 DEF Recurs
    <3>2. CASE i # 0
      <4>1. i \in 1..n /\ i - 1 \in 0..n
        BY <1>1, <3>2
      <4>2. f[i] = step[i][f[i - 1]] /\ f[i - 1] \in Nat
        BY <2>3, <4>1 DEF Recurs
      <4> QED
        BY <2>2, <3>2, <4>1, <4>2 DEF Declared
    <3> QED
      BY <3>1, <3>2
  <2>5. f = [i \in 0..n |-> f[i]]
    BY <2>3
  <2>6. (\A i \in 0..n : f[i] = F(f)[i]) /\ F(f) = [i \in 0..n |-> F(f)[i]]
    BY <2>4, Zenon
  <2>7. f = F(f)
    <3> HIDE DEF F, n
    <3> QED
      BY <2>5, <2>6
  <2> QED
    BY <2>7
<1>3. c = F(c)
  BY <1>2
<1> HIDE DEF c
<1>4. c[0] = 0
  <2>1. 0 \in 0..n
    BY <1>1
  <2> QED
    BY <1>3, <2>1
<1>5. ASSUME NEW i \in 1..n PROVE c[i] = c[i - 1] + Declared(sizes, i)
  <2>1. i \in 0..n /\ i # 0
    BY <1>1
  <2> QED
    BY <1>3, <2>1 DEF Declared
<1>6. Payload(sizes) = c[n]
  BY DEF Payload, c
<1> HIDE DEF F
<1> DEFINE Flat(i) == FlattenSeq(SubSeq(data, 1, i))
           P == {i \in Nat : i <= n => c[i] \in Nat /\ Len(Flat(i)) = c[i]}
<1>7. 0 \in P
  <2>1. SubSeq(data, 1, 0) = <<>>
    BY SubSeqEmpty
  <2>1a. Flat(0) = <<>>
    BY <2>1, FlattenEmpty
  <2>2. c[0] \in Nat /\ Len(Flat(0)) = c[0]
    <3> HIDE DEF Flat
    <3> QED
      BY <1>4, <2>1a
  <2> HIDE DEF Flat
  <2> QED
    BY <2>2
<1>8. ASSUME NEW i \in P PROVE i + 1 \in P
  <2>1. i \in Nat /\ i + 1 \in Nat
    OBVIOUS
  <2> SUFFICES ASSUME i + 1 <= n PROVE c[i + 1] \in Nat /\ Len(Flat(i + 1)) = c[i + 1]
    BY <2>1
  <2>2. i <= n /\ i + 1 \in 1..n /\ (i + 1) - 1 = i /\ i < Len(data)
    BY <1>1, <2>1
  <2>3. c[i] \in Nat /\ Len(Flat(i)) = c[i]
    BY <2>2
  <2>4. Flat(i) \in Seq(S) /\ data[i + 1] \in Seq(S) /\ Flat(i + 1) = Flat(i) \o data[i + 1]
    BY <2>1, <2>2, FlattenTake
  <2>5. c[i + 1] = c[i] + Declared(sizes, i + 1) /\ Declared(sizes, i + 1) \in Nat
    BY <1>1, <1>5, <2>2
  <2>6. Len(data[i + 1]) = Declared(sizes, i + 1)
    BY <2>2
  <2> HIDE DEF Flat, P
  <2>7. Len(Flat(i + 1)) = Len(Flat(i)) + Len(data[i + 1])
    BY <2>4, ConcatProperties
  <2> QED
    BY <2>3, <2>5, <2>6, <2>7
<1>9. P = Nat
  <2>1. P \in SUBSET Nat
    OBVIOUS
  <2> HIDE DEF P
  <2> QED
    BY <1>7, <1>8, <2>1, Inductive
<1>10. c[n] \in Nat /\ Len(Flat(n)) = c[n]
  <2>1. n \in P
    <3> HIDE DEF P
    <3> QED
      BY <1>1, <1>9
  <2>2. n <= n
    BY <1>1
  <2> QED
    BY <2>1, <2>2
<1>11. SubSeq(data, 1, n) = data
  BY SubSeqFull
<1> QED
  BY <1>6, <1>10, <1>11

SizesOf(p) == [j \in 1..Len(p.parts) |-> SizeWord(p.parts[j])]

\* The words of a packet.
LEMMA EncodeIs ==
  ASSUME NEW p \in ValidPkt
  PROVE  LET n == Len(p.parts)
         IN  /\ n \in Nat /\ SizesOf(p) \in Seq(Nat) /\ Len(SizesOf(p)) = n
             /\ \A j \in 1..n : PartsRead(SizesOf(p))[j] = p.parts[j] /\ Declared(SizesOf(p), j) <= MaxPartSize
             /\ Encode(p) \in Seq(WireWord) /\ Payload(SizesOf(p)) \in Nat
             /\ Len(Encode(p)) = IF HasVariableHeader(p.type, n)
                                 THEN FixedHeaderSize + VariableHeaderSize(n) + Payload(SizesOf(p))
                                 ELSE FixedHeaderSize
             /\ Encode(p)[1] = Word("fixed", 0, HeaderOf(p))
             /\ HasVariableHeader(p.type, n) => \A j \in 1..n : Encode(p)[FixedHeaderSize + j].value = SizesOf(p)[j]
<1> DEFINE n == Len(p.parts)
           fixed == <<Word("fixed", 0, HeaderOf(p)), Word("sum", 0, 0)>>
           sizes == [j \in 1..n |-> Word("size", j, SizeWord(p.parts[j]))]
           sums  == [j \in 1..n |-> Word("sum", j, 0)]
           last  == <<Word("sum", 0, 0)>>
           part  == [j \in 1..n |-> [k \in 1..p.parts[j] |-> Word("data", j, k)]]
           tail  == sizes \o sums \o last \o FlattenSeq(part)
<1>1. /\ p.type \in STRING /\ p.id \in STRING /\ p.body \in STRING
      /\ p.parts \in Seq(Nat \cup {Null}) /\ n \in Nat
      /\ \A j \in 1..n : p.parts[j] \in Nat \cup {Null} /\ p.parts[j] <= MaxPartSize
  <2>1. p \in Pkt /\ Valid(p)
    BY DEF ValidPkt
  <2>2. p.parts \in Seq(Nat \cup {Null})
    BY <2>1 DEF Pkt
  <2> QED
    BY <2>1, <2>2 DEF Pkt, Valid
<1>2. WordLimit \in Nat /\ MaxPartSize \in Nat /\ MaxPartSize < WordLimit - 1
  BY BusAssumption
<1>3. ASSUME NEW j \in 1..n
      PROVE  /\ SizeWord(p.parts[j]) \in Nat
             /\ p.parts[j] = Null => SizeWord(p.parts[j]) = NullPartSize
             /\ p.parts[j] # Null => SizeWord(p.parts[j]) = p.parts[j] /\ SizeWord(p.parts[j]) # NullPartSize
  <2>1. CASE p.parts[j] = Null
    BY <1>2, <2>1 DEF SizeWord, NullPartSize
  <2>2. CASE p.parts[j] # Null
    <3>1. p.parts[j] \in Nat /\ p.parts[j] < WordLimit
      BY <1>1, <1>2, <2>2
    <3>2. p.parts[j] % WordLimit = p.parts[j]
      BY <1>2, <3>1
    <3> QED
      BY <1>1, <1>2, <2>2, <3>1, <3>2 DEF SizeWord, NullPartSize
  <2> QED
    BY <2>1, <2>2
<1>4. SizesOf(p) \in Seq(Nat) /\ Len(SizesOf(p)) = n /\ \A j \in 1..n : SizesOf(p)[j] = SizeWord(p.parts[j])
  <2>1. SizesOf(p) \in [1..n -> Nat]
    BY <1>3 DEF SizesOf
  <2> QED
    BY <1>1, <2>1, FunIsSeq DEF SizesOf
<1>5. ASSUME NEW j \in 1..n
      PROVE  /\ PartsRead(SizesOf(p))[j] = p.parts[j]
             /\ Declared(SizesOf(p), j) \in Nat /\ Declared(SizesOf(p), j) <= MaxPartSize
             /\ Declared(SizesOf(p), j) = IF p.parts[j] = Null THEN 0 ELSE p.parts[j]
  <2>1. DOMAIN SizesOf(p) = 1..n
    BY DEF SizesOf
  <2> QED
    BY <1>1, <1>2, <1>3, <1>4, <2>1 DEF PartsRead, Declared
<1>6. /\ sizes \in Seq(WireWord) /\ Len(sizes) = n
      /\ sums \in Seq(WireWord) /\ Len(sums) = n
  <2>1. \A j \in 1..n : Word("size", j, SizeWord(p.parts[j])) \in WireWord /\ Word("sum", j, 0) \in WireWord
    BY <1>1, <1>3, WordIn
  <2>2. sizes \in [1..n -> WireWord] /\ sums \in [1..n -> WireWord]
    BY <2>1
  <2> HIDE DEF sizes, sums, n
  <2> QED
    BY <1>1, <2>2, FunIsSeq
<1>7. fixed \in Seq(WireWord) /\ Len(fixed) = 2 /\ last \in Seq(WireWord) /\ Len(last) = 1
  <2>1. Word("fixed", 0, HeaderOf(p)) \in WireWord /\ Word("sum", 0, 0) \in WireWord
    <3>1. HeaderOf(p) \in Header
      BY <1>1 DEF HeaderOf, Header
    <3> QED
      BY <3>1, WordIn
  <2> HIDE DEF WireWord, Word
  <2> QED
    BY <2>1
<1>8. part \in Seq(Seq(WireWord)) /\ Len(part) = n /\ \A j \in 1..n : Len(part[j]) = Declared(SizesOf(p), j)
  <2>1. ASSUME NEW j \in 1..n
        PROVE  /\ [k \in 1..p.parts[j] |-> Word("data", j, k)] \in Seq(WireWord)
               /\ Len([k \in 1..p.parts[j] |-> Word("data", j, k)]) = Declared(SizesOf(p), j)
    <3> DEFINE d == [k \in 1..p.parts[j] |-> Word("data", j, k)]
    <3>1. CASE p.parts[j] = Null
      <4>1. d = <<>>
        BY <3>1 DEF Null
      <4>2. Declared(SizesOf(p), j) = 0
        BY <1>5, <3>1
      <4> HIDE DEF d
      <4> QED
        BY <4>1, <4>2, EmptySeq DEF d
    <3>2. CASE p.parts[j] # Null
      <4>1. p.parts[j] \in Nat /\ Declared(SizesOf(p), j) = p.parts[j]
        BY <1>1, <1>5, <3>2
      <4>2. \A k \in 1..p.parts[j] : Word("data", j, k) \in WireWord
        BY <4>1, WordIn
      <4>3. d \in [1..p.parts[j] -> WireWord]
        BY <4>2
      <4> HIDE DEF d
      <4>4. d \in Seq(WireWord) /\ Len(d) = p.parts[j]
        BY <4>1, <4>3, FunIsSeq
      <4> QED
        BY <4>1, <4>4 DEF d
    <3> QED
      BY <3>1, <3>2
  <2>2. part \in [1..n -> Seq(WireWord)] /\ \A j \in 1..n : part[j] = [k \in 1..p.parts[j] |-> Word("data", j, k)]
    BY <2>1
  <2> HIDE DEF part, n
  <2>3. part \in Seq(Seq(WireWord)) /\ Len(part) = n
    BY <1>1, <2>2, FunIsSeq
  <2> QED
    BY <2>1, <2>2, <2>3
<1>9. /\ FlattenSeq(part) \in Seq(WireWord)
      /\ Payload(SizesOf(p)) \in Nat /\ Len(FlattenSeq(part)) = Payload(SizesOf(p))
  <2> HIDE DEF part, n
  <2> QED
    BY <1>4, <1>8, FlattenIn, PayloadIs
<1>10. Encode(p) = fixed \o (IF HasVariableHeader(p.type, n) THEN tail ELSE <<>>)
  BY DEF Encode, HeaderOf
<1> DEFINE flat == FlattenSeq(part)
<1>11. /\ tail \in Seq(WireWord) /\ Len(tail) = n + n + 1 + Payload(SizesOf(p))
       /\ \A j \in 1..n : tail[j] = sizes[j]
  <2> HIDE DEF sizes, sums, last, part, n
  <2>1. /\ sizes \o sums \in Seq(WireWord) /\ Len(sizes \o sums) = n + n
        /\ \A j \in 1..n : (sizes \o sums)[j] = sizes[j]
    <3>1. sizes \in Seq(WireWord) /\ sums \in Seq(WireWord)
      BY <1>6
    <3>2. /\ sizes \o sums \in Seq(WireWord) /\ Len(sizes \o sums) = Len(sizes) + Len(sums)
          /\ \A j \in 1..Len(sizes) : (sizes \o sums)[j] = sizes[j]
      <4> HIDE DEF fixed, flat
      <4> QED
        BY <3>1, TwoParts
    <3> QED
      BY <1>6, <3>2
  <2> DEFINE a == sizes \o sums
  <2> HIDE DEF a
  <2>2. /\ a \o last \in Seq(WireWord) /\ Len(a \o last) = n + n + 1
        /\ \A j \in 1..n : (a \o last)[j] = sizes[j]
    <3>1. a \in Seq(WireWord) /\ Len(a) = n + n /\ \A j \in 1..n : a[j] = sizes[j]
      BY <2>1 DEF a
    <3>2. /\ a \o last \in Seq(WireWord) /\ Len(a \o last) = Len(a) + Len(last)
          /\ \A j \in 1..Len(a) : (a \o last)[j] = a[j]
      <4>1. last \in Seq(WireWord)
        BY <1>7
      <4> HIDE DEF fixed
      <4> QED
        BY <3>1, <4>1, TwoParts
    <3> QED
      BY <1>1, <1>7, <3>1, <3>2
  <2> DEFINE b == a \o last
  <2> HIDE DEF b
  <2>3. /\ b \o flat \in Seq(WireWord) /\ Len(b \o flat) = n + n + 1 + Payload(SizesOf(p))
        /\ \A j \in 1..n : (b \o flat)[j] = sizes[j]
    <3>1. b \in Seq(WireWord) /\ Len(b) = n + n + 1 /\ \A j \in 1..n : b[j] = sizes[j]
      BY <2>2 DEF b
    <3>2. flat \in Seq(WireWord) /\ Len(flat) = Payload(SizesOf(p))
      BY <1>9
    <3> HIDE DEF flat
    <3>3. /\ b \o flat \in Seq(WireWord) /\ Len(b \o flat) = Len(b) + Len(flat)
          /\ \A j \in 1..Len(b) : (b \o flat)[j] = b[j]
      BY <3>1, <3>2, TwoParts
    <3> QED
      BY <1>1, <3>1, <3>2, <3>3
  <2> QED
    BY <2>3 DEF a, b
<1> HIDE DEF tail
<1>12. CASE ~HasVariableHeader(p.type, n)
  <2>1. Encode(p) = fixed
    <3> HIDE DEF fixed
    <3> QED
      BY <1>7, <1>10, <1>12, ConcatEmptySeq
  <2>2. fixed[1] = Word("fixed", 0, HeaderOf(p))
    OBVIOUS
  <2> HIDE DEF fixed
  <2> QED
    BY <1>1, <1>4, <1>5, <1>7, <1>9, <1>12, <2>1, <2>2 DEF FixedHeaderSize
<1>13. CASE HasVariableHeader(p.type, n)
  <2>1. Encode(p) = fixed \o tail
    BY <1>10, <1>13
  <2>2. fixed[1] = Word("fixed", 0, HeaderOf(p))
    OBVIOUS
  <2> HIDE DEF fixed
  <2>3. /\ fixed \o tail \in Seq(WireWord) /\ Len(fixed \o tail) = 2 + (n + n + 1 + Payload(SizesOf(p)))
        /\ \A i \in 1..2 : (fixed \o tail)[i] = fixed[i]
        /\ \A i \in 1..n + n + 1 + Payload(SizesOf(p)) : (fixed \o tail)[2 + i] = tail[i]
    <3> HIDE DEF n
    <3>1. fixed \in Seq(WireWord) /\ tail \in Seq(WireWord) /\ Len(fixed) = 2 /\ Len(tail) = n + n + 1 + Payload(SizesOf(p))
      BY <1>7, <1>11
    <3>2. /\ fixed \o tail \in Seq(WireWord) /\ Len(fixed \o tail) = Len(fixed) + Len(tail)
          /\ \A i \in 1..Len(fixed) : (fixed \o tail)[i] = fixed[i]
          /\ \A i \in 1..Len(tail) : (fixed \o tail)[Len(fixed) + i] = tail[i]
      <4>1. fixed \in Seq(WireWord) /\ tail \in Seq(WireWord)
        BY <3>1
      <4> QED
        BY <4>1, TwoParts
    <3> QED
      BY <3>1, <3>2
  <2>4. (fixed \o tail)[1] = Word("fixed", 0, HeaderOf(p))
    BY <1>1, <1>9, <2>2, <2>3
  <2>5. ASSUME NEW j \in 1..n PROVE (fixed \o tail)[FixedHeaderSize + j].value = SizesOf(p)[j]
    <3>1. j \in 1..n + n + 1 + Payload(SizesOf(p))
      BY <1>1, <1>9
    <3>2. (fixed \o tail)[2 + j] = sizes[j]
      BY <1>11, <2>3, <3>1
    <3>3. sizes[j].value = SizesOf(p)[j]
      BY <1>4 DEF Word
    <3> HIDE DEF sizes
    <3> QED
      BY <3>2, <3>3 DEF FixedHeaderSize
  <2>6. Len(fixed \o tail) = FixedHeaderSize + VariableHeaderSize(n) + Payload(SizesOf(p))
    BY <1>1, <1>9, <2>3 DEF FixedHeaderSize, VariableHeaderSize
  <2> QED
    BY <1>1, <1>4, <1>5, <1>9, <1>13, <2>1, <2>3, <2>4, <2>5, <2>6
<1> QED
  BY <1>12, <1>13

\* Where the words of the first k packets end.
Start(k) == Len(Written(SubSeq(Sent, 1, k)))

\* Every packet lies in the stream where the packets before it end.
LEMMA PlacesAre ==
  ASSUME script \in Scripts, stream = Written(Sent)
  PROVE  /\ Len(Sent) \in Nat /\ Len(stream) \in Nat /\ Start(0) = 0 /\ Start(Len(Sent)) = Len(stream)
         /\ \A k \in 0..Len(Sent) : Start(k) \in Nat /\ Start(k) <= Len(stream)
         /\ \A k \in Nat : k < Len(Sent) =>
              /\ Sent[k + 1] \in ValidPkt
              /\ Start(k + 1) = Start(k) + Len(Encode(Sent[k + 1])) /\ Start(k + 1) <= Len(stream)
              /\ \A i \in 1..Len(Encode(Sent[k + 1])) : stream[Start(k) + i] = Encode(Sent[k + 1])[i]
<1> DEFINE n == Len(Sent)
           E == [i \in 1..n |-> Encode(Sent[i])]
           Flat(k) == FlattenSeq(SubSeq(E, 1, k))
<1>1. Sent \in Seq(ValidPkt) /\ n \in Nat /\ DOMAIN Sent = 1..n /\ \A i \in 1..n : Sent[i] \in ValidPkt
  BY SentIn
<1>2. \A i \in 1..n : Encode(Sent[i]) \in Seq(WireWord)
  BY <1>1, EncodeIs
<1>3. E \in [1..n -> Seq(WireWord)]
  BY <1>2
<1>4. E \in Seq(Seq(WireWord)) /\ Len(E) = n
  <2> HIDE DEF E, n
  <2> QED
    BY <1>1, <1>3, FunIsSeq
<1>5. ASSUME NEW k \in 0..n PROVE Written(SubSeq(Sent, 1, k)) = Flat(k) /\ Flat(k) \in Seq(WireWord)
  <2> DEFINE s == SubSeq(Sent, 1, k)
             t == SubSeq(E, 1, k)
             u == [i \in 1..k |-> Encode(s[i])]
  <2>1. k \in Nat /\ (\A i \in 1..k : Sent[i] \in ValidPkt /\ i \in 1..n) /\ (\A i \in 1..k : E[i] \in Seq(WireWord))
    BY <1>1, <1>2
  <2>2. s \in Seq(ValidPkt) /\ Len(s) = k /\ \A i \in 1..k : s[i] = Sent[i]
    BY <2>1, SubSeqProperties
  <2>3. t \in Seq(Seq(WireWord)) /\ Len(t) = k /\ \A i \in 1..k : t[i] = E[i]
    <3> HIDE DEF E
    <3> QED
      BY <2>1, SubSeqProperties
  <2>4. DOMAIN s = 1..k /\ DOMAIN t = 1..k
    BY <2>2, <2>3, LenProperties
  <2>5. Written(s) = FlattenSeq(u)
    BY <2>4 DEF Written
  <2>6. u = t
    <3>1. \A i \in 1..k : u[i] = t[i]
      <4> HIDE DEF s, t
      <4> QED
        BY <2>1, <2>2, <2>3
    <3>2. t = [i \in 1..k |-> t[i]] /\ u = [i \in 1..k |-> u[i]]
      BY <2>3, <2>4
    <3> HIDE DEF u, t
    <3> QED
      BY <3>1, <3>2
  <2>7. FlattenSeq(t) \in Seq(WireWord)
    BY <2>3, FlattenIn
  <2> HIDE DEF u
  <2> QED
    BY <2>5, <2>6, <2>7
<1>6. SubSeq(Sent, 1, n) = Sent /\ SubSeq(E, 1, n) = E
  <2> HIDE DEF E
  <2> QED
    BY <1>1, <1>4, SubSeqFull
<1>7. stream = Flat(n) /\ Start(n) = Len(stream)
  <2>1. n \in 0..n
    BY <1>1
  <2>2. Written(Sent) = Flat(n)
    BY <1>5, <1>6, <2>1
  <2> QED
    BY <1>6, <2>2 DEF Start
<1>8. Start(0) = 0
  <2>1. 0 \in 0..n /\ SubSeq(E, 1, 0) = <<>>
    BY <1>1, SubSeqEmpty
  <2>2. Flat(0) = <<>>
    BY <2>1, FlattenEmpty
  <2>3. Written(SubSeq(Sent, 1, 0)) = <<>>
    BY <1>5, <2>1, <2>2
  <2> QED
    BY <2>3 DEF Start
<1>9. ASSUME NEW k \in 0..n
      PROVE  /\ Start(k) = Len(Flat(k)) /\ Flat(k) \in Seq(WireWord)
             /\ Start(k) \in Nat /\ Start(k) <= Len(stream) /\ Len(stream) \in Nat
             /\ \A i \in 1..Len(Flat(k)) : stream[i] = Flat(k)[i]
  <2>1. k \in Nat /\ k <= Len(E) /\ n \in k..Len(E)
    BY <1>1, <1>4
  <2>2. PICK t \in Seq(WireWord) : Flat(n) = Flat(k) \o t
    <3> HIDE DEF E
    <3> QED
      BY <1>4, <2>1, FlattenPrefix
  <2>3. Start(k) = Len(Flat(k)) /\ Flat(k) \in Seq(WireWord)
    BY <1>5 DEF Start
  <2> HIDE DEF Flat
  <2>4. /\ Len(Flat(k) \o t) = Len(Flat(k)) + Len(t) /\ Len(Flat(k)) \in Nat /\ Len(t) \in Nat
        /\ \A i \in 1..Len(Flat(k)) : (Flat(k) \o t)[i] = Flat(k)[i]
    BY <2>3, TwoParts
  <2> QED
    BY <1>7, <2>2, <2>3, <2>4
<1>10. ASSUME NEW k \in Nat, k < n
       PROVE  /\ Sent[k + 1] \in ValidPkt
              /\ Start(k + 1) = Start(k) + Len(Encode(Sent[k + 1])) /\ Start(k + 1) <= Len(stream)
              /\ \A i \in 1..Len(Encode(Sent[k + 1])) : stream[Start(k) + i] = Encode(Sent[k + 1])[i]
  <2>1. k \in 0..n /\ k + 1 \in 0..n /\ k + 1 \in 1..n /\ k < Len(E)
    BY <1>1, <1>4, <1>10
  <2> DEFINE x == Flat(k)
             e == Encode(Sent[k + 1])
  <2>2. x \in Seq(WireWord) /\ e \in Seq(WireWord) /\ E[k + 1] = e
    BY <1>2, <1>9, <2>1
  <2>3. Flat(k + 1) = x \o e
    <3>1. Flat(k + 1) = Flat(k) \o E[k + 1]
      <4> HIDE DEF E
      <4> QED
        BY <1>4, <2>1, FlattenTake
    <3> HIDE DEF Flat, E
    <3> QED
      BY <2>2, <3>1
  <2>4. Start(k) = Len(x) /\ Start(k + 1) = Len(Flat(k + 1)) /\ Start(k + 1) <= Len(stream)
    BY <1>9, <2>1
  <2>5. \A i \in 1..Len(Flat(k + 1)) : stream[i] = Flat(k + 1)[i]
    BY <1>9, <2>1
  <2> HIDE DEF Flat, x, e, E
  <2>6. /\ Len(x \o e) = Len(x) + Len(e) /\ Len(x) \in Nat /\ Len(e) \in Nat
        /\ \A i \in 1..Len(e) : (x \o e)[Len(x) + i] = e[i]
    BY <2>2, TwoParts
  <2>7. ASSUME NEW i \in 1..Len(e) PROVE stream[Start(k) + i] = e[i]
    <3>1. Len(x) + i \in 1..Len(Flat(k + 1))
      BY <2>3, <2>6
    <3> QED
      BY <2>3, <2>4, <2>5, <2>6, <3>1
  <2>8. Sent[k + 1] \in ValidPkt
    BY <1>1, <2>1
  <2> QED
    BY <2>3, <2>4, <2>6, <2>7, <2>8 DEF e
<1>11. Len(stream) \in Nat
  <2>1. 0 \in 0..n
    BY <1>1
  <2> QED
    BY <1>9, <2>1
<1> QED
  BY <1>1, <1>7, <1>8, <1>9, <1>10, <1>11

\* What the reader makes of what it has, when it is done with n packets.
LEMMA DecodeIs ==
  ASSUME script \in Scripts, stream = Written(Sent), NEW n \in 0..Len(Sent),
         consumed = Start(n), arrived \in consumed..Len(stream), flaw \in Nat
  PROVE  LET next == Sent[n + 1]
             last == Start(n) + Len(Encode(next))
         IN  /\ Decode.outcome \in {"more", "packet", "refused"}
             /\ Decode.outcome = "more" => Decode = More /\ (n = Len(Sent) \/ arrived < Start(n + 1))
             /\ Decode.outcome = "packet" =>
                  n < Len(Sent) /\ Decode.packet = next /\ Decode.length = Len(Encode(next)) /\ last <= arrived
             /\ Decode.outcome = "refused" =>
                  /\ n < Len(Sent) /\ Decode.why \in {"header", "part", "limit"}
                  /\ Decode.why \in {"header", "part"} => flaw \in Start(n) + 1..last
                  /\ Decode.why = "limit" => OverLimit(next)
<1> DEFINE length == arrived - consumed
           next == Sent[n + 1]
           e == Encode(next)
           last == Start(n) + Len(e)
<1>1. /\ Len(Sent) \in Nat /\ Len(stream) \in Nat /\ n \in Nat /\ n <= Len(Sent)
      /\ Start(n) \in Nat /\ consumed \in Nat /\ arrived \in Nat /\ consumed <= arrived /\ arrived <= Len(stream)
      /\ length \in Nat /\ Start(Len(Sent)) = Len(stream)
  BY PlacesAre
<1>2. CASE n = Len(Sent)
  <2>1. length = 0
    BY <1>1, <1>2
  <2>2. Decode = More
    BY <2>1 DEF Decode, FixedHeaderSize
  <2> QED
    BY <1>2, <2>2 DEF More
<1>3. CASE n # Len(Sent)
  <2>1. n < Len(Sent)
    BY <1>1, <1>3
  <2>2. /\ next \in ValidPkt /\ Start(n + 1) = last /\ last <= Len(stream)
        /\ \A i \in 1..Len(e) : stream[consumed + i] = e[i]
    BY <1>1, <2>1, PlacesAre
  <2> DEFINE p == next
             m == Len(next.parts)
             at(i) == stream[consumed + i]
             header == at(1).value
             headers == FixedHeaderSize + VariableHeaderSize(header.count)
             sizes == [j \in 1..header.count |-> at(FixedHeaderSize + j).value]
             total == headers + Payload(sizes)
             result == [type |-> header.type, id |-> header.id, parts |-> PartsRead(sizes), body |-> header.body]
             V == HasVariableHeader(next.type, m)
  <2>3. /\ m \in Nat /\ SizesOf(p) \in Seq(Nat) /\ Len(SizesOf(p)) = m /\ Payload(SizesOf(p)) \in Nat
        /\ \A j \in 1..m : PartsRead(SizesOf(p))[j] = p.parts[j] /\ Declared(SizesOf(p), j) <= MaxPartSize
        /\ e \in Seq(WireWord)
        /\ Len(e) = IF V THEN FixedHeaderSize + VariableHeaderSize(m) + Payload(SizesOf(p)) ELSE FixedHeaderSize
        /\ e[1] = Word("fixed", 0, HeaderOf(p))
        /\ V => \A j \in 1..m : e[FixedHeaderSize + j].value = SizesOf(p)[j]
    BY <2>2, EncodeIs
  <2>4. /\ Len(e) \in Nat /\ Len(e) >= 2
    BY <2>3, SMTT(30) DEF FixedHeaderSize, VariableHeaderSize
  <2>5. at(1) = e[1] /\ at(1).kind = "fixed" /\ header = HeaderOf(p)
    <3>1. at(1) = e[1]
      BY <2>2, <2>4
    <3> QED
      BY <2>3, <3>1 DEF Word
  <2>6. header.count = m /\ header.type = p.type /\ header.id = p.id /\ header.body = p.body
    BY <2>5 DEF HeaderOf
  <2>7. V => sizes = SizesOf(p)
    <3> SUFFICES ASSUME V PROVE sizes = SizesOf(p)
      OBVIOUS
    <3>1. ASSUME NEW j \in 1..m PROVE at(FixedHeaderSize + j).value = SizesOf(p)[j]
      <4>1. FixedHeaderSize + j \in 1..Len(e)
        <5>1. PICK x, y, l \in Nat : x = m /\ y = Payload(SizesOf(p)) /\ l = Len(e)
          BY <2>3, <2>4
        <5>2. l = FixedHeaderSize + VariableHeaderSize(m) + y
          BY <2>3, <5>1
        <5>3. l = 2 + (2 * x + 1) + y /\ j \in 1..x
          BY <3>1, <5>1, <5>2 DEF FixedHeaderSize, VariableHeaderSize
        <5>4. 2 + j \in 1..l
          BY <5>3
        <5> QED
          BY <5>1, <5>4 DEF FixedHeaderSize
      <4> QED
        BY <2>2, <2>3, <4>1
    <3>2. SizesOf(p) = [j \in 1..m |-> SizesOf(p)[j]]
      BY <2>3, LenProperties
    <3> HIDE DEF header, at, m
    <3> QED
      BY <2>6, <3>1, <3>2
  <2>8. p.parts \in Seq(Nat \cup {Null}) /\ p = [type |-> p.type, id |-> p.id, parts |-> p.parts, body |-> p.body]
    BY <2>2 DEF ValidPkt, Pkt
  <2>9. V => result = p
    <3> SUFFICES ASSUME V PROVE result = p
      OBVIOUS
    <3>1. DOMAIN SizesOf(p) = 1..m
      BY DEF SizesOf
    <3>2. PartsRead(SizesOf(p)) = [j \in 1..m |-> PartsRead(SizesOf(p))[j]]
      BY <3>1 DEF PartsRead
    <3>3. p.parts = [j \in 1..m |-> p.parts[j]]
      BY <2>8, LenProperties
    <3>4. PartsRead(SizesOf(p)) = p.parts
      <4> HIDE DEF m
      <4> QED
        BY <2>3, <3>2, <3>3
    <3> HIDE DEF header, sizes, p
    <3> QED
      BY <2>6, <2>7, <2>8, <3>4
  <2>10. ~V => [result EXCEPT !.parts = <<>>] = p
    <3> SUFFICES ASSUME ~V PROVE [result EXCEPT !.parts = <<>>] = p
      OBVIOUS
    <3>1. m = 0
      BY <2>3 DEF HasVariableHeader
    <3>2. p.parts = <<>>
      BY <2>8, <3>1
    <3> HIDE DEF header, sizes, p
    <3> QED
      BY <2>6, <2>8, <3>2
  <2>11. V => ~\E j \in DOMAIN sizes : sizes[j] # NullPartSize /\ sizes[j] > MaxPartSize
    <3> SUFFICES ASSUME V, NEW j \in DOMAIN sizes, sizes[j] # NullPartSize, sizes[j] > MaxPartSize PROVE FALSE
      OBVIOUS
    <3>1. j \in 1..m /\ sizes[j] = SizesOf(p)[j]
      <4>1. DOMAIN SizesOf(p) = 1..m
        BY DEF SizesOf
      <4> HIDE DEF sizes
      <4> QED
        BY <2>7, <4>1
    <3>2. SizesOf(p)[j] <= MaxPartSize /\ SizesOf(p)[j] \in Nat /\ MaxPartSize \in Nat
      <4>1. SizesOf(p)[j] # NullPartSize
        BY <3>1
      <4>2. Declared(SizesOf(p), j) = SizesOf(p)[j]
        BY <4>1 DEF Declared
      <4>3. SizesOf(p)[j] \in Nat
        <5> HIDE DEF m, p
        <5> QED
          BY <2>3, <3>1
      <4>4. Declared(SizesOf(p), j) <= MaxPartSize
        BY <2>3, <3>1
      <4> QED
        BY <4>2, <4>3, <4>4, BusAssumption
    <3> HIDE DEF sizes, header, p
    <3> QED
      BY <3>1, <3>2
  <2>12. V => headers = FixedHeaderSize + VariableHeaderSize(m) /\ total = Len(e) /\ headers \in Nat /\ headers >= 3 /\ headers <= Len(e)
    <3> SUFFICES ASSUME V
                 PROVE headers = FixedHeaderSize + VariableHeaderSize(m) /\ total = Len(e) /\ headers \in Nat /\ headers >= 3 /\ headers <= Len(e)
      OBVIOUS
    <3>1. headers = FixedHeaderSize + VariableHeaderSize(m) /\ total = headers + Payload(SizesOf(p))
      <4> HIDE DEF header, sizes, m
      <4> QED
        BY <2>6, <2>7
    <3>2. Len(e) = FixedHeaderSize + VariableHeaderSize(m) + Payload(SizesOf(p)) /\ m \in Nat /\ Payload(SizesOf(p)) \in Nat
      BY <2>3
    <3> HIDE DEF headers, total, header, sizes, e, m, p
    <3>3. FixedHeaderSize + VariableHeaderSize(m) = 2 * m + 3
      BY <3>2 DEF FixedHeaderSize, VariableHeaderSize
    <3> QED
      BY <3>1, <3>2, <3>3
  <2>13. Decode =
           IF length < FixedHeaderSize THEN More
           ELSE IF at(1).kind # "fixed" \/ Flawed(consumed + 1, consumed + 2) THEN Refusing("header")
           ELSE IF header.count > ReaderParts THEN Refusing("limit")
           ELSE IF ~HasVariableHeader(header.type, header.count)
                THEN Whole(FixedHeaderSize, [result EXCEPT !.parts = <<>>])
           ELSE IF headers > ReaderBytes THEN Refusing("limit")
           ELSE IF length < headers THEN More
           ELSE IF Flawed(consumed + 3, consumed + headers) THEN Refusing("header")
           ELSE IF \E j \in DOMAIN sizes : sizes[j] # NullPartSize /\ sizes[j] > MaxPartSize
                THEN Refusing("limit")
           ELSE IF total > ReaderBytes THEN Refusing("limit")
           ELSE IF length < total THEN More
           ELSE IF Flawed(consumed + headers + 1, consumed + total) THEN Refusing("part")
           ELSE Whole(total, result)
    BY DEF Decode
  <2>14. V = HasVariableHeader(header.type, header.count)
    <3> HIDE DEF header
    <3> QED
      BY <2>6
  <2> DEFINE Claim ==
         /\ Decode.outcome \in {"more", "packet", "refused"}
         /\ Decode.outcome = "more" => Decode = More /\ (n = Len(Sent) \/ arrived < Start(n + 1))
         /\ Decode.outcome = "packet" =>
              n < Len(Sent) /\ Decode.packet = next /\ Decode.length = Len(Encode(next)) /\ last <= arrived
         /\ Decode.outcome = "refused" =>
              /\ n < Len(Sent) /\ Decode.why \in {"header", "part", "limit"}
              /\ Decode.why \in {"header", "part"} => flaw \in Start(n) + 1..last
              /\ Decode.why = "limit" => OverLimit(next)
  <2>15. ASSUME Decode = More, length < Len(e) PROVE Claim
    <3>1. arrived < Start(n + 1)
      BY <1>1, <2>2, <2>4, <2>15
    <3> QED
      BY <2>15, <3>1 DEF More
  <2>16. ASSUME NEW why \in {"header", "part"}, Decode = Refusing(why), flaw \in Start(n) + 1..last PROVE Claim
    BY <2>1, <2>16 DEF Refusing
  <2>17. ASSUME Decode = Refusing("limit"), OverLimit(next) PROVE Claim
    BY <2>1, <2>17 DEF Refusing
  <2>18. ASSUME Decode = Whole(Len(e), next), Len(e) <= length PROVE Claim
    <3>1. last <= arrived
      BY <1>1, <2>4, <2>18
    <3> QED
      BY <2>1, <2>18, <3>1 DEF Whole
  <2> HIDE DEF Claim, length, header, headers, sizes, total, result
  <2> DEFINE C1 == length < FixedHeaderSize
             C2 == at(1).kind # "fixed" \/ Flawed(consumed + 1, consumed + 2)
             C3 == header.count > ReaderParts
             C5 == headers > ReaderBytes
             C6 == length < headers
             C7 == Flawed(consumed + 3, consumed + headers)
             C8 == \E j \in DOMAIN sizes : sizes[j] # NullPartSize /\ sizes[j] > MaxPartSize
             C9 == total > ReaderBytes
             C10 == length < total
             C11 == Flawed(consumed + headers + 1, consumed + total)
  <2>20. ReaderBytes \in Nat /\ ReaderParts \in Nat
    BY BusAssumption
  <2>21. Decode = IF C1 THEN More ELSE IF C2 THEN Refusing("header") ELSE IF C3 THEN Refusing("limit")
                  ELSE IF ~V THEN Whole(FixedHeaderSize, [result EXCEPT !.parts = <<>>])
                  ELSE IF C5 THEN Refusing("limit") ELSE IF C6 THEN More ELSE IF C7 THEN Refusing("header")
                  ELSE IF C8 THEN Refusing("limit") ELSE IF C9 THEN Refusing("limit") ELSE IF C10 THEN More
                  ELSE IF C11 THEN Refusing("part") ELSE Whole(total, result)
    BY <2>13, <2>14
  <2>22. C2 => flaw \in Start(n) + 1..last
    BY <1>1, <2>4, <2>5 DEF Flawed
  <2>23. C3 => OverLimit(next)
    BY <2>6 DEF OverLimit
  <2>24. V /\ C5 => OverLimit(next)
    BY <2>4, <2>12, <2>20 DEF OverLimit
  <2>25. V /\ C6 => length < Len(e)
    BY <1>1, <2>4, <2>12 DEF length
  <2>26. V /\ C7 => flaw \in Start(n) + 1..last
    BY <1>1, <2>4, <2>12, SMTT(30) DEF Flawed
  <2>27. V /\ C9 => OverLimit(next)
    BY <2>4, <2>12, <2>20 DEF OverLimit
  <2>28. V /\ C10 => length < Len(e)
    BY <2>12
  <2>29. V /\ C11 => flaw \in Start(n) + 1..last
    BY <1>1, <2>4, <2>12, SMTT(30) DEF Flawed
  <2>30. V /\ ~C10 => Len(e) <= length
    BY <1>1, <2>4, <2>12 DEF length
  <2>31. ~C1 /\ ~V => Len(e) <= length /\ Len(e) = FixedHeaderSize
    BY <1>1, <2>3, <2>4 DEF length, FixedHeaderSize
  <2>32. (~V => [result EXCEPT !.parts = <<>>] = next) /\ (V => result = next /\ total = Len(e))
    BY <2>9, <2>10, <2>12
  <2>33. V => ~C8
    BY <2>11
  <2>34. C1 => length < Len(e)
    BY <1>1, <2>4 DEF FixedHeaderSize, length
  <2> HIDE DEF C1, C2, C3, C5, C6, C7, C8, C9, C10, C11, V, e, next, last, at
  <2>35. CASE C1
    BY <2>15, <2>21, <2>34, <2>35 DEF Claim, next, last, e
  <2>36. CASE ~C1 /\ C2
    <3>1. Decode = Refusing("header")
      BY <2>21, <2>36
    <3> QED
      BY <2>16, <2>22, <2>36, <3>1 DEF Claim, next, last, e
  <2>37. CASE ~C1 /\ ~C2 /\ C3
    <3>1. Decode = Refusing("limit")
      BY <2>21, <2>37
    <3> QED
      BY <2>17, <2>23, <2>37, <3>1 DEF Claim, next, last, e
  <2>38. CASE ~C1 /\ ~C2 /\ ~C3 /\ ~V
    <3>1. Decode = Whole(Len(e), next)
      BY <2>21, <2>31, <2>32, <2>38
    <3> QED
      BY <2>18, <2>31, <2>38, <3>1 DEF Claim, next, last, e
  <2>39. CASE ~C1 /\ ~C2 /\ ~C3 /\ V
    <3>1. CASE C5
      BY <2>17, <2>21, <2>24, <2>39, <3>1 DEF Claim, next, last, e
    <3>2. CASE ~C5 /\ C6
      BY <2>15, <2>21, <2>25, <2>39, <3>2 DEF Claim, next, last, e
    <3>3. CASE ~C5 /\ ~C6 /\ C7
      BY <2>16, <2>21, <2>26, <2>39, <3>3 DEF Claim, next, last, e
    <3>4. CASE ~C5 /\ ~C6 /\ ~C7 /\ C9
      BY <2>17, <2>21, <2>27, <2>33, <2>39, <3>4 DEF Claim, next, last, e
    <3>5. CASE ~C5 /\ ~C6 /\ ~C7 /\ ~C9 /\ C10
      BY <2>15, <2>21, <2>28, <2>33, <2>39, <3>5 DEF Claim, next, last, e
    <3>6. CASE ~C5 /\ ~C6 /\ ~C7 /\ ~C9 /\ ~C10 /\ C11
      BY <2>16, <2>21, <2>29, <2>33, <2>39, <3>6 DEF Claim, next, last, e
    <3>7. CASE ~C5 /\ ~C6 /\ ~C7 /\ ~C9 /\ ~C10 /\ ~C11
      BY <2>18, <2>21, <2>30, <2>32, <2>33, <2>39, <3>7 DEF Claim, next, last, e
    <3> QED
      BY <3>1, <3>2, <3>3, <3>4, <3>5, <3>6, <3>7
  <2> QED
    BY <2>35, <2>36, <2>37, <2>38, <2>39
<1> QED
  BY <1>2, <1>3

\* Every packet has words: the later ends later.
LEMMA StartGrows ==
  ASSUME script \in Scripts, stream = Written(Sent), NEW k \in 0..Len(Sent)
  PROVE  \A m \in k..Len(Sent) : Start(k) <= Start(m)
<1> DEFINE P == {m \in Nat : m \in k..Len(Sent) => Start(k) <= Start(m)}
<1>1. Len(Sent) \in Nat /\ k \in Nat /\ k <= Len(Sent) /\ \A m \in 0..Len(Sent) : Start(m) \in Nat
  BY PlacesAre
<1>2. 0 \in P
  <2> SUFFICES ASSUME 0 \in k..Len(Sent) PROVE Start(k) <= Start(0)
    OBVIOUS
  <2>1. k = 0
    BY <1>1
  <2> QED
    BY <1>1, <2>1
<1>3. ASSUME NEW m \in P PROVE m + 1 \in P
  <2>1. m \in Nat /\ m + 1 \in Nat
    OBVIOUS
  <2> SUFFICES ASSUME m + 1 \in k..Len(Sent) PROVE Start(k) <= Start(m + 1)
    BY <2>1
  <2>2. CASE m + 1 = k
    BY <1>1, <2>2
  <2>3. CASE m + 1 # k
    <3>1. m \in k..Len(Sent) /\ m < Len(Sent) /\ m \in 0..Len(Sent)
      BY <1>1, <2>1, <2>3
    <3>2. Start(k) <= Start(m)
      BY <3>1
    <3>3. Start(m + 1) = Start(m) + Len(Encode(Sent[m + 1])) /\ Sent[m + 1] \in ValidPkt
      BY <2>1, <3>1, PlacesAre
    <3>4. Len(Encode(Sent[m + 1])) \in Nat
      BY <3>3, EncodeIs, LenProperties
    <3>5. Start(k) \in Nat /\ Start(m) \in Nat
      BY <1>1, <3>1
    <3> HIDE DEF P
    <3> QED
      BY <3>2, <3>3, <3>4, <3>5
  <2> QED
    BY <2>2, <2>3
<1>4. P = Nat
  <2>1. P \in SUBSET Nat
    OBVIOUS
  <2> HIDE DEF P
  <2> QED
    BY <1>2, <1>3, <2>1, Inductive
<1>5. ASSUME NEW m \in k..Len(Sent) PROVE Start(k) <= Start(m)
  <2>1. m \in P
    <3>1. m \in Nat
      BY <1>1
    <3> HIDE DEF P
    <3> QED
      BY <1>4, <3>1
  <2> QED
    BY <2>1
<1> QED
  BY <1>5

\* The packets that came whole, when the next one has not.
LEMMA CompleteIs ==
  ASSUME script \in Scripts, stream = Written(Sent), NEW n \in 0..Len(Sent),
         arrived \in Nat, Start(n) <= arrived, n = Len(Sent) \/ arrived < Start(n + 1)
  PROVE  Complete = n
<1> DEFINE ends == {m \in 0..Len(Sent) : Start(m) <= arrived}
<1>1. Complete = CHOOSE m \in ends : \A k \in ends : k <= m
  BY DEF Complete, Start
<1>2. Len(Sent) \in Nat /\ n \in Nat /\ n <= Len(Sent) /\ \A m \in 0..Len(Sent) : Start(m) \in Nat
  BY PlacesAre
<1>3. n \in ends
  OBVIOUS
<1>4. ASSUME NEW k \in ends PROVE k <= n
  <2> SUFFICES ASSUME ~(k <= n) PROVE FALSE
    OBVIOUS
  <2>1. k \in 0..Len(Sent) /\ Start(k) <= arrived
    OBVIOUS
  <2>2. n + 1 \in 0..Len(Sent) /\ k \in n + 1..Len(Sent) /\ n # Len(Sent)
    BY <1>2, <2>1
  <2>3. Start(n + 1) <= Start(k)
    BY <2>2, StartGrows
  <2>4. Start(n + 1) \in Nat /\ Start(k) \in Nat
    BY <1>2, <2>1, <2>2
  <2> HIDE DEF ends
  <2> QED
    BY <2>1, <2>2, <2>3, <2>4
<1>5. ASSUME NEW m \in ends, \A k \in ends : k <= m PROVE m = n
  <2>1. m <= n /\ n <= m /\ m \in Nat
    BY <1>2, <1>3, <1>4, <1>5
  <2> QED
    BY <1>2, <2>1
<1> HIDE DEF ends
<1> QED
  BY <1>1, <1>3, <1>4, <1>5

\* Where the reader stands, and why it ended.
BusInv ==
  /\ script \in Scripts /\ stream = Written(Sent) /\ flaw \in Nat /\ arrived \in 0..Len(stream)
  /\ busPhase \in {"connecting", "greeting", "open", "over"}
  /\ Len(got) \in 0..Len(Sent) /\ got = SubSeq(Sent, 1, Len(got))
  /\ busPhase # "over" => busError = "none" /\ consumed = Start(Len(got)) /\ consumed <= arrived
  /\ busPhase \in {"connecting", "greeting"} => got = <<>>
  /\ busError \in {"header", "part"} =>
       flaw \in Start(Len(got)) + 1..Start(Len(got)) + Len(Encode(Sent[Len(got) + 1]))
  /\ busError = "limit" => OverLimit(Sent[Len(got) + 1])
  /\ busError = "handshake" => got = <<>> /\ ~Greets(Sent[Len(got) + 1])
  /\ busError = "closed" => Len(got) = Complete

\* The invariant holds of a connection that has not begun.
LEMMA BusStarts == BusInit => BusInv
<1> SUFFICES ASSUME BusInit PROVE BusInv
  OBVIOUS
<1> USE DEF BusInit
<1>1. /\ Len(Sent) \in Nat /\ Len(stream) \in Nat /\ Start(0) = 0
  BY PlacesAre
<1>2. SubSeq(Sent, 1, 0) = <<>>
  BY SubSeqEmpty
<1>3. Len(got) = 0
  OBVIOUS
<1> QED
  BY <1>1, <1>2, <1>3 DEF BusInv

\* Every step of the reader, the network and the peer preserves it.
LEMMA BusSteps == BusInv /\ [BusNext]_busVars => BusInv'
<1> SUFFICES ASSUME BusInv, [BusNext]_busVars PROVE BusInv'
  OBVIOUS
<1>1. script' = script /\ stream' = stream /\ flaw' = flaw
  BY DEF BusNext, busVars, ConnectTimesOut, Connected, ReceivePacket, ReadMore, PeerCloses
<1>2. Sent' = Sent /\ \A k : Start(k)' = Start(k)
  BY <1>1 DEF Sent, Start
<1>3. script' \in Scripts /\ stream' = Written(Sent') /\ flaw' \in Nat
  BY <1>1, <1>2 DEF BusInv
<1> DEFINE n == Len(got)
<1>4. n \in 0..Len(Sent) /\ Len(Sent) \in Nat /\ Len(stream) \in Nat /\ n \in Nat /\ arrived \in Nat
  BY PlacesAre DEF BusInv
<1>5. CASE UNCHANGED <<arrived, got, busError>> /\ consumed' = consumed /\ busPhase' = busPhase
  <2>1. Complete' = Complete
    BY <1>1, <1>2, <1>5 DEF Complete
  <2> QED
    BY <1>1, <1>2, <1>3, <1>5, <2>1 DEF BusInv
<1>6. CASE ConnectTimesOut
  BY <1>1, <1>2, <1>3, <1>6 DEF BusInv, ConnectTimesOut, BusEnds
<1>7. CASE Connected
  <2>1. busError' = "none" /\ busPhase' = "greeting" /\ UNCHANGED <<arrived, got, consumed>> /\ got = <<>> /\ busPhase = "connecting"
    BY <1>7 DEF Connected, BusInv
  <2> QED
    BY <1>1, <1>2, <1>3, <2>1 DEF BusInv
<1>8. ASSUME busPhase \in {"greeting", "open"}
      PROVE  LET next == Sent[n + 1]
                 last == Start(n) + Len(Encode(next))
             IN  /\ Decode.outcome \in {"more", "packet", "refused"}
                 /\ Decode.outcome = "more" => Decode = More /\ (n = Len(Sent) \/ arrived < Start(n + 1))
                 /\ Decode.outcome = "packet" =>
                      n < Len(Sent) /\ Decode.packet = next /\ Decode.length = Len(Encode(next)) /\ last <= arrived
                 /\ Decode.outcome = "refused" =>
                      /\ n < Len(Sent) /\ Decode.why \in {"header", "part", "limit"}
                      /\ Decode.why \in {"header", "part"} => flaw \in Start(n) + 1..last
                      /\ Decode.why = "limit" => OverLimit(next)
  <2>1. /\ script \in Scripts /\ stream = Written(Sent) /\ consumed = Start(n)
        /\ arrived \in consumed..Len(stream) /\ flaw \in Nat
    <3>1. busPhase # "over"
      BY <1>8
    <3>2. Start(n) \in Nat
      BY <1>4, PlacesAre DEF BusInv
    <3> QED
      BY <1>4, <3>1, <3>2 DEF BusInv
  <2> HIDE DEF n
  <2> QED
    BY <1>4, <2>1, DecodeIs
<1>9. CASE ReceivePacket
  <2> DEFINE next == Sent[n + 1]
  <2>1. busPhase \in {"greeting", "open"} /\ arrived' = arrived
    BY <1>9 DEF ReceivePacket
  <2>2. CASE /\ Decode.outcome = "packet" /\ consumed' = consumed + Decode.length
             /\ busPhase = "greeting" /\ ~Greets(Decode.packet) /\ BusEnds("handshake") /\ got' = got
    <3>1. ~Greets(next) /\ got = <<>>
      BY <1>8, <2>1, <2>2 DEF BusInv
    <3> QED
      BY <1>1, <1>2, <1>3, <2>1, <2>2, <3>1 DEF BusInv, BusEnds
  <2>3. CASE /\ Decode.outcome = "packet" /\ consumed' = consumed + Decode.length
             /\ busPhase' = "open" /\ got' = Append(got, Decode.packet) /\ busError' = busError
    <3>1. n < Len(Sent) /\ Decode.packet = next /\ Decode.length = Len(Encode(next)) /\ Start(n) + Len(Encode(next)) <= arrived
      BY <1>8, <2>1, <2>3
    <3>2. Start(n + 1) = Start(n) + Len(Encode(next))
      BY <1>4, <3>1, PlacesAre DEF BusInv
    <3>3. Sent \in Seq(ValidPkt)
      BY SentIn DEF BusInv
    <3>4. got = SubSeq(Sent, 1, n) /\ consumed = Start(n) /\ busError = "none"
      BY <2>1 DEF BusInv
    <3>5. SubSeq(Sent, 1, n + 1) = Append(got, next) /\ got \in Seq(ValidPkt) /\ next \in ValidPkt
      <4>1. /\ SubSeq(Sent, 1, n) \in Seq(ValidPkt) /\ Sent[n + 1] \in ValidPkt
            /\ SubSeq(Sent, 1, n + 1) = Append(SubSeq(Sent, 1, n), Sent[n + 1])
        <5> HIDE DEF n
        <5> QED
          BY <1>4, <3>1, <3>3, TakeOne
      <4> QED
        BY <3>4, <4>1
    <3>6. Len(got') = n + 1 /\ got' = SubSeq(Sent, 1, n + 1)
      BY <2>3, <3>1, <3>5, AppendProperties
    <3>7. Len(got') \in 0..Len(Sent) /\ consumed' = Start(Len(got')) /\ consumed' <= arrived /\ busError' = "none"
      BY <1>4, <2>3, <3>1, <3>2, <3>4, <3>6
    <3> QED
      BY <1>1, <1>2, <1>3, <2>1, <2>3, <3>6, <3>7 DEF BusInv
  <2>4. CASE Decode.outcome = "refused" /\ BusEnds(Decode.why) /\ UNCHANGED <<consumed, got>>
    <3>1. /\ busError' \in {"header", "part", "limit"} /\ busPhase' = "over"
          /\ busError' \in {"header", "part"} => flaw \in Start(n) + 1..Start(n) + Len(Encode(next))
          /\ busError' = "limit" => OverLimit(next)
      BY <1>8, <2>1, <2>4 DEF BusEnds
    <3> QED
      BY <1>1, <1>2, <1>3, <2>1, <2>4, <3>1 DEF BusInv
  <2> QED
    BY <1>9, <2>2, <2>3, <2>4 DEF ReceivePacket
<1>10. CASE ReadMore
  <2>1. busPhase \in {"greeting", "open"} /\ Decode = More /\ consumed' = consumed /\ got' = got
    BY <1>10 DEF ReadMore
  <2>2. (n = Len(Sent) \/ arrived < Start(n + 1)) /\ busError = "none" /\ consumed = Start(n) /\ consumed <= arrived
    BY <1>8, <2>1 DEF BusInv, More
  <2>3. CASE (\E m \in arrived + 1..Len(stream) : arrived' = m) /\ UNCHANGED <<busPhase, busError>>
    <3>1. arrived' \in 0..Len(stream) /\ arrived <= arrived'
      BY <1>4, <2>3
    <3>2. consumed <= arrived'
      <4>1. Start(n) \in Nat
        BY <1>4, PlacesAre DEF BusInv
      <4> QED
        BY <1>4, <2>2, <3>1, <4>1
    <3>3. busError' = "none"
      BY <2>2, <2>3
    <3> QED
      BY <1>1, <1>2, <1>3, <2>1, <2>2, <2>3, <3>1, <3>2, <3>3 DEF BusInv
  <2>4. CASE BusEnds("closed") /\ arrived' = arrived
    <3>1. Complete = n
      BY <1>4, <2>2, CompleteIs DEF BusInv
    <3>2. Complete' = Complete
      BY <1>1, <1>2, <2>4 DEF Complete
    <3> QED
      BY <1>1, <1>2, <1>3, <2>1, <2>4, <3>1, <3>2 DEF BusInv, BusEnds
  <2> QED
    BY <1>10, <2>3, <2>4 DEF ReadMore
<1>11. CASE PeerCloses
  BY <1>5, <1>11 DEF PeerCloses
<1>12. CASE UNCHANGED busVars
  BY <1>5, <1>12 DEF busVars
<1> QED
  BY <1>6, <1>7, <1>9, <1>10, <1>11, <1>12 DEF BusNext

\* FramesAreTrue, of every script, every way the reads cut the stream and every
\* limit of the reader: BusReader::receive and packet::decode_with hand on
\* what was sent and refuse only what is flawed or too large.
THEOREM FramesStayTrue == BusSpec => []FramesAreTrue
<1>1. BusInv => FramesAreTrue
  <2> SUFFICES ASSUME BusInv PROVE FramesAreTrue
    OBVIOUS
  <2>1. Len(got) <= Len(Sent) /\ got = SubSeq(Sent, 1, Len(got)) /\ Len(got) \in Nat /\ Sent \in Seq(ValidPkt)
    BY PlacesAre, SentIn DEF BusInv
  <2>2. got \in Seq(ValidPkt)
    <3>1. \A i \in 1..Len(got) : Sent[i] \in ValidPkt
      BY <2>1
    <3>2. SubSeq(Sent, 1, Len(got)) \in Seq(ValidPkt)
      BY <2>1, <3>1, SubSeqProperties
    <3> QED
      BY <2>1, <3>2
  <2>3. SubSeq(got, 1, Len(got)) = got
    BY <2>2, SubSeqFull
  <2>4. IsPrefix(got, Sent)
    BY <2>1, <2>3 DEF IsPrefix
  <2> QED
    BY <2>4 DEF BusInv, FramesAreTrue, Start
<1> QED
  BY <1>1, BusStarts, BusSteps, PTL DEF BusSpec

-----------------------------------------------------------------------------
(***************************************************************************)
(* JobWriter: the output is whole.                                         *)
(***************************************************************************)
WByte == {b \in {"row", "mark", "switch"} \X Nat \X Nat : b[1] = "switch" => b[2] \in Tables}

\* The same bytes, cut elsewhere.
LEMMA BytesAssociate ==
  ASSUME NEW a \in Seq(WByte), NEW b \in Seq(WByte), NEW c \in Seq(WByte)
  PROVE  (a \o b) \o c = a \o (b \o c)
BY ConcatAssociative

RowRec == [table : Tables, size : RowSizes]

\* What the cluster has read: the table in force and the bytes of each.
ReadState == [at : Tables, out : [Tables -> Seq(WByte)]]
ReadNothing == [at |-> 0, out |-> [t \in Tables |-> <<>>]]
ObeySteps(bytes) == [i \in 1..Len(bytes) |-> [v \in ReadState |-> Obey(v, bytes[i])]]

\* A byte read leads from a state of the reading to another.
LEMMA ObeyIn ==
  /\ ReadNothing \in ReadState
  /\ \A v \in ReadState, b \in WByte : Obey(v, b) \in ReadState
<1>1. 0 \in Tables
  BY WriterAssumption DEF Tables
<1>2. ReadNothing \in ReadState
  <2>1. [t \in Tables |-> <<>>] \in [Tables -> Seq(WByte)]
    BY EmptySeq
  <2> QED
    BY <1>1, <2>1 DEF ReadNothing, ReadState
<1>3. ASSUME NEW v \in ReadState, NEW b \in WByte PROVE Obey(v, b) \in ReadState
  <2>1. CASE b[1] = "switch"
    <3>1. b[2] \in Tables
      BY <2>1 DEF WByte
    <3>2. [v EXCEPT !.at = b[2]] \in ReadState
      <4> HIDE DEF WByte, Tables
      <4> QED
        BY <3>1 DEF ReadState
    <3> QED
      BY <2>1, <3>2 DEF Obey
  <2>2. CASE b[1] # "switch"
    <3>1. v.at \in Tables /\ v.out \in [Tables -> Seq(WByte)]
      BY DEF ReadState
    <3>2. Append(v.out[v.at], b) \in Seq(WByte)
      <4>1. v.out[v.at] \in Seq(WByte)
        BY <3>1
      <4> HIDE DEF WByte
      <4> QED
        BY <4>1, AppendProperties
    <3>3. [v EXCEPT !.out[v.at] = Append(@, b)] \in ReadState
      <4> HIDE DEF WByte, Tables
      <4> QED
        BY <3>1, <3>2 DEF ReadState
    <3> QED
      BY <2>2, <3>3 DEF Obey
  <2> QED
    BY <2>1, <2>2
<1> QED
  BY <1>2, <1>3

\* The recursion of Obeyed has a solution, and Obeyed is its last value.
LEMMA ObeyedRecurs ==
  ASSUME NEW s \in Seq(WByte)
  PROVE  \E f \in [0..Len(s) -> ReadState] :
           Recurs(f, Len(s), ReadNothing, ObeySteps(s)) /\ Obeyed(s) = f[Len(s)]
<1> DEFINE n == Len(s)
           F(f) == [i \in 0..n |-> IF i = 0 THEN ReadNothing ELSE Obey(f[i - 1], s[i])]
           c == CHOOSE f : f = F(f)
           step == ObeySteps(s)
<1>1. n \in Nat /\ \A j \in 1..n : s[j] \in WByte
  OBVIOUS
<1>2. step \in [1..n -> [ReadState -> ReadState]] /\ \A i \in 1..n, v \in ReadState : step[i][v] = Obey(v, s[i])
  <2>1. \A i \in 1..n, v \in ReadState : Obey(v, s[i]) \in ReadState
    BY <1>1, ObeyIn
  <2> QED
    BY <2>1 DEF ObeySteps
<1> HIDE DEF step
<1>3. PICK f \in [0..n -> ReadState] : Recurs(f, n, ReadNothing, step)
  <2> HIDE DEF n
  <2> QED
    BY <1>1, <1>2, ObeyIn, Recursion
<1>4. ASSUME NEW i \in 0..n PROVE f[i] = IF i = 0 THEN ReadNothing ELSE Obey(f[i - 1], s[i])
  <2>1. CASE i = 0
    BY <1>3, <2>1 DEF Recurs
  <2>2. CASE i # 0
    <3>1. i \in 1..n /\ i - 1 \in 0..n
      BY <1>1, <2>2
    <3>2. f[i] = step[i][f[i - 1]] /\ f[i - 1] \in ReadState
      BY <1>3, <3>1 DEF Recurs
    <3> QED
      BY <1>2, <2>2, <3>1, <3>2
  <2> QED
    BY <2>1, <2>2
<1>5. f = F(f)
  <2>1. f = [i \in 0..n |-> f[i]]
    BY <1>3
  <2>2. (\A i \in 0..n : f[i] = F(f)[i]) /\ F(f) = [i \in 0..n |-> F(f)[i]]
    BY <1>4, Zenon
  <2> HIDE DEF F, n
  <2> QED
    BY <2>1, <2>2
<1>6. c = F(c)
  BY <1>5
<1> HIDE DEF c
<1> DEFINE P == {i \in Nat : i <= n => c[i] = f[i]}
<1>7. 0 \in P
  <2>1. 0 \in 0..n
    BY <1>1
  <2>2. c[0] = ReadNothing
    BY <1>6, <2>1
  <2> QED
    BY <1>4, <2>1, <2>2
<1>8. ASSUME NEW i \in P PROVE i + 1 \in P
  <2>1. i \in Nat /\ i + 1 \in Nat
    OBVIOUS
  <2> SUFFICES ASSUME i + 1 <= n PROVE c[i + 1] = f[i + 1]
    BY <2>1
  <2>2. i <= n /\ i + 1 \in 0..n /\ i + 1 # 0 /\ (i + 1) - 1 = i
    BY <2>1, <1>1
  <2>3. c[i] = f[i]
    BY <2>2
  <2>4. c[i + 1] = Obey(c[(i + 1) - 1], s[i + 1])
    BY <1>6, <2>2
  <2>5. f[i + 1] = Obey(f[(i + 1) - 1], s[i + 1])
    BY <1>4, <2>2
  <2> QED
    BY <2>2, <2>3, <2>4, <2>5
<1>9. P = Nat
  <2>1. P \in SUBSET Nat
    OBVIOUS
  <2> HIDE DEF P
  <2> QED
    BY <1>7, <1>8, <2>1, Inductive
<1>10. c[n] = f[n]
  <2>1. n \in P
    <3> HIDE DEF P
    <3> QED
      BY <1>1, <1>9
  <2>2. n <= n
    BY <1>1
  <2> QED
    BY <2>1, <2>2
<1>11. Obeyed(s) = c[n]
  BY DEF Obeyed, c, ReadNothing
<1> HIDE DEF n
<1> QED
  BY <1>3, <1>10, <1>11 DEF step, n

\* The cluster reads one byte after the other.
LEMMA ObeyedIs ==
  ASSUME NEW s \in Seq(WByte)
  PROVE  /\ Obeyed(<<>>) = ReadNothing /\ Obeyed(s) \in ReadState
         /\ \A b \in WByte : Obeyed(Append(s, b)) = Obey(Obeyed(s), b)
<1>1. PICK f \in [0..Len(s) -> ReadState] :
        Recurs(f, Len(s), ReadNothing, ObeySteps(s)) /\ Obeyed(s) = f[Len(s)]
  BY ObeyedRecurs
<1>2. Len(s) \in Nat
  OBVIOUS
<1>3. Obeyed(<<>>) = ReadNothing
  <2>1. <<>> \in Seq(WByte) /\ Len(<<>>) = 0
    BY EmptySeq
  <2>2. PICK g \in [0..Len(<<>>) -> ReadState] :
          Recurs(g, Len(<<>>), ReadNothing, ObeySteps(<<>>)) /\ Obeyed(<<>>) = g[Len(<<>>)]
    BY <2>1, ObeyedRecurs
  <2> QED
    BY <2>1, <2>2 DEF Recurs
<1>4. ASSUME NEW b \in WByte PROVE Obeyed(Append(s, b)) = Obey(Obeyed(s), b)
  <2> DEFINE t == Append(s, b)
             n == Len(s)
  <2>1. t \in Seq(WByte) /\ Len(t) = n + 1 /\ t[n + 1] = b /\ \A i \in 1..n : t[i] = s[i]
    BY AppendProperties
  <2> HIDE DEF t
  <2>2. PICK g \in [0..Len(t) -> ReadState] :
          Recurs(g, Len(t), ReadNothing, ObeySteps(t)) /\ Obeyed(t) = g[Len(t)]
    BY <2>1, ObeyedRecurs
  <2>3. \A i \in 1..n : ObeySteps(t)[i] = ObeySteps(s)[i]
    BY <1>2, <2>1 DEF ObeySteps
  <2>4. \A i \in 0..n : f[i] = g[i]
    <3>1. Recurs(f, n, ReadNothing, ObeySteps(s)) /\ Recurs(g, n + 1, ReadNothing, ObeySteps(t))
      BY <1>1, <2>1, <2>2
    <3>2. n \in Nat /\ n + 1 \in Nat /\ n <= n + 1
      BY <1>2
    <3> HIDE DEF n
    <3>3. \A p, q : \A j, m \in Nat :
             /\ Recurs(f, j, ReadNothing, p) /\ Recurs(g, m, ReadNothing, q)
             /\ j <= m /\ \A i \in 1..j : q[i] = p[i]
             => \A i \in 0..j : f[i] = g[i]
      BY RecursAgree
    <3> QED
      BY <2>3, <3>1, <3>2, <3>3, Zenon
  <2>5. n \in 0..n /\ n + 1 \in 1..n + 1 /\ (n + 1) - 1 = n
    BY <1>2
  <2>6. g[n + 1] = ObeySteps(t)[n + 1][g[(n + 1) - 1]]
    BY <2>1, <2>2, <2>5 DEF Recurs
  <2>7. g[n] = Obeyed(s) /\ Obeyed(s) \in ReadState
    BY <1>1, <2>4, <2>5
  <2>8. ObeySteps(t)[n + 1][g[n]] = Obey(g[n], b)
    BY <2>1, <2>5, <2>7 DEF ObeySteps
  <2> QED
    BY <2>1, <2>2, <2>5, <2>6, <2>7, <2>8 DEF t
<1>5. Obeyed(s) \in ReadState
  BY <1>1, <1>2
<1> QED
  BY <1>3, <1>4, <1>5

\* What is read later adds to the tables.
LEMMA ObeyedGrows ==
  ASSUME NEW s \in Seq(WByte), NEW y \in Seq(WByte), NEW t \in Tables
  PROVE  \E z \in Seq(WByte) : Obeyed(s \o y).out[t] = Obeyed(s).out[t] \o z
<1> DEFINE Grows(k) == \E z \in Seq(WByte) : Obeyed(s \o SubSeq(y, 1, k)).out[t] = Obeyed(s).out[t] \o z
           P == {k \in Nat : k <= Len(y) => Grows(k)}
<1>0. Len(y) \in Nat /\ Obeyed(s).out[t] \in Seq(WByte)
  <2>1. Obeyed(s) \in ReadState
    BY ObeyedIs
  <2> QED
    BY <2>1 DEF ReadState
<1>1. 0 \in P
  <2>1. SubSeq(y, 1, 0) = <<>>
    BY SubSeqEmpty
  <2>2. s \o SubSeq(y, 1, 0) = s
    BY <2>1, ConcatEmptySeq
  <2>3. Obeyed(s).out[t] \o <<>> = Obeyed(s).out[t]
    BY <1>0, ConcatEmptySeq
  <2>4. Grows(0)
    BY <2>2, <2>3, EmptySeq
  <2> HIDE DEF Grows
  <2> QED
    BY <2>4
<1>2. ASSUME NEW k \in P PROVE k + 1 \in P
  <2>1. k \in Nat /\ k + 1 \in Nat
    OBVIOUS
  <2> SUFFICES ASSUME k + 1 <= Len(y) PROVE Grows(k + 1)
    BY <2>1
  <2>2. k < Len(y) /\ k <= Len(y)
    BY <1>0, <2>1
  <2>3. PICK z \in Seq(WByte) : Obeyed(s \o SubSeq(y, 1, k)).out[t] = Obeyed(s).out[t] \o z
    BY <2>2
  <2> DEFINE b == y[k + 1]
             u == s \o SubSeq(y, 1, k)
  <2>4. u \in Seq(WByte) /\ b \in WByte /\ s \o SubSeq(y, 1, k + 1) = Append(u, b)
    BY <2>1, <2>2, ConcatTake
  <2> HIDE DEF u, b, P
  <2>5. Obeyed(Append(u, b)) = Obey(Obeyed(u), b) /\ Obeyed(u) \in ReadState
    BY <2>4, ObeyedIs
  <2>6. Obeyed(u).out \in [Tables -> Seq(WByte)]
    BY <2>5 DEF ReadState
  <2>7. CASE b[1] # "switch" /\ t = Obeyed(u).at
    <3>1. Obeyed(Append(u, b)).out[t] = Append(Obeyed(u).out[t], b)
      BY <2>5, <2>6, <2>7 DEF Obey
    <3> DEFINE x == Obeyed(s).out[t]
    <3> HIDE DEF x
    <3>2. Obeyed(u).out[t] = x \o z /\ x \in Seq(WByte) /\ z \in Seq(WByte)
      BY <1>0, <2>3 DEF u, x
    <3>3. x \o z \in Seq(WByte) /\ <<b>> \in Seq(WByte) /\ z \o <<b>> \in Seq(WByte)
      BY <2>4, <3>2, ConcatProperties
    <3>4. Append(x \o z, b) = (x \o z) \o <<b>>
      BY <2>4, <3>3, AppendIsConcat
    <3>5. (x \o z) \o <<b>> = x \o (z \o <<b>>)
      <4>1. Joinable(x, z, <<b>>)
        BY <3>2, <3>3, Joined
      <4> QED
        BY <4>1 DEF Joinable
    <3>6. Obeyed(Append(u, b)).out[t] = x \o (z \o <<b>>)
      BY <3>1, <3>2, <3>4, <3>5
    <3> QED
      BY <2>4, <3>3, <3>6 DEF x
  <2>8. CASE ~(b[1] # "switch" /\ t = Obeyed(u).at)
    <3>1. Obeyed(Append(u, b)).out[t] = Obeyed(u).out[t]
      BY <2>5, <2>6, <2>8 DEF Obey
    <3> QED
      BY <2>3, <2>4, <3>1 DEF u
  <2> QED
    BY <2>7, <2>8
<1>3. P = Nat
  <2>1. P \in SUBSET Nat
    OBVIOUS
  <2> HIDE DEF P
  <2> QED
    BY <1>1, <1>2, <2>1, Inductive
<1>4. Grows(Len(y))
  <2>1. Len(y) \in P
    <3> HIDE DEF P
    <3> QED
      BY <1>0, <1>3
  <2>2. Len(y) <= Len(y)
    BY <1>0
  <2> HIDE DEF Grows
  <2> QED
    BY <2>1, <2>2
<1>5. SubSeq(y, 1, Len(y)) = y
  BY SubSeqFull
<1> QED
  BY <1>4, <1>5

\* Bytes without a switch all go to the table in force.
LEMMA ObeyedPlain ==
  ASSUME NEW s \in Seq(WByte), NEW y \in Seq(WByte), \A i \in 1..Len(y) : y[i][1] # "switch"
  PROVE  /\ Obeyed(s \o y).at = Obeyed(s).at
         /\ \A t \in Tables :
              Obeyed(s \o y).out[t] = IF t = Obeyed(s).at THEN Obeyed(s).out[t] \o y ELSE Obeyed(s).out[t]
<1> DEFINE To(k) == /\ Obeyed(s \o SubSeq(y, 1, k)).at = Obeyed(s).at
                    /\ \A t \in Tables :
                         Obeyed(s \o SubSeq(y, 1, k)).out[t] =
                           IF t = Obeyed(s).at THEN Obeyed(s).out[t] \o SubSeq(y, 1, k) ELSE Obeyed(s).out[t]
           P == {k \in Nat : k <= Len(y) => To(k)}
<1>0. Len(y) \in Nat /\ Obeyed(s) \in ReadState /\ \A t \in Tables : Obeyed(s).out[t] \in Seq(WByte)
  <2>1. Obeyed(s) \in ReadState
    BY ObeyedIs
  <2> QED
    BY <2>1 DEF ReadState
<1>1. 0 \in P
  <2>1. SubSeq(y, 1, 0) = <<>>
    BY SubSeqEmpty
  <2>2. s \o SubSeq(y, 1, 0) = s
    BY <2>1, ConcatEmptySeq
  <2>3. \A t \in Tables : Obeyed(s).out[t] \o <<>> = Obeyed(s).out[t]
    BY <1>0, ConcatEmptySeq
  <2>4. To(0)
    BY <2>1, <2>2, <2>3
  <2> HIDE DEF To
  <2> QED
    BY <2>4
<1>2. ASSUME NEW k \in P PROVE k + 1 \in P
  <2>1. k \in Nat /\ k + 1 \in Nat
    OBVIOUS
  <2> SUFFICES ASSUME k + 1 <= Len(y) PROVE To(k + 1)
    BY <2>1
  <2>2. k < Len(y) /\ k <= Len(y) /\ k + 1 \in 1..Len(y)
    BY <1>0, <2>1
  <2>3. To(k)
    BY <2>2
  <2> DEFINE b == y[k + 1]
             v == SubSeq(y, 1, k)
             u == s \o v
  <2>4. u \in Seq(WByte) /\ b \in WByte /\ s \o SubSeq(y, 1, k + 1) = Append(u, b)
    BY <2>1, <2>2, ConcatTake
  <2>5. v \in Seq(WByte) /\ SubSeq(y, 1, k + 1) = Append(v, b)
    BY <2>1, <2>2, TakeOne
  <2>6. b[1] # "switch"
    BY <2>2
  <2> HIDE DEF u, v, b, P
  <2>7. Obeyed(Append(u, b)) = Obey(Obeyed(u), b) /\ Obeyed(u) \in ReadState
    BY <2>4, ObeyedIs
  <2>8. Obeyed(u).out \in [Tables -> Seq(WByte)]
    BY <2>7 DEF ReadState
  <2>9. /\ Obeyed(u).at = Obeyed(s).at
        /\ \A t \in Tables : Obeyed(u).out[t] = IF t = Obeyed(s).at THEN Obeyed(s).out[t] \o v ELSE Obeyed(s).out[t]
    BY <2>3 DEF u, v
  <2>10. Obeyed(Append(u, b)).at = Obeyed(s).at
    BY <2>6, <2>7, <2>9 DEF Obey, ReadState
  <2>11. ASSUME NEW t \in Tables
         PROVE  Obeyed(Append(u, b)).out[t] =
                  IF t = Obeyed(s).at THEN Obeyed(s).out[t] \o Append(v, b) ELSE Obeyed(s).out[t]
    <3>1. CASE t = Obeyed(s).at
      <4> DEFINE x == Obeyed(s).out[t]
      <4> HIDE DEF x
      <4>1. Obeyed(Append(u, b)).out[t] = Append(Obeyed(u).out[t], b)
        BY <2>6, <2>7, <2>8, <2>9, <3>1 DEF Obey
      <4>2. Obeyed(u).out[t] = x \o v /\ x \in Seq(WByte)
        BY <1>0, <2>9, <3>1 DEF x
      <4>3. x \o v \in Seq(WByte) /\ <<b>> \in Seq(WByte)
        BY <2>4, <2>5, <4>2, ConcatProperties
      <4>4. Append(x \o v, b) = (x \o v) \o <<b>> /\ Append(v, b) = v \o <<b>>
        BY <2>4, <2>5, <4>3, AppendIsConcat
      <4>5. (x \o v) \o <<b>> = x \o (v \o <<b>>)
        <5>1. Joinable(x, v, <<b>>)
          BY <2>5, <4>2, <4>3, Joined
        <5> QED
          BY <5>1 DEF Joinable
      <4> QED
        BY <3>1, <4>1, <4>2, <4>4, <4>5 DEF x
    <3>2. CASE t # Obeyed(s).at
      <4>1. Obeyed(Append(u, b)).out[t] = Obeyed(u).out[t]
        BY <2>6, <2>7, <2>8, <2>9, <3>2 DEF Obey
      <4> QED
        BY <2>9, <3>2, <4>1
    <3> QED
      BY <3>1, <3>2
  <2> QED
    BY <2>4, <2>5, <2>10, <2>11
<1>3. P = Nat
  <2>1. P \in SUBSET Nat
    OBVIOUS
  <2> HIDE DEF P
  <2> QED
    BY <1>1, <1>2, <2>1, Inductive
<1>4. To(Len(y))
  <2>1. Len(y) \in P
    <3> HIDE DEF P
    <3> QED
      BY <1>0, <1>3
  <2>2. Len(y) <= Len(y)
    BY <1>0
  <2> HIDE DEF To
  <2> QED
    BY <2>1, <2>2
<1>5. SubSeq(y, 1, Len(y)) = y
  BY SubSeqFull
<1> QED
  BY <1>4, <1>5

-----------------------------------------------------------------------------
\* What makes up a row.
LEMMA PiecesIn ==
  ASSUME NEW n \in Nat
  PROVE  /\ \A size \in Nat : RowBytes(n, size) \in Seq(WByte) /\ Len(RowBytes(n, size)) = size
         /\ \A size \in Nat : \A i \in 1..Len(RowBytes(n, size)) : RowBytes(n, size)[i][1] # "switch"
         /\ Delimiter(n) \in Seq(WByte) /\ \A i \in 1..Len(Delimiter(n)) : Delimiter(n)[i][1] # "switch"
         /\ \A t \in Tables : <<"switch", t, 0>> \in WByte /\ SwitchTo(t) \in Seq(WByte)
<1>1. ASSUME NEW size \in Nat
      PROVE  /\ RowBytes(n, size) \in Seq(WByte) /\ Len(RowBytes(n, size)) = size
             /\ \A i \in 1..Len(RowBytes(n, size)) : RowBytes(n, size)[i][1] # "switch"
  <2>1. \A k \in 1..size : <<"row", n, k>> \in WByte
    BY DEF WByte
  <2>2. RowBytes(n, size) \in [1..size -> WByte] /\ \A k \in 1..size : RowBytes(n, size)[k] = <<"row", n, k>>
    BY <2>1 DEF RowBytes
  <2>3. RowBytes(n, size) \in Seq(WByte) /\ Len(RowBytes(n, size)) = size
    BY <2>2, FunIsSeq
  <2> QED
    BY <2>2, <2>3
<1>2. <<"mark", n, 0>> \in WByte
  BY DEF WByte
<1>3. Delimiter(n) \in Seq(WByte) /\ Len(Delimiter(n)) = 1 /\ Delimiter(n)[1][1] = "mark"
  BY <1>2 DEF Delimiter
<1>4. ASSUME NEW t \in Tables PROVE <<"switch", t, 0>> \in WByte /\ SwitchTo(t) \in Seq(WByte)
  <2>1. t \in Nat
    BY WriterAssumption DEF Tables
  <2>2. <<"switch", t, 0>> \in WByte
    BY <2>1 DEF WByte
  <2> QED
    BY <2>2 DEF SwitchTo
<1> QED
  BY <1>1, <1>3, <1>4

Modes == {"descriptors", "switches", "skiff"}

\* The bytes of a row, none of which is a switch.
LEMMA RowIn ==
  ASSUME mode \in Modes, jobRows \in Seq(RowRec), NEW n \in 1..Len(jobRows)
  PROVE  /\ jobRows[n].table \in Tables /\ jobRows[n].size \in Nat
         /\ RowWhole(n) \in Seq(WByte) /\ \A i \in 1..Len(RowWhole(n)) : RowWhole(n)[i][1] # "switch"
<1>1. jobRows[n] \in RowRec /\ n \in Nat
  OBVIOUS
<1>2. jobRows[n].table \in Tables /\ jobRows[n].size \in Nat
  BY <1>1, WriterAssumption DEF RowRec
<1> DEFINE a == RowBytes(n, jobRows[n].size)
           b == Delimiter(n)
<1>3. /\ a \in Seq(WByte) /\ \A i \in 1..Len(a) : a[i][1] # "switch"
      /\ b \in Seq(WByte) /\ \A i \in 1..Len(b) : b[i][1] # "switch"
  BY <1>1, <1>2, PiecesIn
<1> HIDE DEF a, b
<1>4. ASSUME NEW x \in Seq(WByte), NEW y \in Seq(WByte),
             \A i \in 1..Len(x) : x[i][1] # "switch", \A i \in 1..Len(y) : y[i][1] # "switch"
      PROVE  x \o y \in Seq(WByte) /\ \A i \in 1..Len(x \o y) : (x \o y)[i][1] # "switch"
  <2>1. /\ x \o y \in Seq(WByte) /\ Len(x) \in Nat /\ Len(y) \in Nat /\ Len(x \o y) = Len(x) + Len(y)
        /\ \A i \in 1..Len(x) : (x \o y)[i] = x[i]
        /\ \A i \in 1..Len(y) : (x \o y)[Len(x) + i] = y[i]
    BY TwoParts
  <2>2. ASSUME NEW i \in 1..Len(x \o y) PROVE (x \o y)[i][1] # "switch"
    <3>1. CASE i <= Len(x)
      <4>1. i \in 1..Len(x)
        BY <2>1, <3>1
      <4> QED
        BY <1>4, <2>1, <4>1
    <3>2. CASE ~(i <= Len(x))
      <4>1. i - Len(x) \in 1..Len(y) /\ Len(x) + (i - Len(x)) = i
        BY <2>1, <3>2
      <4>2. (x \o y)[Len(x) + (i - Len(x))] = y[i - Len(x)]
        BY <2>1, <4>1
      <4> QED
        BY <1>4, <4>1, <4>2
    <3> QED
      BY <3>1, <3>2
  <2> QED
    BY <2>1, <2>2
<1>5. CASE mode = "skiff"
  <2>1. RowWhole(n) = b \o a
    BY <1>5 DEF RowWhole, a, b
  <2> QED
    BY <1>2, <1>3, <1>4, <2>1
<1>6. CASE mode # "skiff"
  <2>1. RowWhole(n) = a \o b
    BY <1>6 DEF RowWhole, a, b
  <2> QED
    BY <1>2, <1>3, <1>4, <2>1
<1> QED
  BY <1>5, <1>6

\* The table in force before row n, and what row n puts into sink s.
TableBefore(n) == IF n = 1 THEN 0 ELSE jobRows[n - 1].table
SwitchFor(n) == IF jobRows[n].table # TableBefore(n) THEN SwitchTo(jobRows[n].table) ELSE <<>>
SinkRow(s, n) ==
  IF mode = "switches" THEN SwitchFor(n) \o RowWhole(n)
  ELSE IF jobRows[n].table = s THEN RowWhole(n) ELSE <<>>
Due(s) == FlattenSeq([n \in DOMAIN jobRows |-> SinkRow(s, n)])

\* What a row puts into a sink is bytes.
LEMMA SinkRowIn ==
  ASSUME mode \in Modes, jobRows \in Seq(RowRec), NEW n \in 1..Len(jobRows), NEW s
  PROVE  /\ TableBefore(n) \in Tables /\ SwitchFor(n) \in Seq(WByte) /\ SinkRow(s, n) \in Seq(WByte)
         /\ (IF jobRows[n].table = s THEN RowWhole(n) ELSE <<>>) \in Seq(WByte)
<1>1. 0 \in Tables
  BY WriterAssumption DEF Tables
<1>2. TableBefore(n) \in Tables
  <2>1. CASE n = 1
    BY <1>1, <2>1 DEF TableBefore
  <2>2. CASE n # 1
    <3>1. n - 1 \in 1..Len(jobRows)
      BY <2>2
    <3>2. jobRows[n - 1].table \in Tables
      BY <3>1, RowIn
    <3> QED
      BY <2>2, <3>2 DEF TableBefore
  <2> QED
    BY <2>1, <2>2
<1>3. SwitchFor(n) \in Seq(WByte)
  <2>1. SwitchTo(jobRows[n].table) \in Seq(WByte)
    <3>1. jobRows[n].table \in Tables
      BY RowIn
    <3> QED
      BY <3>1, PiecesIn
  <2> QED
    BY <2>1, EmptySeq DEF SwitchFor
<1>4. RowWhole(n) \in Seq(WByte)
  BY RowIn
<1>5. SwitchFor(n) \o RowWhole(n) \in Seq(WByte)
  BY <1>3, <1>4, ConcatProperties
<1> QED
  BY <1>2, <1>3, <1>4, <1>5, EmptySeq DEF SinkRow

\* What is due to a sink, and owed to a table, is bytes.
LEMMA DueIn ==
  ASSUME mode \in Modes, jobRows \in Seq(RowRec), NEW s
  PROVE  Due(s) \in Seq(WByte) /\ Owed(s) \in Seq(WByte)
<1> DEFINE n == Len(jobRows)
           D == [k \in 1..n |-> SinkRow(s, k)]
           O == [k \in 1..n |-> IF jobRows[k].table = s THEN RowWhole(k) ELSE <<>>]
<1>1. DOMAIN jobRows = 1..n /\ n \in Nat
  OBVIOUS
<1>2. D \in [1..n -> Seq(WByte)] /\ O \in [1..n -> Seq(WByte)]
  BY SinkRowIn
<1> HIDE DEF D, O, n
<1>3. D \in Seq(Seq(WByte)) /\ O \in Seq(Seq(WByte))
  BY <1>1, <1>2, FunIsSeq
<1> QED
  BY <1>1, <1>3, FlattenIn DEF Due, Owed, D, O

\* With switches, the cluster reads what the job wrote.
LEMMA SwitchesObeyed ==
  ASSUME mode = "switches", jobRows \in Seq(RowRec), NEW t \in Tables
  PROVE  Obeyed(Due(0)).out[t] = Owed(t)
<1> DEFINE n == Len(jobRows)
           D == [k \in 1..n |-> SinkRow(0, k)]
           O == [k \in 1..n |-> IF jobRows[k].table = t THEN RowWhole(k) ELSE <<>>]
           sent(k) == FlattenSeq(SubSeq(D, 1, k))
           owed(k) == FlattenSeq(SubSeq(O, 1, k))
           P == {k \in Nat : k <= n => Obeyed(sent(k)).out[t] = owed(k) /\ Obeyed(sent(k)).at = TableBefore(k + 1)}
<1>0. mode \in Modes
  BY DEF Modes
<1>1. DOMAIN jobRows = 1..n /\ n \in Nat
  OBVIOUS
<1>2. /\ D \in Seq(Seq(WByte)) /\ Len(D) = n /\ \A k \in 1..n : D[k] = SwitchFor(k) \o RowWhole(k)
      /\ O \in Seq(Seq(WByte)) /\ Len(O) = n
      /\ \A k \in 1..n : O[k] = IF jobRows[k].table = t THEN RowWhole(k) ELSE <<>>
  <2>1. D \in [1..n -> Seq(WByte)] /\ O \in [1..n -> Seq(WByte)]
    BY <1>0, SinkRowIn
  <2>2. \A k \in 1..n : D[k] = SwitchFor(k) \o RowWhole(k)
    BY DEF SinkRow
  <2>3. \A k \in 1..n : O[k] = IF jobRows[k].table = t THEN RowWhole(k) ELSE <<>>
    OBVIOUS
  <2> HIDE DEF D, O, n
  <2> QED
    BY <1>1, <2>1, <2>2, <2>3, FunIsSeq
<1>3. Due(0) = FlattenSeq(D) /\ Owed(t) = FlattenSeq(O)
  BY <1>1 DEF Due, Owed
<1> HIDE DEF D, O
<1>4. 0 \in P
  <2>1. SubSeq(D, 1, 0) = <<>> /\ SubSeq(O, 1, 0) = <<>>
    BY SubSeqEmpty
  <2>2. sent(0) = <<>> /\ owed(0) = <<>>
    BY <2>1, FlattenEmpty
  <2>3. Obeyed(<<>>) = ReadNothing
    BY EmptySeq, ObeyedIs
  <2>4. Obeyed(<<>>).out[t] = <<>> /\ Obeyed(<<>>).at = TableBefore(0 + 1)
    BY <2>3 DEF ReadNothing, TableBefore
  <2> HIDE DEF sent, owed
  <2> QED
    BY <2>2, <2>4
<1>5. ASSUME NEW k \in P PROVE k + 1 \in P
  <2>1. k \in Nat /\ k + 1 \in Nat
    OBVIOUS
  <2> SUFFICES ASSUME k + 1 <= n
               PROVE  Obeyed(sent(k + 1)).out[t] = owed(k + 1) /\ Obeyed(sent(k + 1)).at = TableBefore((k + 1) + 1)
    BY <2>1
  <2>2. k < n /\ k <= n /\ k + 1 \in 1..n /\ k + 1 # 0
    BY <1>1, <2>1
  <2>3. Obeyed(sent(k)).out[t] = owed(k) /\ Obeyed(sent(k)).at = TableBefore(k + 1)
    BY <2>2
  <2> DEFINE r == jobRows[k + 1].table
             w == RowWhole(k + 1)
             x == sent(k)
             y == SwitchFor(k + 1)
  <2>4. /\ x \in Seq(WByte) /\ y \in Seq(WByte) /\ w \in Seq(WByte) /\ r \in Tables
        /\ \A i \in 1..Len(w) : w[i][1] # "switch"
        /\ sent(k + 1) = x \o (y \o w)
    <3>1. sent(k) \in Seq(WByte) /\ sent(k + 1) = sent(k) \o D[k + 1]
      BY <1>2, <2>1, <2>2, FlattenTake
    <3>2. D[k + 1] = y \o w
      BY <1>2, <2>2
    <3>3. y \in Seq(WByte) /\ w \in Seq(WByte) /\ r \in Tables /\ \A i \in 1..Len(w) : w[i][1] # "switch"
      BY <1>0, <2>2, SinkRowIn, RowIn
    <3> HIDE DEF y, w, r, sent
    <3> QED
      BY <3>1, <3>2, <3>3
  <2>5. owed(k + 1) = owed(k) \o (IF r = t THEN w ELSE <<>>) /\ owed(k) \in Seq(WByte)
    <3>1. owed(k) \in Seq(WByte) /\ owed(k + 1) = owed(k) \o O[k + 1]
      BY <1>2, <2>1, <2>2, FlattenTake
    <3>2. O[k + 1] = IF r = t THEN w ELSE <<>>
      BY <1>2, <2>2
    <3> HIDE DEF owed, w, r
    <3> QED
      BY <3>1, <3>2
  <2>6. TableBefore((k + 1) + 1) = r
    BY <2>1 DEF TableBefore
  <2>7. y = IF r # TableBefore(k + 1) THEN <<<<"switch", r, 0>>>> ELSE <<>>
    BY DEF SwitchFor, SwitchTo
  <2> HIDE DEF x, y, w, r, P
  <2>8. Obeyed(x) \in ReadState /\ Obeyed(x).at = TableBefore(k + 1) /\ Obeyed(x).out[t] = owed(k)
    BY <2>3, <2>4, ObeyedIs DEF x
  <2>9. /\ x \o y \in Seq(WByte) /\ (x \o y) \o w = x \o (y \o w)
        /\ Obeyed(x \o y).at = r /\ Obeyed(x \o y).out[t] = owed(k)
    <3>1. x \o y \in Seq(WByte)
      BY <2>4, ConcatProperties
    <3>2. (x \o y) \o w = x \o (y \o w)
      <4>1. Joinable(x, y, w)
        BY <2>4, Joined
      <4> QED
        BY <4>1 DEF Joinable
    <3>3. CASE r = TableBefore(k + 1)
      <4>1. x \o y = x
        BY <2>4, <2>7, <3>3, ConcatEmptySeq
      <4> QED
        BY <2>8, <3>1, <3>2, <3>3, <4>1
    <3>4. CASE r # TableBefore(k + 1)
      <4> DEFINE b == <<"switch", r, 0>>
      <4>1. b \in WByte
        BY <2>1, <2>4, PiecesIn
      <4>2. y = <<b>>
        BY <2>7, <3>4
      <4>3. Obey(Obeyed(x), b) = [Obeyed(x) EXCEPT !.at = r]
        BY DEF Obey
      <4> HIDE DEF b
      <4>4. x \o y = Append(x, b)
        BY <2>4, <4>1, <4>2, AppendIsConcat
      <4>5. Obeyed(x \o y) = [Obeyed(x) EXCEPT !.at = r]
        BY <2>4, <4>1, <4>3, <4>4, ObeyedIs
      <4>6. Obeyed(x \o y).at = r /\ Obeyed(x \o y).out = Obeyed(x).out
        BY <2>8, <4>5 DEF ReadState
      <4> QED
        BY <2>8, <3>1, <3>2, <4>6
    <3> QED
      BY <3>3, <3>4
  <2>10. /\ Obeyed((x \o y) \o w).at = r
         /\ Obeyed((x \o y) \o w).out[t] = IF t = r THEN owed(k) \o w ELSE owed(k)
    <3> DEFINE u == x \o y
    <3>1. u \in Seq(WByte) /\ Obeyed(u).at = r /\ Obeyed(u).out[t] = owed(k)
      BY <2>9
    <3> HIDE DEF u
    <3>2. /\ Obeyed(u \o w).at = Obeyed(u).at
          /\ Obeyed(u \o w).out[t] = IF t = Obeyed(u).at THEN Obeyed(u).out[t] \o w ELSE Obeyed(u).out[t]
      BY <2>4, <3>1, ObeyedPlain
    <3> QED
      BY <3>1, <3>2 DEF u
  <2>11. owed(k + 1) = IF t = r THEN owed(k) \o w ELSE owed(k)
    <3>1. owed(k) \o <<>> = owed(k)
      BY <2>5, ConcatEmptySeq
    <3> HIDE DEF owed
    <3> QED
      BY <2>5, <3>1
  <2> HIDE DEF sent, owed
  <2> QED
    BY <2>4, <2>6, <2>9, <2>10, <2>11
<1>6. P = Nat
  <2>1. P \in SUBSET Nat
    OBVIOUS
  <2> HIDE DEF P
  <2> QED
    BY <1>4, <1>5, <2>1, Inductive
<1>7. Obeyed(sent(n)).out[t] = owed(n)
  <2>1. n \in P
    <3> HIDE DEF P
    <3> QED
      BY <1>1, <1>6
  <2>2. n <= n
    BY <1>1
  <2> HIDE DEF sent, owed
  <2> QED
    BY <2>1, <2>2
<1>8. SubSeq(D, 1, n) = D /\ SubSeq(O, 1, n) = O
  BY <1>2, SubSeqFull
<1> QED
  BY <1>3, <1>7, <1>8

-----------------------------------------------------------------------------
\* What sink s has been given, whether or not its descriptor has taken it.
Given(s) == landed[s] \o held[s]
Pending(s) == IF jobAt = "write" /\ s = sinkAt THEN FlattenSeq(todo) ELSE <<>>

\* While nothing has failed, what is due to a sink is what it has been given
\* and what is still to be.
Settled(s) ==
  \E rest \in Seq(WByte) : /\ Given(s) \o rest = Due(s)
                           /\ exitCode = 0 => rest = Pending(s)

WriterTypes ==
  /\ mode \in Modes /\ jobRows \in Seq(RowRec) /\ current \in Tables
  /\ held \in [Tables -> Seq(WByte)] /\ landed \in [Tables -> Seq(WByte)]
  /\ todo \in Seq(Seq(WByte)) /\ sinkAt \in Nat /\ finished \in BOOLEAN
  /\ jobAt \in {"body", "write", "flush", "finish", "drop", "close", "exit"} /\ exitCode \in {0, 1}

WriterInv ==
  /\ WriterTypes
  /\ mode = "switches" => current = TableBefore(Len(jobRows) + 1)
  /\ jobAt = "write" => sinkAt \in Sinks /\ ~finished
  /\ jobAt \in {"body", "write", "flush", "finish"} => exitCode = 0
  /\ \A s \in Sinks : Settled(s)
  /\ finished /\ exitCode = 0 => \A s \in Sinks : held[s] = <<>>
  /\ jobAt = "finish" => \A s \in Sinks : s < sinkAt => held[s] = <<>>

\* The sinks are tables.
LEMMA SinksAre ==
  WriterTypes => Sinks \subseteq Tables /\ Tables \subseteq Nat /\ 0 \in Sinks
BY WriterAssumption DEF WriterTypes, Sinks, Tables, Modes

\* The invariant holds of a writer that has not begun.
LEMMA WriterStarts == WriterInit => WriterInv
<1> SUFFICES ASSUME WriterInit PROVE WriterInv
  OBVIOUS
<1>1. 0 \in Tables
  BY WriterAssumption DEF Tables
<1>2. [s \in Tables |-> <<>>] \in [Tables -> Seq(WByte)]
  BY EmptySeq
<1>3. WriterTypes
  BY <1>1, <1>2, EmptySeq DEF WriterInit, WriterTypes, Modes
<1>4. ASSUME NEW s \in Sinks PROVE Settled(s)
  <2>1. Due(s) = <<>>
    <3>1. jobRows = <<>>
      BY DEF WriterInit
    <3>2. [n \in DOMAIN jobRows |-> SinkRow(s, n)] = <<>>
      BY <3>1
    <3> QED
      BY <3>2, FlattenEmpty DEF Due
  <2>2. Given(s) = <<>>
    <3>1. s \in Tables
      BY <1>3, SinksAre
    <3>2. landed[s] = <<>> /\ held[s] = <<>>
      BY <3>1 DEF WriterInit
    <3> QED
      BY <3>2, EmptySeq, ConcatEmptySeq DEF Given
  <2>3. Pending(s) = <<>>
    BY DEF Pending, WriterInit
  <2>4. <<>> \o <<>> = <<>> /\ <<>> \in Seq(WByte)
    BY EmptySeq, ConcatEmptySeq
  <2> QED
    BY <2>1, <2>2, <2>3, <2>4 DEF Settled
<1>5. TableBefore(Len(jobRows) + 1) = 0
  BY DEF TableBefore, WriterInit
<1> QED
  BY <1>3, <1>4, <1>5 DEF WriterInit, WriterInv

\* What row n, r, is to add to sink s.
Pieces(n, r) ==
  IF mode = "skiff" THEN Delimiter(n) \o RowBytes(n, r.size) ELSE RowBytes(n, r.size) \o Delimiter(n)
RowAdds(s, n, r) ==
  IF mode = "switches"
  THEN (IF r.table # TableBefore(n) THEN SwitchTo(r.table) ELSE <<>>) \o Pieces(n, r)
  ELSE IF r.table = s THEN Pieces(n, r) ELSE <<>>

\* What a row adds is bytes.
LEMMA RowAddsIn ==
  ASSUME NEW n \in Nat, NEW r \in RowRec, NEW s
  PROVE  Pieces(n, r) \in Seq(WByte) /\ RowAdds(s, n, r) \in Seq(WByte)
<1> DEFINE a == RowBytes(n, r.size)
           b == Delimiter(n)
<1>1. r.size \in Nat /\ r.table \in Tables
  BY WriterAssumption DEF RowRec
<1>2. a \in Seq(WByte) /\ b \in Seq(WByte) /\ SwitchTo(r.table) \in Seq(WByte)
  BY <1>1, PiecesIn
<1>3. a \o b \in Seq(WByte) /\ b \o a \in Seq(WByte)
  <2> HIDE DEF a, b
  <2> QED
    BY <1>2, ConcatProperties
<1>4. Pieces(n, r) \in Seq(WByte)
  BY <1>3 DEF Pieces
<1>5. (IF r.table # TableBefore(n) THEN SwitchTo(r.table) ELSE <<>>) \in Seq(WByte)
  BY <1>2, EmptySeq
<1>6. (IF r.table # TableBefore(n) THEN SwitchTo(r.table) ELSE <<>>) \o Pieces(n, r) \in Seq(WByte)
  BY <1>4, <1>5, ConcatProperties
<1> QED
  BY <1>4, <1>6, EmptySeq DEF RowAdds

\* A row taken.
LEMMA DueGrows ==
  ASSUME mode \in Modes, jobRows \in Seq(RowRec), NEW r \in RowRec, NEW s,
         mode' = mode, jobRows' = Append(jobRows, r), NEW n \in Nat, n = Len(jobRows) + 1
  PROVE  /\ Len(jobRows') = n /\ jobRows' \in Seq(RowRec) /\ jobRows'[n] = r
         /\ Due(s) \in Seq(WByte) /\ Due(s)' = Due(s) \o RowAdds(s, n, r)
<1> DEFINE k == Len(jobRows)
           D == [i \in 1..k |-> SinkRow(s, i)]
           e == RowAdds(s, n, r)
           E == [i \in 1..n |-> IF i = n THEN e ELSE SinkRow(s, i)]
<1>1. /\ k \in Nat /\ jobRows' \in Seq(RowRec) /\ Len(jobRows') = n /\ jobRows'[n] = r
      /\ \A i \in 1..k : jobRows'[i] = jobRows[i]
      /\ DOMAIN jobRows = 1..k /\ DOMAIN jobRows' = 1..n
  BY AppendProperties
<1>2. ASSUME NEW i \in 1..n PROVE TableBefore(i)' = TableBefore(i)
  <2>1. CASE i = 1
    BY <2>1 DEF TableBefore
  <2>2. CASE i # 1
    <3>1. i - 1 \in 1..k
      BY <1>1, <2>2
    <3>2. jobRows'[i - 1] = jobRows[i - 1]
      BY <1>1, <3>1
    <3> QED
      BY <2>2, <3>2 DEF TableBefore
  <2> QED
    BY <2>1, <2>2
<1>3. ASSUME NEW i \in 1..k PROVE SinkRow(s, i)' = SinkRow(s, i) /\ SinkRow(s, i) \in Seq(WByte)
  <2>1. jobRows'[i] = jobRows[i] /\ i \in 1..n
    BY <1>1
  <2>2. SinkRow(s, i)' = SinkRow(s, i)
    BY <1>2, <2>1 DEF SinkRow, SwitchFor, RowWhole
  <2> QED
    BY <2>2, SinkRowIn
<1>4. e \in Seq(WByte) /\ n \in 1..n
  BY <1>1, RowAddsIn
<1>5. SinkRow(s, n)' = e
  BY <1>1, <1>2, <1>4 DEF SinkRow, SwitchFor, RowWhole, RowAdds, Pieces
<1>6. [i \in DOMAIN jobRows' |-> SinkRow(s, i)'] = E
  <2>1. ASSUME NEW i \in 1..n PROVE SinkRow(s, i)' = IF i = n THEN e ELSE SinkRow(s, i)
    <3>1. CASE i = n
      BY <1>5, <3>1
    <3>2. CASE i # n
      <4>1. i \in 1..k
        BY <1>1, <3>2
      <4> QED
        BY <1>3, <3>2, <4>1
    <3> QED
      BY <3>1, <3>2
  <2> HIDE DEF e
  <2> QED
    BY <1>1, <2>1
<1>7. Due(s) = FlattenSeq(D) /\ Due(s)' = FlattenSeq(E)
  BY <1>1, <1>6 DEF Due
<1>8. /\ D \in [1..k -> Seq(WByte)] /\ E \in [1..n -> Seq(WByte)] /\ E[n] = e
      /\ \A i \in 1..k : E[i] = D[i]
  <2> HIDE DEF e
  <2>1. ASSUME NEW i \in 1..n PROVE (IF i = n THEN e ELSE SinkRow(s, i)) \in Seq(WByte)
    <3>1. CASE i = n
      BY <1>4, <3>1
    <3>2. CASE i # n
      <4>1. i \in 1..k
        BY <1>1, <3>2
      <4> QED
        BY <1>3, <3>2, <4>1
    <3> QED
      BY <3>1, <3>2
  <2>2. E \in [1..n -> Seq(WByte)] /\ E[n] = e
    BY <1>4, <2>1
  <2>3. D \in [1..k -> Seq(WByte)]
    BY <1>3
  <2>4. \A i \in 1..k : E[i] = D[i]
    <3>1. \A i \in 1..k : i \in 1..n /\ i # n
      BY <1>1
    <3> QED
      BY <3>1
  <2> QED
    BY <2>2, <2>3, <2>4
<1> HIDE DEF D, E, e
<1>9. D \in Seq(Seq(WByte)) /\ Len(D) = k /\ E \in Seq(Seq(WByte)) /\ Len(E) = n
  <2> HIDE DEF k
  <2> QED
    BY <1>1, <1>8, FunIsSeq
<1>10. E = Append(D, e)
  <2> DEFINE A == Append(D, e)
  <2>1. A \in Seq(Seq(WByte)) /\ Len(A) = k + 1 /\ A[k + 1] = e /\ \A i \in 1..k : A[i] = D[i]
    BY <1>4, <1>9, AppendProperties
  <2> HIDE DEF A
  <2>2. ASSUME NEW i \in 1..Len(E) PROVE E[i] = A[i]
    <3>1. CASE i = n
      BY <1>8, <2>1, <3>1
    <3>2. CASE i # n
      <4>0. n = k + 1
        OBVIOUS
      <4>1. i \in 1..k
        <5> HIDE DEF k
        <5> QED
          BY <1>1, <1>9, <3>2, <4>0
      <4> QED
        BY <1>8, <2>1, <4>1
    <3> QED
      BY <3>1, <3>2
  <2>3. Len(E) = Len(A)
    BY <1>9, <2>1
  <2>4. E = A
    BY <1>9, <2>1, <2>2, <2>3, SeqEqual
  <2> QED
    BY <2>4 DEF A
<1>11. FlattenSeq(Append(D, e)) = FlattenSeq(D) \o e /\ FlattenSeq(D) \in Seq(WByte)
  BY <1>4, <1>9, FlattenAppend, FlattenIn
<1> QED
  BY <1>1, <1>7, <1>10, <1>11 DEF e

\* ... and regrouped.
LEMMA Regroup ==
  ASSUME NEW a \in Seq(WByte), NEW b \in Seq(WByte), NEW c \in Seq(WByte), NEW d \in Seq(WByte), NEW e \in Seq(WByte)
  PROVE  b \o c = d \o e => (a \o b) \o c = (a \o d) \o e
<1>1. Joinable(a, b, c) /\ Joinable(a, d, e)
  BY Joined
<1> QED
  BY <1>1 DEF Joinable

\* A sink and its descriptor.
LEMMA TakesIs ==
  ASSUME WriterTypes, sinkAt \in Tables, NEW bytes \in Seq(WByte), NEW keep \in Seq(WByte), NEW more \in Seq(WByte),
         Takes(bytes, keep), bytes \o keep = held[sinkAt] \o more
  PROVE  /\ held' \in [Tables -> Seq(WByte)] /\ landed' \in [Tables -> Seq(WByte)]
         /\ held'[sinkAt] = keep /\ \A s \in Tables \ {sinkAt} : held'[s] = held[s]
         /\ Given(sinkAt) \in Seq(WByte)
         /\ \A s \in Tables : Given(s)' = IF s = sinkAt THEN Given(s) \o more ELSE Given(s)
<1> DEFINE l == landed[sinkAt]
           h == held[sinkAt]
<1>1. l \in Seq(WByte) /\ h \in Seq(WByte) /\ l \o bytes \in Seq(WByte)
  <2>1. l \in Seq(WByte) /\ h \in Seq(WByte)
    BY DEF WriterTypes
  <2> QED
    BY <2>1, ConcatProperties
<1>2. /\ landed' = [landed EXCEPT ![sinkAt] = l \o bytes] /\ held' = [held EXCEPT ![sinkAt] = keep]
  BY DEF Takes
<1>3. held \in [Tables -> Seq(WByte)] /\ landed \in [Tables -> Seq(WByte)]
  BY DEF WriterTypes
<1>4. l \o h \in Seq(WByte) /\ bytes \o keep = h \o more
  <2>1. bytes \o keep = h \o more
    OBVIOUS
  <2> QED
    BY <1>1, <2>1, ConcatProperties
<1>5. Given(sinkAt) = l \o h
  BY DEF Given
<1>6. landed'[sinkAt] = l \o bytes /\ held'[sinkAt] = keep
  BY <1>2, <1>3
<1>7. \A s \in Tables \ {sinkAt} : landed'[s] = landed[s] /\ held'[s] = held[s]
  BY <1>2, <1>3
<1>8. held' \in [Tables -> Seq(WByte)] /\ landed' \in [Tables -> Seq(WByte)]
  <2> HIDE DEF l
  <2> QED
    BY <1>1, <1>2, <1>3
<1> HIDE DEF l, h
<1>9. (l \o bytes) \o keep = (l \o h) \o more
  <2>1. l \in Seq(WByte) /\ h \in Seq(WByte) /\ bytes \o keep = h \o more
    BY <1>1, <1>4
  <2> DEFINE R(a, b, c, d, e) == (a \o b) \o c = (a \o d) \o e
             Q(b, c, d, e) == b \o c = d \o e
  <2>3. \A a \in Seq(WByte), b \in Seq(WByte), c \in Seq(WByte), d \in Seq(WByte), e \in Seq(WByte) :
           Q(b, c, d, e) => R(a, b, c, d, e)
    BY Regroup
  <2>4. Q(bytes, keep, h, more)
    BY <2>1
  <2> HIDE DEF R, Q
  <2>5. R(l, bytes, keep, h, more)
    BY <2>1, <2>3, <2>4
  <2> QED
    BY <2>5 DEF R
<1>10. ASSUME NEW s \in Tables PROVE Given(s)' = IF s = sinkAt THEN Given(s) \o more ELSE Given(s)
  <2>1. Given(s)' = landed'[s] \o held'[s]
    BY DEF Given
  <2>2. CASE s = sinkAt
    BY <1>5, <1>6, <1>9, <2>1, <2>2
  <2>3. CASE s # sinkAt
    BY <1>7, <2>1, <2>3 DEF Given
  <2> QED
    BY <2>2, <2>3
<1> QED
  BY <1>4, <1>5, <1>6, <1>7, <1>8, <1>10

\* A sink that gives everything away, or only a part of it.
LEMMA FlushIs ==
  ASSUME WriterTypes, sinkAt \in Tables, Takes(held[sinkAt], <<>>) \/ FailsHolding(held[sinkAt])
  PROVE  /\ held' \in [Tables -> Seq(WByte)] /\ landed' \in [Tables -> Seq(WByte)]
         /\ \A s \in Tables : Given(s)' = Given(s)
         /\ \A s \in Tables \ {sinkAt} : held'[s] = held[s]
         /\ Takes(held[sinkAt], <<>>) => held'[sinkAt] = <<>>
         /\ held[sinkAt] = <<>> => Takes(held[sinkAt], <<>>)
<1> DEFINE h == held[sinkAt]
<1>1. h \in Seq(WByte) /\ Len(h) \in Nat /\ <<>> \in Seq(WByte) /\ h \o <<>> = h
  <2>1. h \in Seq(WByte)
    BY DEF WriterTypes
  <2> QED
    BY <2>1, EmptySeq, ConcatEmptySeq
<1>2. \A s \in Tables : Given(s) \in Seq(WByte) /\ Given(s) \o <<>> = Given(s)
  <2>1. ASSUME NEW s \in Tables PROVE Given(s) \in Seq(WByte)
    <3>1. landed[s] \in Seq(WByte) /\ held[s] \in Seq(WByte)
      BY DEF WriterTypes
    <3> QED
      BY <3>1, ConcatProperties DEF Given
  <2> QED
    BY <2>1, ConcatEmptySeq
<1>3. CASE Takes(h, <<>>)
  <2>1. /\ held' \in [Tables -> Seq(WByte)] /\ landed' \in [Tables -> Seq(WByte)]
        /\ held'[sinkAt] = <<>> /\ \A s \in Tables \ {sinkAt} : held'[s] = held[s]
        /\ \A s \in Tables : Given(s)' = IF s = sinkAt THEN Given(s) \o <<>> ELSE Given(s)
    BY <1>1, <1>3, TakesIs
  <2> QED
    BY <1>2, <1>3, <2>1
<1>4. CASE FailsHolding(h)
  <2>1. PICK k \in 0..Len(h) - 1 : Takes(SubSeq(h, 1, k), SubSeq(h, k + 1, Len(h)))
    BY <1>4 DEF FailsHolding
  <2> DEFINE x == SubSeq(h, 1, k)
             y == SubSeq(h, k + 1, Len(h))
  <2>2. x \in Seq(WByte) /\ y \in Seq(WByte) /\ x \o y = h
    <3>1. 0 \in 0..Len(h) /\ k \in 0..Len(h) /\ 0 + 1 = 1
      BY <1>1, <2>1
    <3>2. SubSeq(h, 1, k) \in Seq(WByte) /\ y \in Seq(WByte) /\ SubSeq(h, 1, Len(h)) = x \o y
      <4> HIDE DEF h
      <4> QED
        BY <1>1, <3>1, CutHere
    <3>3. SubSeq(h, 1, Len(h)) = h
      <4> HIDE DEF h
      <4> QED
        BY <1>1, SubSeqFull
    <3> QED
      BY <3>2, <3>3
  <2>3. Takes(x, y)
    BY <2>1
  <2> HIDE DEF x, y
  <2>4. /\ held' \in [Tables -> Seq(WByte)] /\ landed' \in [Tables -> Seq(WByte)]
        /\ \A s \in Tables \ {sinkAt} : held'[s] = held[s]
        /\ held'[sinkAt] = y
        /\ \A s \in Tables : Given(s)' = IF s = sinkAt THEN Given(s) \o <<>> ELSE Given(s)
    BY <1>1, <2>2, <2>3, TakesIs
  <2>5. h # <<>>
    BY <1>1, <2>1
  <2>6. Takes(held[sinkAt], <<>>) => held'[sinkAt] = <<>>
    BY DEF Takes, WriterTypes
  <2> QED
    BY <1>2, <2>4, <2>5, <2>6
<1> QED
  BY <1>3, <1>4

\* The calls of write_all make up the row.
LEMMA ChunksAre ==
  ASSUME mode \in Modes, NEW n \in Nat, mode = "switches" => current = TableBefore(n),
         NEW t \in Tables, NEW size \in RowSizes
  PROVE  LET r == [table |-> t, size |-> size]
         IN  /\ r \in RowRec /\ RowChunks(n, t, size) \in Seq(Seq(WByte))
             /\ FlattenSeq(RowChunks(n, t, size)) = RowAdds(IF mode = "switches" THEN 0 ELSE t, n, r)
<1> DEFINE r == [table |-> t, size |-> size]
           a == RowBytes(n, size)
           b == Delimiter(n)
           w == SwitchTo(t)
<1>1. r \in RowRec /\ r.table = t /\ r.size = size /\ size \in Nat
  BY WriterAssumption DEF RowRec
<1>2. a \in Seq(WByte) /\ Len(a) = size /\ b \in Seq(WByte) /\ w \in Seq(WByte)
  BY <1>1, PiecesIn
<1>3. Pieces(n, r) = IF mode = "skiff" THEN b \o a ELSE a \o b
  BY <1>1 DEF Pieces
<1>4. CASE mode = "skiff"
  <2> DEFINE ones == [k \in 1..Len(a) |-> <<a[k]>>]
  <2>1. RowChunks(n, t, size) = <<b>> \o ones
    BY <1>2, <1>4 DEF RowChunks
  <2>2. RowAdds(IF mode = "switches" THEN 0 ELSE t, n, r) = b \o a
    BY <1>1, <1>3, <1>4 DEF RowAdds
  <2> HIDE DEF a, b
  <2>3. ones \in Seq(Seq(WByte)) /\ FlattenSeq(ones) = a
    BY <1>2, FlattenSingles
  <2> HIDE DEF ones
  <2>4. FlattenSeq(<<b>> \o ones) = b \o FlattenSeq(ones)
    BY <1>2, <2>3, FlattenHead
  <2>5. <<b>> \in Seq(Seq(WByte)) /\ <<b>> \o ones \in Seq(Seq(WByte))
    BY <1>2, <2>3, ConcatProperties
  <2> QED
    BY <1>1, <2>1, <2>2, <2>3, <2>4, <2>5
<1>5. CASE mode # "skiff"
  <2> DEFINE two == <<a, b>>
  <2>1. two \in Seq(Seq(WByte)) /\ FlattenSeq(two) = a \o b
    <3> HIDE DEF a, b
    <3>1. <<b>> \in Seq(Seq(WByte)) /\ <<>> \in Seq(Seq(WByte)) /\ <<b>> \o <<>> = <<b>> /\ b \o <<>> = b
      BY <1>2, EmptySeq, ConcatEmptySeq
    <3>2. FlattenSeq(<<b>> \o <<>>) = b \o FlattenSeq(<<>>)
      BY <1>2, <3>1, FlattenHead
    <3>3. FlattenSeq(<<b>>) = b
      BY <3>1, <3>2, FlattenEmpty
    <3>4. FlattenSeq(<<a>> \o <<b>>) = a \o FlattenSeq(<<b>>)
      BY <1>2, <3>1, FlattenHead
    <3>5. <<a>> \o <<b>> = two /\ two \in Seq(Seq(WByte))
      <4>1. <<a>> \in Seq(Seq(WByte)) /\ two = Append(<<a>>, b)
        BY <1>2
      <4> HIDE DEF two
      <4>2. Append(<<a>>, b) = <<a>> \o <<b>> /\ Append(<<a>>, b) \in Seq(Seq(WByte))
        BY <1>2, <4>1, AppendIsConcat, AppendProperties
      <4> QED
        BY <4>1, <4>2
    <3> QED
      BY <3>3, <3>4, <3>5
  <2>2. CASE mode = "switches" /\ t # current
    <3>1. RowChunks(n, t, size) = <<w>> \o two
      BY <1>5, <2>2 DEF RowChunks
    <3>2. RowAdds(IF mode = "switches" THEN 0 ELSE t, n, r) = w \o (a \o b)
      BY <1>1, <1>3, <1>5, <2>2 DEF RowAdds
    <3> HIDE DEF a, b, w, two
    <3>3. FlattenSeq(<<w>> \o two) = w \o FlattenSeq(two)
      BY <1>2, <2>1, FlattenHead
    <3>4. <<w>> \in Seq(Seq(WByte)) /\ <<w>> \o two \in Seq(Seq(WByte))
      BY <1>2, <2>1, ConcatProperties
    <3> QED
      BY <1>1, <2>1, <3>1, <3>2, <3>3, <3>4
  <2>3. CASE ~(mode = "switches" /\ t # current)
    <3>1. RowChunks(n, t, size) = <<>> \o two
      BY <1>5, <2>3 DEF RowChunks
    <3>2. RowAdds(IF mode = "switches" THEN 0 ELSE t, n, r) = IF mode = "switches" THEN <<>> \o (a \o b) ELSE a \o b
      BY <1>1, <1>3, <1>5, <2>3 DEF RowAdds
    <3> HIDE DEF a, b, two
    <3>3. <<>> \o two = two /\ a \o b \in Seq(WByte)
      BY <1>2, <2>1, ConcatProperties, ConcatEmptySeq
    <3>4. <<>> \o (a \o b) = a \o b
      BY <3>3, ConcatEmptySeq
    <3> QED
      BY <1>1, <2>1, <3>1, <3>2, <3>3, <3>4
  <2> QED
    BY <2>2, <2>3
<1> QED
  BY <1>4, <1>5

\* A step that gives a sink nothing, or fails, leaves it settled.
LEMMA SettledStays ==
  ASSUME WriterInv, mode' = mode, jobRows' = jobRows, \A s \in Sinks : Given(s)' = Given(s),
         exitCode' = 0 => exitCode = 0 /\ \A s \in Sinks : Pending(s)' = Pending(s)
  PROVE  Sinks' = Sinks /\ \A s \in Sinks' : Settled(s)'
<1>1. Sinks' = Sinks
  BY DEF Sinks
<1>2. ASSUME NEW s \in Sinks PROVE Settled(s)'
  <2>1. PICK rest \in Seq(WByte) : Given(s) \o rest = Due(s) /\ (exitCode = 0 => rest = Pending(s))
    BY DEF WriterInv, Settled
  <2>2. Due(s)' = Due(s)
    BY DEF Due, SinkRow, SwitchFor, TableBefore, RowWhole
  <2>3. Given(s)' \o rest = Due(s)' /\ (exitCode' = 0 => rest = Pending(s)')
    BY <2>1, <2>2
  <2> QED
    BY <2>3 DEF Settled
<1> QED
  BY <1>1, <1>2

\* WriteRow preserves the invariant: what is due grows by what is to be written.
LEMMA RowTaken == WriterInv /\ (\E t \in Tables, size \in RowSizes : WriteRow(t, size)) => WriterInv'
<1> SUFFICES ASSUME WriterInv, NEW t \in Tables, NEW size \in RowSizes, WriteRow(t, size) PROVE WriterInv'
  OBVIOUS
<1>1. /\ jobAt = "body" /\ ~finished /\ exitCode = 0 /\ jobAt' = "write"
      /\ jobRows' = Append(jobRows, [table |-> t, size |-> size])
      /\ todo' = RowChunks(Len(jobRows) + 1, t, size)
      /\ current' = IF mode = "switches" THEN t ELSE current
      /\ sinkAt' = IF mode = "switches" THEN 0 ELSE t
      /\ mode' = mode /\ held' = held /\ landed' = landed /\ finished' = finished /\ exitCode' = exitCode
  BY DEF WriteRow, Admits, WriterInv, sinkVars
<1>2. WriterTypes /\ mode \in Modes /\ jobRows \in Seq(RowRec) /\ (mode = "switches" => current = TableBefore(Len(jobRows) + 1))
  BY DEF WriterInv, WriterTypes
<1> DEFINE r == [table |-> t, size |-> size]
<1>3. PICK n \in Nat : n = Len(jobRows) + 1
  BY <1>2
<1>4. /\ r \in RowRec /\ todo' \in Seq(Seq(WByte)) /\ FlattenSeq(todo') = RowAdds(sinkAt', n, r)
  BY <1>1, <1>2, <1>3, ChunksAre
<1>5. /\ Len(jobRows') = n /\ jobRows' \in Seq(RowRec) /\ jobRows'[n] = r
      /\ \A s : Due(s) \in Seq(WByte) /\ Due(s)' = Due(s) \o RowAdds(s, n, r)
  BY <1>1, <1>2, <1>3, <1>4, DueGrows
<1>6. sinkAt' \in Sinks' /\ sinkAt' \in Nat /\ Sinks' = Sinks /\ Sinks \subseteq Tables /\ Tables \subseteq Nat
  BY <1>1, <1>2, SinksAre DEF Sinks
<1>7. current' = (IF mode' = "switches" THEN TableBefore(Len(jobRows) + 1)' ELSE current') \/ mode' # "switches" \/ current' = t
  BY <1>1
<1>8. mode' = "switches" => current' = TableBefore(Len(jobRows) + 1)'
  <2>1. TableBefore(Len(jobRows) + 1)' = t
    <3>1. Len(jobRows') + 1 # 1 /\ (Len(jobRows') + 1) - 1 = n
      BY <1>3, <1>5
    <3>2. jobRows'[n].table = t
      BY <1>5
    <3> QED
      BY <3>1, <3>2 DEF TableBefore
  <2> QED
    BY <1>1, <2>1
<1>9. ASSUME NEW s \in Sinks PROVE Settled(s)'
  <2>1. Given(s) \o <<>> = Due(s)
    <3>1. PICK rest \in Seq(WByte) : Given(s) \o rest = Due(s) /\ (exitCode = 0 => rest = Pending(s))
      BY DEF WriterInv, Settled
    <3>2. Pending(s) = <<>>
      BY <1>1 DEF Pending
    <3> QED
      BY <1>1, <3>1, <3>2
  <2>2. Given(s) \in Seq(WByte)
    <3>1. landed[s] \in Seq(WByte) /\ held[s] \in Seq(WByte)
      BY <1>2, <1>6 DEF WriterTypes
    <3> QED
      BY <3>1, ConcatProperties DEF Given
  <2>3. Given(s) = Due(s) /\ Given(s)' = Given(s)
    <3>1. Given(s) \o <<>> = Given(s)
      BY <2>2, ConcatEmptySeq
    <3> QED
      BY <1>1, <2>1, <3>1 DEF Given
  <2> DEFINE add == RowAdds(s, n, r)
  <2>4. add \in Seq(WByte)
    BY <1>3, <1>4, RowAddsIn
  <2>5. add = Pending(s)'
    <3>1. CASE s = sinkAt'
      BY <1>1, <1>4, <3>1 DEF Pending
    <3>2. CASE s # sinkAt'
      <4>1. mode # "switches" /\ s # t
        BY <1>1, <3>2 DEF Sinks
      <4>2. add = <<>>
        BY <4>1 DEF RowAdds
      <4> QED
        BY <3>2, <4>2 DEF Pending
    <3> QED
      BY <3>1, <3>2
  <2>6. Given(s)' \o add = Due(s)'
    BY <1>5, <2>3
  <2> HIDE DEF add
  <2> QED
    BY <2>4, <2>5, <2>6 DEF Settled
<1>10. WriterTypes'
  BY <1>1, <1>2, <1>4, <1>5, <1>6 DEF WriterTypes
<1> QED
  BY <1>1, <1>6, <1>8, <1>9, <1>10 DEF WriterInv

\* WriteAll preserves the invariant, however much of the chunk the sink takes.
LEMMA ChunkWritten == WriterInv /\ WriteAll => WriterInv'
<1> SUFFICES ASSUME WriterInv, WriteAll PROVE WriterInv'
  OBVIOUS
<1> DEFINE chunk == Head(todo)
           old == held[sinkAt]
           fits  == Len(chunk) <= SinkCapacity - Len(old)
           large == Len(chunk) >= SinkCapacity
<1>1. /\ jobAt = "write" /\ todo # <<>> /\ mode' = mode /\ current' = current /\ finished' = finished /\ jobRows' = jobRows
      /\ ~finished /\ exitCode = 0 /\ sinkAt \in Sinks
  BY DEF WriteAll, WriterInv
<1>2. WriterTypes /\ sinkAt \in Tables /\ Sinks \subseteq Tables /\ Sinks' = Sinks
  BY <1>1, SinksAre DEF WriterInv, Sinks
<1>3. /\ chunk \in Seq(WByte) /\ Tail(todo) \in Seq(Seq(WByte)) /\ old \in Seq(WByte) /\ Len(chunk) \in Nat
      /\ FlattenSeq(todo) = chunk \o FlattenSeq(Tail(todo)) /\ FlattenSeq(Tail(todo)) \in Seq(WByte)
      /\ old \o chunk \in Seq(WByte)
  <2>1. todo \in Seq(Seq(WByte)) /\ old \in Seq(WByte)
    BY <1>2 DEF WriterTypes
  <2>2. chunk \in Seq(WByte) /\ Tail(todo) \in Seq(Seq(WByte)) /\ todo = <<chunk>> \o Tail(todo)
    BY <1>1, <2>1
  <2> HIDE DEF chunk, old
  <2>3. FlattenSeq(<<chunk>> \o Tail(todo)) = chunk \o FlattenSeq(Tail(todo)) /\ FlattenSeq(Tail(todo)) \in Seq(WByte)
    BY <2>2, FlattenHead, FlattenIn
  <2>4. Len(chunk) \in Nat /\ old \o chunk \in Seq(WByte)
    BY <2>1, <2>2, ConcatProperties
  <2> QED
    BY <2>1, <2>2, <2>3, <2>4
<1>4. ASSUME NEW s \in Sinks
      PROVE  Given(s) \in Seq(WByte) /\ Given(s) \o Pending(s) = Due(s) /\ Due(s)' = Due(s)
  <2>1. PICK rest \in Seq(WByte) : Given(s) \o rest = Due(s) /\ (exitCode = 0 => rest = Pending(s))
    BY DEF WriterInv, Settled
  <2>2. Due(s)' = Due(s)
    BY <1>1 DEF Due, SinkRow, SwitchFor, TableBefore, RowWhole
  <2>3. Given(s) \in Seq(WByte)
    <3>1. landed[s] \in Seq(WByte) /\ held[s] \in Seq(WByte)
      BY <1>2 DEF WriterTypes
    <3> QED
      BY <3>1, ConcatProperties DEF Given
  <2> QED
    BY <1>1, <2>1, <2>2, <2>3
\* Whatever more the sink has been given, it and what is left make up what is due.
<1>5. ASSUME NEW bytes \in Seq(WByte), NEW keep \in Seq(WByte), NEW more \in Seq(WByte), NEW rest \in Seq(WByte),
             Takes(bytes, keep), bytes \o keep = old \o more, more \o rest = FlattenSeq(todo),
             exitCode' = 0 => rest = Pending(sinkAt)' /\ sinkAt' = sinkAt
      PROVE  /\ held' \in [Tables -> Seq(WByte)] /\ landed' \in [Tables -> Seq(WByte)]
             /\ \A s \in Sinks' : Settled(s)'
  <2>1. /\ held' \in [Tables -> Seq(WByte)] /\ landed' \in [Tables -> Seq(WByte)]
        /\ \A s \in Tables : Given(s)' = IF s = sinkAt THEN Given(s) \o more ELSE Given(s)
    BY <1>2, <1>5, TakesIs
  <2>2. ASSUME NEW s \in Sinks PROVE Settled(s)'
    <3>1. CASE s = sinkAt
      <4> DEFINE g == Given(s)
      <4>0. Pending(s) = FlattenSeq(todo)
        BY <1>1, <3>1 DEF Pending
      <4>1. g \in Seq(WByte) /\ Due(s)' = g \o FlattenSeq(todo) /\ Given(s)' = g \o more
        <5>1. Given(s) \in Seq(WByte) /\ Given(s) \o Pending(s) = Due(s) /\ Due(s)' = Due(s)
          BY <1>1, <1>4
        <5>2. Given(s)' = Given(s) \o more
          BY <1>2, <2>1, <3>1
        <5> QED
          BY <4>0, <5>1, <5>2
      <4> HIDE DEF g
      <4>2. (g \o more) \o rest = g \o FlattenSeq(todo)
        <5> DEFINE R(a, b, c) == (a \o b) \o c = a \o (b \o c)
        <5>1. \A a \in Seq(WByte), b \in Seq(WByte), c \in Seq(WByte) : R(a, b, c)
          BY BytesAssociate
        <5> HIDE DEF R
        <5>2. R(g, more, rest)
          BY <4>1, <5>1
        <5> QED
          BY <1>5, <5>2 DEF R
      <4>3. Given(s)' \o rest = Due(s)'
        BY <4>1, <4>2
      <4>4. exitCode' = 0 => rest = Pending(s)'
        BY <1>5, <3>1
      <4> QED
        BY <4>3, <4>4 DEF Settled
    <3>2. CASE s # sinkAt
      <4>1. Given(s)' = Given(s) /\ Given(s) \o <<>> = Due(s)'
        BY <1>2, <1>4, <2>1, <3>2 DEF Pending
      <4>2. exitCode' = 0 => Pending(s)' = <<>>
        BY <1>5, <3>2 DEF Pending
      <4>3. Given(s)' \o <<>> = Due(s)'
        BY <4>1
      <4> QED
        BY <4>2, <4>3, EmptySeq DEF Settled
    <3> QED
      BY <3>1, <3>2
  <2> QED
    BY <1>2, <2>1, <2>2
<1>6. 0 \in Nat /\ <<>> \in Seq(WByte) /\ <<>> \in Seq(Seq(WByte)) /\ \A x \in Seq(WByte) : x \o <<>> = x /\ <<>> \o x = x
  BY EmptySeq, ConcatEmptySeq
<1>7. ASSUME JobReturns(1), held' \in [Tables -> Seq(WByte)], landed' \in [Tables -> Seq(WByte)], \A s \in Sinks' : Settled(s)'
      PROVE  WriterInv'
  <2>1. WriterTypes'
    BY <1>1, <1>2, <1>6, <1>7 DEF WriterTypes, JobReturns
  <2>2. mode' = "switches" => current' = TableBefore(Len(jobRows) + 1)'
    BY <1>1 DEF WriterInv, TableBefore
  <2> QED
    BY <1>1, <1>7, <2>1, <2>2 DEF WriterInv, JobReturns
<1>8. CASE /\ CASE fits /\ ~large  -> Takes(<<>>, old \o chunk)
                [] ~fits /\ ~large -> Takes(old, chunk)
                [] OTHER           -> Takes(old \o chunk, <<>>)
           /\ todo' = Tail(todo) /\ UNCHANGED <<jobAt, sinkAt, exitCode>>
  <2> DEFINE rest == FlattenSeq(Tail(todo))
  <2>1. Pending(sinkAt)' = rest /\ rest \in Seq(WByte) /\ chunk \o rest = FlattenSeq(todo)
    BY <1>1, <1>3, <1>8 DEF Pending
  <2>2. /\ \/ Takes(<<>>, old \o chunk) \/ Takes(old, chunk) \/ Takes(old \o chunk, <<>>)
        /\ todo' = Tail(todo) /\ jobAt' = "write" /\ sinkAt' = sinkAt /\ exitCode' = 0
    <3> HIDE DEF fits, large, chunk, old
    <3> QED
      BY <1>1, <1>8
  <2>3. <<>> \o (old \o chunk) = old \o chunk /\ (old \o chunk) \o <<>> = old \o chunk
    <3> HIDE DEF chunk, old
    <3> QED
      BY <1>3, <1>6
  <2> HIDE DEF chunk, old, rest
  <2>4. /\ held' \in [Tables -> Seq(WByte)] /\ landed' \in [Tables -> Seq(WByte)]
        /\ \A s \in Sinks' : Settled(s)'
    <3>1. CASE Takes(<<>>, old \o chunk)
      BY <1>3, <1>5, <1>6, <2>1, <2>2, <2>3, <3>1
    <3>2. CASE Takes(old, chunk)
      BY <1>3, <1>5, <2>1, <2>2, <3>2
    <3>3. CASE Takes(old \o chunk, <<>>)
      BY <1>3, <1>5, <1>6, <2>1, <2>2, <2>3, <3>3
    <3> QED
      BY <2>2, <3>1, <3>2, <3>3
  <2>5. WriterTypes'
    BY <1>1, <1>2, <1>3, <2>2, <2>4 DEF WriterTypes
  <2>6. mode' = "switches" => current' = TableBefore(Len(jobRows) + 1)'
    BY <1>1 DEF WriterInv, TableBefore
  <2> QED
    BY <1>1, <1>2, <2>2, <2>4, <2>5, <2>6 DEF WriterInv
<1>9. CASE FailsHolding(old) /\ JobReturns(1)
  <2>1. /\ held' \in [Tables -> Seq(WByte)] /\ landed' \in [Tables -> Seq(WByte)]
        /\ \A s \in Tables : Given(s)' = Given(s)
    BY <1>2, <1>9, FlushIs
  <2>2. exitCode' # 0
    BY <1>9 DEF JobReturns
  <2>3. \A s \in Sinks' : Settled(s)'
    <3>1. \A s \in Sinks : Given(s)' = Given(s)
      BY <1>2, <2>1
    <3> QED
      BY <1>1, <2>2, <3>1, SettledStays
  <2> QED
    BY <1>7, <1>9, <2>1, <2>3
<1>10. CASE (\E k \in 0..Len(chunk) - 1 : Takes(old \o SubSeq(chunk, 1, k), <<>>)) /\ JobReturns(1)
  <2>1. PICK k \in 0..Len(chunk) - 1 : Takes(old \o SubSeq(chunk, 1, k), <<>>)
    BY <1>10
  <2> DEFINE x == SubSeq(chunk, 1, k)
             y == SubSeq(chunk, k + 1, Len(chunk))
             tail == FlattenSeq(Tail(todo))
  <2>2. x \in Seq(WByte) /\ y \in Seq(WByte) /\ x \o y = chunk
    <3>1. 0 \in 0..Len(chunk) /\ k \in 0..Len(chunk) /\ 0 + 1 = 1
      BY <1>3, <2>1
    <3> HIDE DEF chunk
    <3>2. SubSeq(chunk, 1, k) \in Seq(WByte) /\ y \in Seq(WByte) /\ SubSeq(chunk, 1, Len(chunk)) = x \o y
      BY <1>3, <3>1, CutHere
    <3>3. SubSeq(chunk, 1, Len(chunk)) = chunk
      BY <1>3, SubSeqFull
    <3> QED
      BY <3>2, <3>3
  <2>3. Takes(old \o x, <<>>) /\ tail \in Seq(WByte) /\ old \in Seq(WByte) /\ FlattenSeq(todo) = chunk \o tail
    BY <1>3, <2>1
  <2>4. exitCode' # 0
    BY <1>10 DEF JobReturns
  <2> HIDE DEF x, y, tail, old, chunk
  <2>5. x \o (y \o tail) = chunk \o tail /\ y \o tail \in Seq(WByte)
    <3>1. y \o tail \in Seq(WByte)
      BY <2>2, <2>3, ConcatProperties
    <3> DEFINE R(a, b, c) == (a \o b) \o c = a \o (b \o c)
    <3>2. \A a \in Seq(WByte), b \in Seq(WByte), c \in Seq(WByte) : R(a, b, c)
      BY BytesAssociate
    <3> HIDE DEF R
    <3>3. R(x, y, tail)
      BY <2>2, <2>3, <3>2
    <3> QED
      BY <2>2, <3>1, <3>3 DEF R
  <2>6. old \o x \in Seq(WByte)
    BY <2>2, <2>3, ConcatProperties
  <2>7. /\ held' \in [Tables -> Seq(WByte)] /\ landed' \in [Tables -> Seq(WByte)]
        /\ \A s \in Sinks' : Settled(s)'
    <3>1. (old \o x) \o <<>> = old \o x
      BY <1>6, <2>6
    <3>2. x \o (y \o tail) = FlattenSeq(todo)
      BY <2>3, <2>5
    <3> QED
      BY <1>5, <1>6, <2>2, <2>3, <2>4, <2>5, <2>6, <3>1, <3>2
  <2> QED
    BY <1>7, <1>10, <2>7
<1>11. \/ /\ CASE fits /\ ~large  -> Takes(<<>>, old \o chunk)
                [] ~fits /\ ~large -> Takes(old, chunk)
                [] OTHER           -> Takes(old \o chunk, <<>>)
          /\ todo' = Tail(todo) /\ UNCHANGED <<jobAt, sinkAt, exitCode>>
       \/ FailsHolding(old) /\ JobReturns(1)
       \/ (\E k \in 0..Len(chunk) - 1 : Takes(old \o SubSeq(chunk, 1, k), <<>>)) /\ JobReturns(1)
  BY DEF WriteAll
<1> QED
  BY <1>8, <1>9, <1>10, <1>11

\* Every step preserves the invariant.
LEMMA WriterSteps == WriterInv /\ [WriterNext]_writerVars => WriterInv'
<1> SUFFICES ASSUME WriterInv, [WriterNext]_writerVars PROVE WriterInv'
  OBVIOUS
<1>1. WriterTypes /\ Sinks \subseteq Tables /\ Tables \subseteq Nat /\ 0 \in Nat /\ <<>> \in Seq(Seq(WByte))
  BY SinksAre, EmptySeq DEF WriterInv
\* The writer and its sinks as they were.
<1>2. ASSUME UNCHANGED <<mode, current, held, landed, finished, jobRows>>, exitCode' \in {0, 1}, sinkAt' \in Nat,
             jobAt' \in {"body", "write", "flush", "finish", "drop", "close", "exit"}, todo' \in Seq(Seq(WByte)),
             jobAt' = "write" => UNCHANGED <<jobAt, sinkAt>>,
             jobAt' \in {"body", "write", "flush", "finish"} => exitCode' = 0,
             jobAt' = "finish" => sinkAt' = 0 \/ UNCHANGED <<jobAt, sinkAt>>,
             exitCode' = 0 => exitCode = 0 /\ \A s \in Sinks : Pending(s)' = Pending(s)
      PROVE  WriterInv'
  <2>1. Sinks' = Sinks /\ \A s \in Sinks' : Settled(s)'
    <3>1. \A s \in Sinks : Given(s)' = Given(s)
      BY <1>2 DEF Given
    <3> QED
      BY <1>2, <3>1, SettledStays
  <2>2. WriterTypes'
    BY <1>1, <1>2 DEF WriterTypes
  <2>3. mode' = "switches" => current' = TableBefore(Len(jobRows) + 1)'
    BY <1>2 DEF WriterInv, TableBefore
  <2>4. finished' /\ exitCode' = 0 => \A s \in Sinks : held'[s] = <<>>
    BY <1>2 DEF WriterInv
  <2>5. jobAt' = "finish" => \A s \in Sinks : s < sinkAt' => held'[s] = <<>>
    <3>1. CASE sinkAt' = 0
      <4>1. \A s \in Sinks : ~(s < 0)
        BY <1>1
      <4> QED
        BY <3>1, <4>1
    <3>2. CASE UNCHANGED <<jobAt, sinkAt>>
      BY <1>2, <3>2 DEF WriterInv
    <3> QED
      BY <1>2, <3>1, <3>2
  <2>6. jobAt' = "write" => sinkAt' \in Sinks /\ ~finished'
    BY <1>2 DEF WriterInv
  <2> QED
    BY <1>2, <2>1, <2>2, <2>3, <2>4, <2>5, <2>6 DEF WriterInv
\* A sink gives away what it holds, or a part of it.
<1>3. ASSUME sinkAt \in Sinks, Takes(held[sinkAt], <<>>) \/ FailsHolding(held[sinkAt]), jobAt \in {"flush", "finish", "drop", "close"},
             UNCHANGED <<mode, current, finished, jobRows, todo>>, exitCode' \in {0, 1}, sinkAt' \in Nat,
             jobAt' \in {"flush", "finish", "drop", "close"},
             jobAt' \in {"flush", "finish"} =>
               exitCode' = 0 /\ jobAt' = jobAt /\ sinkAt' = sinkAt + 1 /\ Takes(held[sinkAt], <<>>),
             exitCode' = 0 => exitCode = 0
      PROVE  WriterInv'
  <2>1. /\ sinkAt \in Tables /\ held' \in [Tables -> Seq(WByte)] /\ landed' \in [Tables -> Seq(WByte)]
        /\ \A s \in Tables : Given(s)' = Given(s)
        /\ \A s \in Tables \ {sinkAt} : held'[s] = held[s]
        /\ Takes(held[sinkAt], <<>>) => held'[sinkAt] = <<>>
        /\ held[sinkAt] = <<>> => Takes(held[sinkAt], <<>>)
    BY <1>1, <1>3, FlushIs
  <2>2. Sinks' = Sinks /\ \A s \in Sinks' : Settled(s)'
    <3>1. \A s \in Sinks : Given(s)' = Given(s)
      BY <1>1, <2>1
    <3>2. \A s \in Sinks : Pending(s)' = Pending(s)
      BY <1>3 DEF Pending
    <3> QED
      BY <1>3, <3>1, <3>2, SettledStays
  <2>3. WriterTypes'
    BY <1>1, <1>3, <2>1 DEF WriterTypes
  <2>4. mode' = "switches" => current' = TableBefore(Len(jobRows) + 1)'
    BY <1>3 DEF WriterInv, TableBefore
  <2>5. ASSUME NEW s \in Sinks, held[s] = <<>> PROVE held'[s] = <<>>
    BY <1>1, <2>1, <2>5
  <2>6. finished' /\ exitCode' = 0 => \A s \in Sinks : held'[s] = <<>>
    BY <1>3, <2>5 DEF WriterInv
  <2>7. jobAt' = "finish" => \A s \in Sinks : s < sinkAt' => held'[s] = <<>>
    <3> SUFFICES ASSUME jobAt' = "finish", NEW s \in Sinks, s < sinkAt' PROVE held'[s] = <<>>
      OBVIOUS
    <3>1. CASE s = sinkAt
      BY <1>3, <2>1, <3>1
    <3>2. CASE s # sinkAt
      <4>1. s < sinkAt
        BY <1>1, <1>3, <3>2
      <4>2. held[s] = <<>>
        BY <1>3, <4>1 DEF WriterInv
      <4> QED
        BY <2>5, <4>2
    <3> QED
      BY <3>1, <3>2
  <2> QED
    BY <1>3, <2>2, <2>3, <2>4, <2>6, <2>7 DEF WriterInv
<1>4. jobAt # "write" => \A s \in Sinks : Pending(s) = <<>>
  BY DEF Pending
<1>5. jobAt' # "write" => \A s \in Sinks : Pending(s)' = <<>>
  BY DEF Pending
<1>6. jobAt \in {"body", "write", "flush", "finish"} => exitCode = 0
  BY DEF WriterInv
<1>7. CASE \E t \in Tables, size \in RowSizes : WriteRow(t, size)
  BY <1>7, RowTaken
<1>8. CASE RowRefused
  BY <1>1, <1>2, <1>8 DEF RowRefused, JobReturns, sinkVars
<1>9. CASE ValueRefused
  BY <1>1, <1>2, <1>9 DEF ValueRefused, JobReturns, sinkVars
<1>10. CASE WriteAll
  BY <1>10, ChunkWritten
<1>11. CASE RowWritten
  <2>1. \A s \in Sinks : Pending(s) = <<>>
    BY <1>11, FlattenEmpty DEF RowWritten, Pending
  <2> QED
    BY <1>1, <1>2, <1>5, <1>6, <1>11, <2>1 DEF RowWritten, sinkVars, WriterTypes
<1>12. CASE CallFlush
  BY <1>1, <1>2, <1>4, <1>5, <1>6, <1>12 DEF CallFlush, sinkVars, WriterTypes
<1>13. CASE FlushTable
  <2>1. CASE Takes(held[sinkAt], <<>>) /\ sinkAt' = sinkAt + 1 /\ UNCHANGED <<jobAt, todo, exitCode>>
    BY <1>1, <1>3, <1>6, <1>13, <2>1 DEF FlushTable, WriterTypes
  <2>2. CASE FailsHolding(held[sinkAt]) /\ JobReturns(1)
    <3>1. /\ sinkAt \in Tables /\ held' \in [Tables -> Seq(WByte)] /\ landed' \in [Tables -> Seq(WByte)]
          /\ \A s \in Tables : Given(s)' = Given(s)
      BY <1>1, <1>13, <2>2, FlushIs DEF FlushTable
    <3>2. exitCode' = 1 /\ jobAt' = "drop" /\ sinkAt' = 0 /\ todo' = <<>> /\ UNCHANGED <<mode, current, finished, jobRows>>
      BY <1>13, <2>2 DEF FlushTable, JobReturns
    <3>3. Sinks' = Sinks /\ \A s \in Sinks' : Settled(s)'
      <4>1. \A s \in Sinks : Given(s)' = Given(s)
        BY <1>1, <3>1
      <4> QED
        BY <3>2, <4>1, SettledStays
    <3>4. WriterTypes'
      BY <1>1, <3>1, <3>2 DEF WriterTypes
    <3>5. mode' = "switches" => current' = TableBefore(Len(jobRows) + 1)'
      BY <3>2 DEF WriterInv, TableBefore
    <3> QED
      BY <3>2, <3>3, <3>4, <3>5 DEF WriterInv
  <2> QED
    BY <1>13, <2>1, <2>2 DEF FlushTable
<1>14. CASE Flushed
  <2>1. UNCHANGED <<mode, current, held, landed, sinkAt, todo, jobRows, exitCode>> /\ jobAt' = "body" /\ exitCode = 0
    BY <1>6, <1>14 DEF Flushed, sinkVars
  <2>2. Sinks' = Sinks /\ \A s \in Sinks' : Settled(s)'
    <3>1. \A s \in Sinks : Given(s)' = Given(s)
      BY <2>1 DEF Given
    <3>2. \A s \in Sinks : Pending(s)' = Pending(s)
      BY <1>4, <1>5, <1>14, <2>1 DEF Flushed
    <3> QED
      BY <2>1, <3>1, <3>2, SettledStays
  <2>3. WriterTypes'
    BY <1>1, <1>14, <2>1 DEF WriterTypes, Flushed
  <2>4. mode' = "switches" => current' = TableBefore(Len(jobRows) + 1)'
    BY <2>1 DEF WriterInv, TableBefore
  <2>5. finished' => \A s \in Sinks : held'[s] = <<>>
    <3>1. CASE finished
      BY <2>1, <3>1 DEF WriterInv
    <3>2. CASE jobAt = "finish"
      <4>1. sinkAt \notin Sinks /\ \A s \in Sinks : s < sinkAt => held[s] = <<>>
        BY <1>14, <3>2 DEF Flushed, WriterInv
      <4>2. \A s \in Sinks : s < sinkAt
        <5>1. sinkAt \in Nat /\ OutTables \in Nat \ {0}
          BY <1>1, WriterAssumption DEF WriterTypes
        <5> QED
          BY <4>1, <5>1 DEF Sinks, Tables
      <4> QED
        BY <2>1, <4>1, <4>2
    <3> QED
      BY <1>14, <3>1, <3>2 DEF Flushed
  <2> QED
    BY <2>1, <2>2, <2>3, <2>4, <2>5 DEF WriterInv
<1>15. CASE BodyEnds
  BY <1>1, <1>2, <1>4, <1>5, <1>6, <1>15 DEF BodyEnds, JobReturns, sinkVars
<1>16. CASE DropFlushes
  BY <1>1, <1>3, <1>16 DEF DropFlushes, WriterTypes
<1>17. CASE Dropped
  BY <1>1, <1>2, <1>4, <1>5, <1>17 DEF Dropped, sinkVars, WriterTypes
<1>18. CASE SinkDropped
  BY <1>1, <1>3, <1>18 DEF SinkDropped, WriterTypes
<1>19. CASE JobExits
  BY <1>1, <1>2, <1>4, <1>5, <1>19 DEF JobExits, sinkVars, WriterTypes
<1>20. CASE UNCHANGED writerVars
  <2>1. \A s \in Sinks : Pending(s)' = Pending(s)
    BY <1>20 DEF writerVars, Pending
  <2> QED
    BY <1>1, <1>2, <1>6, <1>20, <2>1 DEF writerVars, sinkVars, WriterTypes
<1> QED
  BY <1>7, <1>8, <1>9, <1>10, <1>11, <1>12, <1>13, <1>14, <1>15, <1>16, <1>17, <1>18, <1>19, <1>20 DEF WriterNext

\* OutputIsWhole, of any number of tables, rows of any size and any buffer:
\* JobWriter, SkiffJobWriter and their BufWriters, whichever descriptor fails.
THEOREM OutputStaysWhole == WriterSpec => []OutputIsWhole
<1>1. WriterInv => OutputIsWhole
  <2> SUFFICES ASSUME WriterInv PROVE OutputIsWhole
    OBVIOUS
  <2>1. WriterTypes /\ Sinks \subseteq Tables /\ mode \in Modes /\ jobRows \in Seq(RowRec)
    BY SinksAre DEF WriterInv, WriterTypes
  <2>2. ASSUME NEW s \in Sinks
        PROVE  /\ landed[s] \in Seq(WByte) /\ \E z \in Seq(WByte) : landed[s] \o z = Due(s)
               /\ jobAt = "exit" /\ exitCode = 0 /\ finished => landed[s] = Due(s)
    <3> DEFINE l == landed[s]
               h == held[s]
    <3>1. l \in Seq(WByte) /\ h \in Seq(WByte)
      BY <2>1 DEF WriterTypes
    <3>2. PICK rest \in Seq(WByte) : (l \o h) \o rest = Due(s) /\ (exitCode = 0 => rest = Pending(s))
      BY DEF WriterInv, Settled, Given
    <3> HIDE DEF l, h
    <3>3. (l \o h) \o rest = l \o (h \o rest)
      <4>1. Joinable(l, h, rest)
        BY <3>1, Joined
      <4> QED
        BY <4>1 DEF Joinable
    <3>4. h \o rest \in Seq(WByte) /\ l \o (h \o rest) = Due(s)
      BY <3>1, <3>2, <3>3, ConcatProperties
    <3>5. ASSUME jobAt = "exit" /\ exitCode = 0 /\ finished PROVE l = Due(s)
      <4>1. h = <<>> /\ rest = <<>>
        BY <3>2, <3>5 DEF WriterInv, Pending, h
      <4>2. l \o <<>> = l
        BY <3>1, ConcatEmptySeq
      <4> QED
        BY <3>2, <4>1, <4>2
    <3> QED
      BY <3>1, <3>4, <3>5 DEF l
  <2>3. ASSUME NEW t \in Tables
        PROVE  /\ Arrived(t) \in Seq(WByte) /\ \E z \in Seq(WByte) : Owed(t) = Arrived(t) \o z
               /\ jobAt = "exit" /\ exitCode = 0 /\ finished => Arrived(t) = Owed(t)
    <3>1. CASE mode = "switches"
      <4>1. 0 \in Sinks
        BY <3>1 DEF Sinks
      <4>2. Obeyed(Due(0)).out[t] = Owed(t)
        BY <2>1, <3>1, SwitchesObeyed
      <4>3. PICK z \in Seq(WByte) : landed[0] \o z = Due(0)
        BY <2>2, <4>1
      <4>4. landed[0] \in Seq(WByte)
        BY <2>2, <4>1
      <4>5. \E x \in Seq(WByte) : Obeyed(landed[0] \o z).out[t] = Obeyed(landed[0]).out[t] \o x
        BY <4>4, ObeyedGrows
      <4>6. Obeyed(landed[0]).out[t] \in Seq(WByte)
        <5>1. Obeyed(landed[0]) \in ReadState
          BY <4>4, ObeyedIs
        <5> QED
          BY <5>1 DEF ReadState
      <4>7. Arrived(t) = Obeyed(landed[0]).out[t]
        BY <3>1 DEF Arrived
      <4>8. jobAt = "exit" /\ exitCode = 0 /\ finished => landed[0] = Due(0)
        BY <2>2, <4>1
      <4> QED
        BY <4>2, <4>3, <4>5, <4>6, <4>7, <4>8
    <3>2. CASE mode # "switches"
      <4>1. t \in Sinks /\ Arrived(t) = landed[t]
        BY <3>2 DEF Sinks, Arrived
      <4>2. Due(t) = Owed(t)
        BY <3>2 DEF Due, Owed, SinkRow
      <4> QED
        BY <2>2, <4>1, <4>2
    <3> QED
      BY <3>1, <3>2
  <2>4. ASSUME NEW t \in Tables PROVE IsPrefix(Arrived(t), Owed(t))
    <3>1. PICK z \in Seq(WByte) : Owed(t) = Arrived(t) \o z
      BY <2>3
    <3>2. Arrived(t) \in Seq(WByte)
      BY <2>3
    <3> QED
      BY <3>1, <3>2, PrefixOfConcat
  <2> QED
    BY <2>3, <2>4 DEF OutputIsWhole
<1> QED
  BY <1>1, WriterStarts, WriterSteps, PTL DEF WriterSpec

-----------------------------------------------------------------------------
(***************************************************************************)
(* TabletClient: tables are true.                                          *)
(***************************************************************************)
\* A function that goes by the steps as long as they are about values.
Follows(c, n, V, base, step) ==
  c[0] = base /\ \A i \in 1..n : c[i - 1] \in V => c[i] = step[i][c[i - 1]]

\* It stays among the values, so it goes by the steps throughout.
LEMMA RecursHolds ==
  ASSUME NEW V, NEW n \in Nat, NEW base \in V, NEW step \in [1..n -> [V -> V]],
         NEW c, Follows(c, n, V, base, step)
  PROVE  Recurs(c, n, base, step) /\ \A i \in 0..n : c[i] \in V
<1> DEFINE P == {i \in Nat : i <= n => c[i] \in V}
<1>1. 0 \in P
  BY DEF Follows
<1>2. ASSUME NEW i \in P PROVE i + 1 \in P
  <2>1. i \in Nat /\ i + 1 \in Nat
    OBVIOUS
  <2> SUFFICES ASSUME i + 1 <= n PROVE c[i + 1] \in V
    BY <2>1
  <2>2. i <= n /\ i + 1 \in 1..n /\ (i + 1) - 1 = i
    BY <2>1
  <2>3. c[i] \in V
    BY <2>2
  <2>4. c[i + 1] = step[i + 1][c[i]]
    BY <2>2, <2>3 DEF Follows
  <2> QED
    BY <2>2, <2>3, <2>4
<1>3. P = Nat
  <2>1. P \in SUBSET Nat
    OBVIOUS
  <2> HIDE DEF P
  <2> QED
    BY <1>1, <1>2, <2>1, Inductive
<1>4. ASSUME NEW i \in 0..n PROVE c[i] \in V
  <2>1. i \in Nat /\ i <= n
    OBVIOUS
  <2>2. i \in P
    <3> HIDE DEF P
    <3> QED
      BY <1>3, <2>1
  <2> QED
    BY <2>1, <2>2
<1>5. ASSUME NEW i \in 1..n PROVE c[i] = step[i][c[i - 1]]
  <2>1. i - 1 \in 0..n
    OBVIOUS
  <2> QED
    BY <1>4, <2>1 DEF Follows
<1> QED
  BY <1>4, <1>5 DEF Recurs, Follows

\* What sequences hold is held by what they are put together to.
LEMMA FlattenHas ==
  ASSUME NEW S, NEW seqs \in Seq(Seq(S)), NEW i \in 1..Len(seqs), NEW j \in 1..Len(seqs[i])
  PROVE  \E m \in 1..Len(FlattenSeq(seqs)) : FlattenSeq(seqs)[m] = seqs[i][j]
<1> DEFINE n == Len(seqs)
           before == FlattenSeq(SubSeq(seqs, 1, i - 1))
           upTo == FlattenSeq(SubSeq(seqs, 1, i))
<1>1. n \in Nat /\ i \in Nat /\ i - 1 \in Nat /\ i - 1 < n /\ i <= n /\ (i - 1) + 1 = i /\ n \in i..n
  OBVIOUS
<1>2. before \in Seq(S) /\ seqs[i] \in Seq(S) /\ upTo = before \o seqs[i]
  BY <1>1, FlattenTake
<1>3. PICK t \in Seq(S) : FlattenSeq(SubSeq(seqs, 1, n)) = upTo \o t
  <2>1. i \in Nat /\ i <= Len(seqs)
    BY <1>1
  <2>2. \A m \in i..Len(seqs) : \E t \in Seq(S) :
          FlattenSeq(SubSeq(seqs, 1, m)) = FlattenSeq(SubSeq(seqs, 1, i)) \o t
    BY <2>1, FlattenPrefix
  <2> QED
    BY <1>1, <2>2
<1>4. SubSeq(seqs, 1, n) = seqs
  BY SubSeqFull
<1>5. j \in Nat /\ 1 <= j /\ j <= Len(seqs[i])
  BY <1>2
<1>6. upTo \in Seq(S) /\ Len(before) \in Nat /\ Len(seqs[i]) \in Nat /\ Len(upTo) = Len(before) + Len(seqs[i])
      /\ upTo[Len(before) + j] = seqs[i][j]
  <2> DEFINE s == seqs[i]
  <2>1. /\ before \o s \in Seq(S) /\ Len(before) \in Nat /\ Len(s) \in Nat
        /\ Len(before \o s) = Len(before) + Len(s)
        /\ \A k \in 1..Len(s) : (before \o s)[Len(before) + k] = s[k]
    <3> HIDE DEF before, s
    <3> QED
      BY <1>2, TwoParts DEF s
  <2> HIDE DEF before, upTo
  <2> QED
    BY <1>2, <2>1
<1>7. upTo \o t \in Seq(S) /\ Len(t) \in Nat /\ Len(upTo \o t) = Len(upTo) + Len(t)
      /\ \A k \in 1..Len(upTo) : (upTo \o t)[k] = upTo[k]
  BY <1>6, TwoParts
<1> DEFINE m == Len(before) + j
           all == upTo \o t
<1> HIDE DEF before, upTo
<1>8. m \in 1..Len(upTo) /\ m \in 1..Len(all)
  <2>1. PICK x, y, z \in Nat : x = Len(before) /\ y = Len(seqs[i]) /\ z = Len(t)
    BY <1>6, <1>7
  <2>2. m = x + j /\ Len(upTo) = x + y /\ Len(all) = (x + y) + z /\ j <= y
    BY <1>5, <1>6, <1>7, <2>1
  <2> HIDE DEF m, all
  <2> QED
    BY <1>5, <2>2
<1>9. all = FlattenSeq(seqs)
  BY <1>3, <1>4
<1> HIDE DEF all
<1>10. all[m] = seqs[i][j]
  BY <1>6, <1>7, <1>8 DEF all
<1> QED
  BY <1>8, <1>9, <1>10

-----------------------------------------------------------------------------
\* The values of a row of the table, and tables.
TableRow == {row \in SUBSET Cells : IsFiniteSet(row)} \cup {NoRow}
TabletTable == [TableKeys -> TableRow]

ReplyNameSet == ToSet(ReplyNames)

\* A name of a name table has a place in it.
LEMMA IdsAreTrue ==
  ASSUME NEW N, NEW names \in Seq(N), NEW name \in ToSet(names)
  PROVE  /\ IdOf(name, names) \in Nat /\ IdOf(name, names) + 1 \in 1..Len(names)
         /\ names[IdOf(name, names) + 1] = name
<1> DEFINE at == CHOOSE i \in DOMAIN names : names[i] = name
<1>1. DOMAIN names = 1..Len(names) /\ Len(names) \in Nat
  OBVIOUS
<1>2. \E i \in DOMAIN names : names[i] = name
  BY DEF ToSet
<1>3. at \in DOMAIN names /\ names[at] = name
  BY <1>2
<1>4. IdOf(name, names) = at - 1
  BY DEF IdOf
<1> HIDE DEF at
<1>5. at \in Nat /\ at >= 1 /\ at - 1 \in Nat /\ (at - 1) + 1 = at
  BY <1>1, <1>3
<1> QED
  BY <1>1, <1>3, <1>4, <1>5

\* A row comes back from the wire as it went there, under any name table that
\* has its columns.
LEMMA RowsComeBack ==
  ASSUME NEW names \in Seq(ReplyNameSet), NEW row \in Seq(Cells),
         \A i \in 1..Len(row) : row[i][1] \in ToSet(names)
  PROVE  /\ ToWire(row, names) \in Seq(Nat \X CellValues)
         /\ FromWire(ToWire(row, names), names) = row
<1> DEFINE n == Len(row)
           wire == ToWire(row, names)
<1>1. n \in Nat /\ DOMAIN row = 1..n
  OBVIOUS
<1>2. ASSUME NEW i \in 1..n
      PROVE  /\ row[i] \in Cells /\ row[i] = <<row[i][1], row[i][2]>> /\ row[i][2] \in CellValues
             /\ IdOf(row[i][1], names) \in Nat
             /\ names[IdOf(row[i][1], names) + 1] = row[i][1]
  <2>1. row[i] \in Cells
    BY <1>1
  <2>2. row[i] = <<row[i][1], row[i][2]>> /\ row[i][2] \in CellValues
    BY <2>1 DEF Cells
  <2>3. row[i][1] \in ToSet(names)
    OBVIOUS
  <2> QED
    BY <2>1, <2>2, <2>3, IdsAreTrue
<1>3. wire = [i \in 1..n |-> <<IdOf(row[i][1], names), row[i][2]>>]
  BY <1>1 DEF ToWire
<1>4. wire \in [1..n -> Nat \X CellValues]
  BY <1>2, <1>3
<1>5. wire \in Seq(Nat \X CellValues) /\ DOMAIN wire = 1..n
  BY <1>1, <1>4, FunIsSeq
<1>6. ASSUME NEW i \in 1..n PROVE <<names[wire[i][1] + 1], wire[i][2]>> = row[i]
  BY <1>2, <1>3
<1>7. FromWire(wire, names) = [i \in 1..n |-> row[i]]
  <2>1. FromWire(wire, names) = [i \in 1..n |-> <<names[wire[i][1] + 1], wire[i][2]>>]
    BY <1>5 DEF FromWire
  <2> HIDE DEF wire, n
  <2> QED
    BY <1>6, <2>1
<1>8. row = [i \in 1..n |-> row[i]]
  BY <1>1
<1> QED
  BY <1>5, <1>7, <1>8

\* A row of the table, as the answer carries it, is read as it is.
LEMMA ReadAsItIs ==
  ASSUME NEW row \in TableRow, TabletAssumption
  PROVE  /\ row = NoRow => Replied(row) = NoRow
         /\ row # NoRow => /\ Replied(row) # NoRow
                           /\ FromWire(Replied(row), ReplyNames) # NoRow
                           /\ Named(FromWire(Replied(row), ReplyNames)) = row
<1>1. row = NoRow => Replied(row) = NoRow
  BY DEF Replied
<1>2. ASSUME row # NoRow
      PROVE  /\ Replied(row) # NoRow
             /\ FromWire(Replied(row), ReplyNames) # NoRow
             /\ Named(FromWire(Replied(row), ReplyNames)) = row
  <2> DEFINE n == Cardinality(row)
             s == SetToSeq(row)
  <2>1. row \in SUBSET Cells /\ IsFiniteSet(row)
    BY <1>2 DEF TableRow
  <2>2. n \in Nat
    BY <2>1, FS_CardinalityType
  <2>3. PICK g : g \in Bijection(1..n, row)
    BY <2>1, FS_CardinalityType DEF ExistsBijection
  <2>4. g \in [1..n -> row] /\ IsInjective(g)
    BY <2>3 DEF Bijection, Injection, IsInjective
  <2>5. s \in [1..n -> row] /\ IsInjective(s)
    BY <2>4 DEF SetToSeq
  <2> HIDE DEF s
  <2>6. s \in Injection(1..n, row)
    BY <2>5 DEF Injection, IsInjective
  <2>7. s \in Surjection(1..n, row)
    <3>1. IsFiniteSet(1..n) /\ Cardinality(1..n) = n
      BY <2>2, FS_Interval
    <3> QED
      BY <2>1, <2>6, <3>1, FS_Injection, FS_Surjection
  <2>8. s \in Seq(row) /\ Len(s) = n /\ s \in Seq(Cells)
    <3>1. s \in [1..n -> Cells]
      BY <2>1, <2>5
    <3> QED
      BY <2>2, <2>5, <3>1, FunIsSeq
  <2>9. Named(s) = row
    <3>1. DOMAIN s = 1..n
      BY <2>5
    <3> QED
      BY <2>5, <2>7, <3>1 DEF Surjection, Named, ToSet
  <2>10. ReplyNames \in Seq(ReplyNameSet)
    <3>1. ReplyNames \in Seq(STRING)
      BY DEF TabletAssumption
    <3>2. ReplyNames \in [1..Len(ReplyNames) -> ReplyNameSet] /\ Len(ReplyNames) \in Nat
      BY <3>1 DEF ReplyNameSet, ToSet
    <3> QED
      BY <3>2, FunIsSeq
  <2>11. \A i \in 1..Len(s) : s[i][1] \in ToSet(ReplyNames)
    <3>1. \A i \in 1..Len(s) : s[i] \in Cells
      BY <2>8
    <3> QED
      BY <3>1 DEF Cells
  <2>12. /\ ToWire(s, ReplyNames) \in Seq(Nat \X CellValues)
         /\ FromWire(ToWire(s, ReplyNames), ReplyNames) = s
    BY <2>8, <2>10, <2>11, RowsComeBack
  <2>13. Replied(row) = ToWire(s, ReplyNames)
    BY <1>2 DEF Replied, s
  <2> QED
    BY <2>8, <2>9, <2>12, <2>13 DEF TabletAssumption
<1> QED
  BY <1>1, <1>2

-----------------------------------------------------------------------------
\* A name joins the names that were seen.
LEMMA NameJoins ==
  ASSUME NEW N, NEW names \in Seq(N), NEW name \in N
  PROVE  /\ AddName(names, name) \in Seq(N)
         /\ name \in ToSet(AddName(names, name))
         /\ ToSet(names) \subseteq ToSet(AddName(names, name))
<1>1. CASE name \in ToSet(names)
  BY <1>1 DEF AddName
<1>2. CASE name \notin ToSet(names)
  <2> DEFINE n == Len(names)
             more == Append(names, name)
  <2>1. n \in Nat /\ more \in Seq(N) /\ Len(more) = n + 1 /\ more[n + 1] = name
        /\ \A i \in 1..n : more[i] = names[i]
    BY AppendProperties
  <2>2. DOMAIN names = 1..n /\ DOMAIN more = 1..n + 1
    <3>1. \A s \in Seq(N) : DOMAIN s = 1..Len(s)
      OBVIOUS
    <3> HIDE DEF more, n
    <3> QED
      BY <2>1, <3>1 DEF n
  <2>3. AddName(names, name) = more
    BY <1>2 DEF AddName
  <2> HIDE DEF more, n
  <2>4. n + 1 \in 1..n + 1 /\ 1..n \subseteq 1..n + 1
    BY <2>1
  <2> QED
    BY <2>1, <2>2, <2>3, <2>4 DEF ToSet
<1> QED
  BY <1>1, <1>2

\* The steps of ColumnNames.
NameSteps(all) == [i \in 1..Len(all) |-> [v \in Seq(ReplyNameSet) |-> AddName(v, all[i])]]

\* The name table of a request has every column its rows name.
LEMMA ColumnsAreNamed ==
  ASSUME NEW rows \in Seq(Seq(Cells))
  PROVE  /\ ColumnNames(rows) \in Seq(ReplyNameSet)
         /\ \A i \in 1..Len(rows) : \A j \in 1..Len(rows[i]) :
              rows[i][j][1] \in ToSet(ColumnNames(rows))
<1> DEFINE V == Seq(ReplyNameSet)
           lists == [i \in DOMAIN rows |-> Names(rows[i])]
           all == FlattenSeq(lists)
           n == Len(all)
           F(f) == [i \in 0..n |-> IF i = 0 THEN <<>> ELSE AddName(f[i - 1], all[i])]
           c == CHOOSE f : f = F(f)
           step == NameSteps(all)
<1>1. Len(rows) \in Nat /\ DOMAIN rows = 1..Len(rows)
  OBVIOUS
<1>2. ASSUME NEW i \in 1..Len(rows)
      PROVE  /\ Names(rows[i]) \in V /\ Len(Names(rows[i])) = Len(rows[i])
             /\ \A j \in 1..Len(rows[i]) : Names(rows[i])[j] = rows[i][j][1]
  <2> DEFINE row == rows[i]
             m == Len(row)
  <2>1. row \in Seq(Cells)
    BY <1>1
  <2>2. m \in Nat /\ DOMAIN row = 1..m /\ \A j \in 1..m : row[j] \in Cells
    BY <2>1
  <2>3. Names(row) = [j \in 1..m |-> row[j][1]]
    BY <2>2 DEF Names
  <2>4. \A j \in 1..m : row[j][1] \in ReplyNameSet
    BY <2>2 DEF Cells, ReplyNameSet
  <2>5. Names(row) \in [1..m -> ReplyNameSet]
    BY <2>3, <2>4
  <2> HIDE DEF m, row
  <2>6. Names(row) \in V /\ Len(Names(row)) = m
    BY <2>2, <2>5, FunIsSeq
  <2> QED
    BY <2>3, <2>6 DEF m, row
<1>3. lists \in Seq(V) /\ Len(lists) = Len(rows) /\ \A i \in 1..Len(rows) : lists[i] = Names(rows[i])
  <2>1. lists \in [1..Len(rows) -> V]
    BY <1>1, <1>2
  <2> HIDE DEF lists
  <2>2. lists \in Seq(V) /\ Len(lists) = Len(rows)
    BY <1>1, <2>1, FunIsSeq
  <2> QED
    BY <1>1, <2>2 DEF lists
<1> HIDE DEF lists
<1>4. all \in V
  BY <1>3, FlattenIn
<1>5. n \in Nat /\ \A i \in 1..n : all[i] \in ReplyNameSet
  BY <1>4
<1>6. \A i \in 1..Len(rows) : \A j \in 1..Len(rows[i]) : \E m \in 1..n : all[m] = rows[i][j][1]
  <2> SUFFICES ASSUME NEW i \in 1..Len(rows), NEW j \in 1..Len(rows[i])
               PROVE  \E m \in 1..n : all[m] = rows[i][j][1]
    OBVIOUS
  <2>1. i \in 1..Len(lists) /\ j \in 1..Len(lists[i]) /\ lists[i][j] = rows[i][j][1]
    BY <1>2, <1>3
  <2> QED
    BY <1>3, <2>1, FlattenHas
<1> HIDE DEF all
<1>7. /\ <<>> \in V
      /\ step \in [1..n -> [V -> V]]
      /\ \A i \in 1..n, v \in V : step[i][v] = AddName(v, all[i])
  <2>1. \A i \in 1..n, v \in V : AddName(v, all[i]) \in V
    BY <1>5, NameJoins
  <2> QED
    BY <2>1 DEF NameSteps
<1> HIDE DEF step
<1>8. PICK f \in [0..n -> V] : Recurs(f, n, <<>>, step)
  <2> HIDE DEF n, V
  <2> QED
    BY <1>5, <1>7, Recursion
<1>9. ASSUME NEW i \in 0..n PROVE f[i] = IF i = 0 THEN <<>> ELSE AddName(f[i - 1], all[i])
  <2>1. CASE i = 0
    BY <1>8, <2>1 DEF Recurs
  <2>2. CASE i # 0
    <3>1. i \in 1..n /\ i - 1 \in 0..n
      BY <1>5, <2>2
    <3>2. f[i] = step[i][f[i - 1]] /\ f[i - 1] \in V
      BY <1>8, <3>1 DEF Recurs
    <3> QED
      BY <1>7, <2>2, <3>1, <3>2
  <2> QED
    BY <2>1, <2>2
<1>10. f = F(f)
  <2>1. f = [i \in 0..n |-> f[i]]
    BY <1>8
  <2>2. (\A i \in 0..n : f[i] = F(f)[i]) /\ F(f) = [i \in 0..n |-> F(f)[i]]
    BY <1>9, Zenon
  <2> HIDE DEF F, n
  <2> QED
    BY <2>1, <2>2
<1>11. c = F(c)
  BY <1>10
<1> HIDE DEF c
<1>12. c[0] = <<>> /\ \A i \in 1..n : c[i] = AddName(c[i - 1], all[i])
  <2>1. ASSUME NEW i \in 0..n PROVE c[i] = IF i = 0 THEN <<>> ELSE AddName(c[i - 1], all[i])
    <3>1. F(c)[i] = IF i = 0 THEN <<>> ELSE AddName(c[i - 1], all[i])
      BY Zenon
    <3> HIDE DEF F
    <3> QED
      BY <1>11, <3>1
  <2> HIDE DEF F, n
  <2>2. 0 \in 0..n /\ \A i \in 1..n : i \in 0..n /\ i # 0
    BY <1>5
  <2> QED
    BY <2>1, <2>2
<1>13. Follows(c, n, V, <<>>, step)
  BY <1>7, <1>12 DEF Follows
<1>14. \A i \in 0..n : c[i] \in V
  <2> HIDE DEF n, V, F
  <2> QED
    BY <1>5, <1>7, <1>13, RecursHolds
<1>15. ColumnNames(rows) = c[n]
  BY DEF ColumnNames, c, all, lists
<1> DEFINE P == {i \in Nat : i <= n => \A m \in 1..i : all[m] \in ToSet(c[i])}
<1>16. 0 \in P
  OBVIOUS
<1>17. ASSUME NEW i \in P PROVE i + 1 \in P
  <2>1. i \in Nat /\ i + 1 \in Nat
    OBVIOUS
  <2> SUFFICES ASSUME i + 1 <= n, NEW m \in 1..i + 1 PROVE all[m] \in ToSet(c[i + 1])
    BY <2>1
  <2>2. i <= n /\ i + 1 \in 1..n /\ (i + 1) - 1 = i /\ i \in 0..n
    BY <2>1
  <2>3. c[i + 1] = AddName(c[i], all[i + 1]) /\ c[i] \in V /\ all[i + 1] \in ReplyNameSet
    BY <1>5, <1>12, <1>14, <2>2
  <2>4. all[i + 1] \in ToSet(c[i + 1]) /\ ToSet(c[i]) \subseteq ToSet(c[i + 1])
    BY <2>3, NameJoins
  <2>5. m \in 1..i \/ m = i + 1
    BY <2>1
  <2>6. \A k \in 1..i : all[k] \in ToSet(c[i])
    BY <2>2
  <2> QED
    BY <2>4, <2>5, <2>6
<1>18. P = Nat
  <2>1. P \in SUBSET Nat
    OBVIOUS
  <2> HIDE DEF P
  <2> QED
    BY <1>16, <1>17, <2>1, Inductive
<1>19. \A m \in 1..n : all[m] \in ToSet(c[n])
  <2>1. n \in P
    <3> HIDE DEF P
    <3> QED
      BY <1>5, <1>18
  <2>2. n <= n
    BY <1>5
  <2> QED
    BY <2>1, <2>2
<1>20. c[n] \in V
  BY <1>5, <1>14
<1> QED
  BY <1>6, <1>15, <1>19, <1>20

\* What a request carries is what was given.
LEMMA GivenArrives ==
  ASSUME NEW mod \in Mods
  PROVE  /\ Len(ModifyRequest(mod).rows) = Len(mod.rows)
         /\ DOMAIN ModifyRequest(mod).rows = 1..Len(mod.rows)
         /\ \A i \in 1..Len(mod.rows) :
              FromWire(ModifyRequest(mod).rows[i], ModifyRequest(mod).names) = mod.rows[i]
         /\ ModifyRequest(mod).delete = mod.delete
         /\ AsGiven(mod, ModifyRequest(mod))
<1> DEFINE rows == mod.rows
           n == Len(rows)
           names == ColumnNames(rows)
           wire == ModifyRequest(mod)
<1>1. rows \in Seq(Seq(Cells))
  BY DEF Mods
<1>2. n \in Nat /\ DOMAIN rows = 1..n /\ \A i \in 1..n : rows[i] \in Seq(Cells)
  BY <1>1
<1>3. names \in Seq(ReplyNameSet) /\ \A i \in 1..n : \A j \in 1..Len(rows[i]) : rows[i][j][1] \in ToSet(names)
  BY <1>1, ColumnsAreNamed
<1>4. wire.names = names /\ wire.delete = mod.delete /\ wire.rows = [i \in 1..n |-> ToWire(rows[i], names)]
  BY <1>2 DEF ModifyRequest
<1> HIDE DEF names, wire
<1>5. ASSUME NEW i \in 1..n
      PROVE  /\ ToWire(rows[i], names) \in Seq(Nat \X CellValues)
             /\ FromWire(wire.rows[i], wire.names) = rows[i]
  <2>1. rows[i] \in Seq(Cells) /\ wire.rows[i] = ToWire(rows[i], names)
    BY <1>2, <1>4
  <2> HIDE DEF rows, n
  <2> QED
    BY <1>3, <1>4, <2>1, RowsComeBack
<1>6. wire.rows \in [1..n -> Seq(Nat \X CellValues)]
  BY <1>4, <1>5
<1>7. Len(wire.rows) = n /\ DOMAIN wire.rows = 1..n
  BY <1>2, <1>6, FunIsSeq
<1>8. [i \in DOMAIN wire.rows |-> Named(FromWire(wire.rows[i], wire.names))]
        = [i \in DOMAIN rows |-> Named(rows[i])]
  BY <1>2, <1>5, <1>7
<1>9. AsGiven(mod, wire)
  BY <1>4, <1>8 DEF AsGiven
<1> QED
  BY <1>4, <1>5, <1>7, <1>9 DEF wire

-----------------------------------------------------------------------------
(***************************************************************************)
(* What a table is after some commits.                                     *)
(***************************************************************************)
WireMods == {ModifyRequest(mod) : mod \in Mods}
Entry == [no : Apps \X Nat, mod : WireMods]
Commit == [tx : Nat, mods : Seq(Entry)]
EmptyTable == [k \in TableKeys |-> NoRow]

\* A row written leaves a table.
LEMMA UpsertedIn ==
  ASSUME NEW table \in TabletTable, NEW delete, NEW row \in Seq(Cells)
  PROVE  Upserted(table, delete, row) \in TabletTable
<1> DEFINE n == Len(row)
           key == KeyOf(row)
           kept == IF table[key] = NoRow THEN {} ELSE {c \in table[key] : c[1] \notin ToSet(Names(row))}
           new == IF delete THEN NoRow ELSE Named(row) \cup kept
<1>1. n \in Nat /\ DOMAIN row = 1..n /\ \A i \in 1..n : row[i] \in Cells
  OBVIOUS
<1>2. Named(row) \in SUBSET Cells /\ IsFiniteSet(Named(row))
  <2>1. Named(row) = {row[i] : i \in 1..n}
    BY <1>1 DEF Named, ToSet
  <2>2. row \in Surjection(1..n, Named(row))
    <3>1. row \in [1..n -> Named(row)]
      BY <1>1, <2>1
    <3> QED
      BY <2>1, <3>1 DEF Surjection
  <2>3. IsFiniteSet(1..n)
    BY <1>1, FS_Interval
  <2> QED
    BY <1>1, <2>1, <2>2, <2>3, FS_Surjection
<1>3. Upserted(table, delete, row) = [table EXCEPT ![key] = new]
  BY DEF Upserted
<1> HIDE DEF key
<1>4. CASE key \in TableKeys
  <2>1. table[key] \in TableRow
    BY <1>4 DEF TabletTable
  <2>2. kept \in SUBSET Cells /\ IsFiniteSet(kept)
    <3>1. CASE table[key] = NoRow
      BY <3>1, FS_EmptySet
    <3>2. CASE table[key] # NoRow
      <4>1. table[key] \in SUBSET Cells /\ IsFiniteSet(table[key])
        BY <2>1, <3>2 DEF TableRow
      <4>2. kept \in SUBSET table[key]
        BY <3>2
      <4> HIDE DEF kept
      <4> QED
        BY <4>1, <4>2, FS_Subset
    <3> QED
      BY <3>1, <3>2
  <2>3. new \in TableRow
    <3>1. NoRow \in TableRow
      BY DEF TableRow
    <3>2. Named(row) \cup kept \in SUBSET Cells /\ IsFiniteSet(Named(row) \cup kept)
      <4> HIDE DEF kept
      <4> QED
        BY <1>2, <2>2, FS_Union
    <3> HIDE DEF kept
    <3>3. Named(row) \cup kept \in TableRow
      BY <3>2 DEF TableRow
    <3> QED
      BY <3>1, <3>3
  <2> HIDE DEF new
  <2> QED
    BY <1>3, <2>3 DEF TabletTable
<1>5. CASE key \notin TableKeys
  <2> HIDE DEF new
  <2> QED
    BY <1>3, <1>5 DEF TabletTable
<1> QED
  BY <1>4, <1>5

\* The steps of Modified, of Committed and of TableAt.
RowSteps(mod) ==
  [i \in 1..Len(mod.rows) |->
     [t \in TabletTable |-> Upserted(t, mod.delete, FromWire(mod.rows[i], mod.names))]]
ModSteps(mods) == [i \in 1..Len(mods) |-> [t \in TabletTable |-> Modified(t, mods[i].mod)]]
CommitSteps(history, n) == [i \in 1..n |-> [t \in TabletTable |-> Committed(t, history[i].mods)]]

\* A write leaves a table.
LEMMA ModifiedIn ==
  ASSUME NEW table \in TabletTable, NEW mod \in WireMods
  PROVE  Modified(table, mod) \in TabletTable
<1> DEFINE V == TabletTable
           n == Len(mod.rows)
           Row(i) == FromWire(mod.rows[i], mod.names)
           F(f) == [i \in 0..n |-> IF i = 0 THEN table
                                   ELSE Upserted(f[i - 1], mod.delete, FromWire(mod.rows[i], mod.names))]
           c == CHOOSE f : f = F(f)
           step == RowSteps(mod)
<1>1. n \in Nat /\ \A i \in 1..n : Row(i) \in Seq(Cells)
  <2>1. PICK given \in Mods : mod = ModifyRequest(given)
    BY DEF WireMods
  <2>2. n = Len(given.rows) /\ \A i \in 1..n : Row(i) = given.rows[i]
    BY <2>1, GivenArrives
  <2>3. Len(given.rows) \in Nat /\ \A i \in 1..Len(given.rows) : given.rows[i] \in Seq(Cells)
    <3>1. given.rows \in Seq(Seq(Cells))
      BY DEF Mods
    <3> QED
      BY <3>1
  <2> HIDE DEF Row, n
  <2> QED
    BY <2>2, <2>3
<1> HIDE DEF Row
<1>2. step \in [1..n -> [V -> V]] /\ \A i \in 1..n, t \in V : step[i][t] = Upserted(t, mod.delete, Row(i))
  <2>1. \A i \in 1..n, t \in V : Upserted(t, mod.delete, Row(i)) \in V
    BY <1>1, UpsertedIn
  <2> QED
    BY <2>1 DEF RowSteps, Row
<1> HIDE DEF step
<1>3. PICK f \in [0..n -> V] : Recurs(f, n, table, step)
  <2> HIDE DEF n, V
  <2>1. table \in V
    BY DEF V
  <2> QED
    BY <1>1, <1>2, <2>1, Recursion
<1>4. ASSUME NEW i \in 0..n PROVE f[i] = IF i = 0 THEN table ELSE Upserted(f[i - 1], mod.delete, Row(i))
  <2>1. CASE i = 0
    BY <1>3, <2>1 DEF Recurs
  <2>2. CASE i # 0
    <3>1. i \in 1..n /\ i - 1 \in 0..n
      BY <1>1, <2>2
    <3>2. f[i] = step[i][f[i - 1]] /\ f[i - 1] \in V
      BY <1>3, <3>1 DEF Recurs
    <3> QED
      BY <1>2, <2>2, <3>1, <3>2
  <2> QED
    BY <2>1, <2>2
<1>5. f = F(f)
  <2>1. f = [i \in 0..n |-> f[i]]
    BY <1>3
  <2>2. (\A i \in 0..n : f[i] = F(f)[i]) /\ F(f) = [i \in 0..n |-> F(f)[i]]
    BY <1>4, Zenon DEF Row
  <2> HIDE DEF F, n
  <2> QED
    BY <2>1, <2>2
<1>6. c = F(c)
  BY <1>5
<1> HIDE DEF c
<1>7. c[0] = table /\ \A i \in 1..n : c[i] = Upserted(c[i - 1], mod.delete, Row(i))
  BY <1>1, <1>6 DEF Row
<1>8. Follows(c, n, V, table, step)
  BY <1>2, <1>7 DEF Follows
<1>9. \A i \in 0..n : c[i] \in V
  <2>1. table \in V
    OBVIOUS
  <2> HIDE DEF n, V, F
  <2> QED
    BY <1>1, <1>2, <1>8, <2>1, RecursHolds
<1>10. Modified(table, mod) = c[n]
  BY DEF Modified, c
<1> HIDE DEF n
<1> QED
  BY <1>1, <1>9, <1>10

\* A commit leaves a table.
LEMMA CommittedIn ==
  ASSUME NEW table \in TabletTable, NEW mods \in Seq(Entry)
  PROVE  Committed(table, mods) \in TabletTable
<1> DEFINE V == TabletTable
           n == Len(mods)
           F(f) == [i \in 0..n |-> IF i = 0 THEN table ELSE Modified(f[i - 1], mods[i].mod)]
           c == CHOOSE f : f = F(f)
           step == ModSteps(mods)
<1>1. n \in Nat /\ \A i \in 1..n : mods[i].mod \in WireMods
  <2>1. n \in Nat /\ \A i \in 1..n : mods[i] \in Entry
    OBVIOUS
  <2> QED
    BY <2>1 DEF Entry
<1>2. step \in [1..n -> [V -> V]] /\ \A i \in 1..n, t \in V : step[i][t] = Modified(t, mods[i].mod)
  <2>1. \A i \in 1..n, t \in V : Modified(t, mods[i].mod) \in V
    BY <1>1, ModifiedIn
  <2> QED
    BY <2>1 DEF ModSteps
<1> HIDE DEF step
<1>3. PICK f \in [0..n -> V] : Recurs(f, n, table, step)
  <2> HIDE DEF n, V
  <2>1. table \in V
    BY DEF V
  <2> QED
    BY <1>1, <1>2, <2>1, Recursion
<1>4. ASSUME NEW i \in 0..n PROVE f[i] = IF i = 0 THEN table ELSE Modified(f[i - 1], mods[i].mod)
  <2>1. CASE i = 0
    BY <1>3, <2>1 DEF Recurs
  <2>2. CASE i # 0
    <3>1. i \in 1..n /\ i - 1 \in 0..n
      BY <1>1, <2>2
    <3>2. f[i] = step[i][f[i - 1]] /\ f[i - 1] \in V
      BY <1>3, <3>1 DEF Recurs
    <3> QED
      BY <1>2, <2>2, <3>1, <3>2
  <2> QED
    BY <2>1, <2>2
<1>5. f = F(f)
  <2>1. f = [i \in 0..n |-> f[i]]
    BY <1>3
  <2>2. (\A i \in 0..n : f[i] = F(f)[i]) /\ F(f) = [i \in 0..n |-> F(f)[i]]
    BY <1>4, Zenon
  <2> HIDE DEF F, n
  <2> QED
    BY <2>1, <2>2
<1>6. c = F(c)
  BY <1>5
<1> HIDE DEF c
<1>7. c[0] = table /\ \A i \in 1..n : c[i] = Modified(c[i - 1], mods[i].mod)
  BY <1>1, <1>6
<1>8. Follows(c, n, V, table, step)
  BY <1>2, <1>7 DEF Follows
<1>9. \A i \in 0..n : c[i] \in V
  <2>1. table \in V
    OBVIOUS
  <2> HIDE DEF n, V, F
  <2> QED
    BY <1>1, <1>2, <1>8, <2>1, RecursHolds
<1>10. Committed(table, mods) = c[n]
  BY DEF Committed, c
<1> HIDE DEF n
<1> QED
  BY <1>1, <1>9, <1>10

\* The recursion of TableAt, and what it makes.
LEMMA TableAtRecurs ==
  ASSUME NEW history \in Seq(Commit), NEW ts \in 0..Len(history)
  PROVE  \E c : /\ Recurs(c, ts, EmptyTable, CommitSteps(history, ts))
                /\ TableAt(history, ts) = c[ts]
                /\ c[ts] \in TabletTable
<1> DEFINE V == TabletTable
           F(f) == [i \in 0..ts |-> IF i = 0 THEN EmptyTable ELSE Committed(f[i - 1], history[i].mods)]
           c == CHOOSE f : f = F(f)
           step == CommitSteps(history, ts)
<1>1. ts \in Nat /\ \A i \in 1..ts : history[i].mods \in Seq(Entry)
  <2>1. ts \in Nat /\ \A i \in 1..ts : history[i] \in Commit
    OBVIOUS
  <2> QED
    BY <2>1 DEF Commit
<1>2. EmptyTable \in V
  BY DEF EmptyTable, TabletTable, TableRow
<1>3. step \in [1..ts -> [V -> V]] /\ \A i \in 1..ts, t \in V : step[i][t] = Committed(t, history[i].mods)
  <2>1. \A i \in 1..ts, t \in V : Committed(t, history[i].mods) \in V
    BY <1>1, CommittedIn
  <2> QED
    BY <2>1 DEF CommitSteps
<1> HIDE DEF step
<1>4. PICK f \in [0..ts -> V] : Recurs(f, ts, EmptyTable, step)
  <2> HIDE DEF V
  <2> QED
    BY <1>1, <1>2, <1>3, Recursion
<1>5. ASSUME NEW i \in 0..ts PROVE f[i] = IF i = 0 THEN EmptyTable ELSE Committed(f[i - 1], history[i].mods)
  <2>1. CASE i = 0
    BY <1>4, <2>1 DEF Recurs
  <2>2. CASE i # 0
    <3>1. i \in 1..ts /\ i - 1 \in 0..ts
      BY <1>1, <2>2
    <3>2. f[i] = step[i][f[i - 1]] /\ f[i - 1] \in V
      BY <1>4, <3>1 DEF Recurs
    <3> QED
      BY <1>3, <2>2, <3>1, <3>2
  <2> QED
    BY <2>1, <2>2
<1>6. f = F(f)
  <2>1. f = [i \in 0..ts |-> f[i]]
    BY <1>4
  <2>2. (\A i \in 0..ts : f[i] = F(f)[i]) /\ F(f) = [i \in 0..ts |-> F(f)[i]]
    BY <1>5, Zenon
  <2> HIDE DEF F
  <2> QED
    BY <2>1, <2>2
<1>7. c = F(c)
  BY <1>6
<1> HIDE DEF c
<1>8. c[0] = EmptyTable /\ \A i \in 1..ts : c[i] = Committed(c[i - 1], history[i].mods)
  BY <1>1, <1>7
<1>9. Follows(c, ts, V, EmptyTable, step)
  BY <1>3, <1>8 DEF Follows
<1>10. Recurs(c, ts, EmptyTable, step) /\ \A i \in 0..ts : c[i] \in V
  <2> HIDE DEF V, F
  <2> QED
    BY <1>1, <1>2, <1>3, <1>9, RecursHolds
<1>11. TableAt(history, ts) = c[ts]
  BY DEF TableAt, c, EmptyTable
<1>12. c[ts] \in V
  BY <1>1, <1>10
<1> QED
  BY <1>10, <1>11, <1>12 DEF step

\* The table at a moment is a table.
LEMMA TableAtIn ==
  ASSUME NEW history \in Seq(Commit), NEW ts \in 0..Len(history)
  PROVE  TableAt(history, ts) \in TabletTable
BY TableAtRecurs

\* What is committed later does not change it.
LEMMA TableStays ==
  ASSUME NEW history \in Seq(Commit), NEW commit \in Commit, NEW ts \in 0..Len(history)
  PROVE  TableAt(Append(history, commit), ts) = TableAt(history, ts)
<1> DEFINE more == Append(history, commit)
<1>1. /\ more \in Seq(Commit) /\ ts \in Nat /\ ts \in 0..Len(more)
      /\ \A i \in 1..ts : more[i] = history[i]
  <2>1. Len(history) \in Nat /\ more \in Seq(Commit) /\ Len(more) = Len(history) + 1
        /\ \A i \in 1..Len(history) : more[i] = history[i]
    BY AppendProperties
  <2> HIDE DEF more
  <2> QED
    BY <2>1
<1> HIDE DEF more
<1>2. PICK f : Recurs(f, ts, EmptyTable, CommitSteps(history, ts)) /\ TableAt(history, ts) = f[ts]
  BY TableAtRecurs
<1>3. PICK g : Recurs(g, ts, EmptyTable, CommitSteps(more, ts)) /\ TableAt(more, ts) = g[ts]
  BY <1>1, TableAtRecurs
<1>4. \A i \in 1..ts : CommitSteps(more, ts)[i] = CommitSteps(history, ts)[i]
  BY <1>1 DEF CommitSteps
<1>5. f[ts] = g[ts]
  <2>1. ts <= ts /\ ts \in 0..ts
    BY <1>1
  <2> QED
    BY <1>1, <1>2, <1>3, <1>4, <2>1, RecursAgree
<1> QED
  BY <1>2, <1>3, <1>5 DEF more

\* The answer to a read, how it is read, and what it should be.
AnswerOf(table, keys) == [i \in DOMAIN keys |-> Replied(table[keys[i]])]
ReadOf(rows) == [i \in DOMAIN rows |-> IF rows[i] = NoRow THEN NoRow ELSE FromWire(rows[i], ReplyNames)]
RowsOf(table, keys) == [i \in DOMAIN keys |-> table[keys[i]]]

\* An answer to a read is read as the table was.
LEMMA AnswersAreRead ==
  ASSUME TabletAssumption, NEW table \in TabletTable, NEW keys \in Seq(TableKeys)
  PROVE  Got(ReadOf(AnswerOf(table, keys))) = RowsOf(table, keys)
<1> DEFINE rows == AnswerOf(table, keys)
           out == ReadOf(rows)
           D == DOMAIN keys
<1>1. ASSUME NEW i \in D
      PROVE  (IF out[i] = NoRow THEN NoRow ELSE Named(out[i])) = table[keys[i]]
  <2> DEFINE row == table[keys[i]]
  <2>1. row \in TableRow
    BY DEF TabletTable
  <2>2. rows[i] = Replied(row) /\ out[i] = IF rows[i] = NoRow THEN NoRow ELSE FromWire(rows[i], ReplyNames)
    BY DEF AnswerOf, ReadOf
  <2> HIDE DEF row, out
  <2>3. CASE row = NoRow
    BY <2>1, <2>2, <2>3, ReadAsItIs DEF row
  <2>4. CASE row # NoRow
    BY <2>1, <2>2, <2>4, ReadAsItIs DEF row
  <2> QED
    BY <2>3, <2>4
<1>2. DOMAIN out = D
  BY DEF AnswerOf, ReadOf
<1>3. Got(out) = [i \in D |-> IF out[i] = NoRow THEN NoRow ELSE Named(out[i])]
  BY <1>2 DEF Got
<1> HIDE DEF out
<1>4. Got(out) = [i \in D |-> table[keys[i]]]
  BY <1>1, <1>3
<1> QED
  BY <1>4 DEF out, RowsOf

-----------------------------------------------------------------------------
(***************************************************************************)
(* The invariant.                                                          *)
(***************************************************************************)
Kinds == {"start", "modify", "ping", "read", "commit", "abort"}
TabletReq == [no : Apps \X Nat, kind : Kinds, tx : Nat, mod : WireMods \cup {NoRow},
              keys : Seq(TableKeys), at : Nat \cup {NoRow}]
CallRec == [no : Apps \X Nat, api : STRING, tx : Nat, mod : Mods \cup {NoRow},
            keys : Seq(TableKeys), since : Nat]
TxRec == [state : {"open", "committed", "aborted", "expired"}, start : Nat, mods : Seq(Entry)]

TabletTypes ==
  /\ tabletTx \in Seq(TxRec) /\ commits \in Seq(Commit)
  /\ outQueue \in [Apps -> Seq(TabletReq)] /\ onWire \in SUBSET TabletReq
  /\ apiAt \in [Apps -> Kinds \cup {"idle"}] /\ apiCall \in [Apps -> CallRec \cup {NoRow}]
  /\ handle \in [Apps -> Nat] /\ \A a \in Apps : handle[a] <= Len(tabletTx)
  /\ program \in Programs /\ callNo \in [Apps -> Nat]

\* The requests that were made and are not dealt with.  A call has one at a time,
\* and it is in one place.
Queued(a) == {outQueue[a][i] : i \in 1..Len(outQueue[a])}
InFlight == onWire \cup UNION {Queued(a) : a \in Apps}
NoCopies ==
  /\ \A a \in Apps : \A i, j \in 1..Len(outQueue[a]) : outQueue[a][i].no = outQueue[a][j].no => i = j
  /\ \A a \in Apps : \A i \in 1..Len(outQueue[a]) :
       outQueue[a][i].no[1] = a /\ \A r \in onWire : r.no # outQueue[a][i].no
  /\ \A r, s \in onWire : r.no = s.no => r = s

\* The transactions whose commit may yet arrive: each can be committed by one,
\* who is about to be told of it, holds it, writes to it or has asked for it.
StartTokens(t) == {<<"start", p.no>> : p \in {q \in replies : q.kind = "start" /\ q.ok /\ q.tx = t}}
HandleTokens(t) == {<<"handle", a>> : a \in {b \in Apps : handle[b] = t}}
WriteTokens(t) ==
  {<<"write", a>> : a \in {b \in Apps : apiAt[b] = "modify" /\ apiCall[b].api = "alone" /\ apiCall[b].tx = t}}
CommitTokens(t) == {<<"commit", r.no>> : r \in {q \in InFlight : q.kind = "commit" /\ q.tx = t}}
Tokens(t) == StartTokens(t) \cup HandleTokens(t) \cup WriteTokens(t) \cup CommitTokens(t)
IsCommitted(t) == t \in 1..Len(tabletTx) /\ tabletTx[t].state = "committed"
TokensSound ==
  \A t \in Nat \ {0} : /\ \A x, y \in Tokens(t) : x = y
                       /\ Tokens(t) # {} => t \in 1..Len(tabletTx) /\ ~IsCommitted(t)

\* It will never be committed.
IsDead(t) == t \in 1..Len(tabletTx) /\ ~IsCommitted(t) /\ Tokens(t) = {}

\* The write of a call is in its transaction, and is in no other.
Holds(c) ==
  /\ c.tx \in 1..Len(tabletTx)
  /\ \E i \in 1..Len(tabletTx[c.tx].mods) :
       tabletTx[c.tx].mods[i] = [no |-> c.no, mod |-> ModifyRequest(c.mod)]
Confined(c) ==
  /\ \A t \in 1..Len(tabletTx) : \A i \in 1..Len(tabletTx[t].mods) :
       tabletTx[t].mods[i].no = c.no => t = c.tx
  /\ \A r \in InFlight : r.kind = "modify" /\ r.no = c.no => r.tx = c.tx

WrittenApart ==
  \A t, u \in 1..Len(tabletTx) : \A i \in 1..Len(tabletTx[t].mods), j \in 1..Len(tabletTx[u].mods) :
    tabletTx[t].mods[i].no = tabletTx[u].mods[j].no => t = u /\ i = j
WrittenBefore ==
  \A t \in 1..Len(tabletTx) : \A i \in 1..Len(tabletTx[t].mods) :
    LET no == tabletTx[t].mods[i].no
    IN  no[2] <= callNo[no[1]] /\ \A r \in InFlight : r.kind = "modify" => r.no # no
WrittenOnce == WrittenApart /\ WrittenBefore

\* A request is one that was made, and the one in flight of a call that waits is
\* the one it waits for.
ReadAt(c) == IF c.tx = 0 THEN NoRow ELSE tabletTx[c.tx].start
RequestOK(r) ==
  /\ r.no[2] <= callNo[r.no[1]]
  /\ r.kind \notin {"start", "read"} => r.tx \in 1..Len(tabletTx)
  /\ r.kind = "modify" => r.mod \in WireMods
  /\ LET a == r.no[1]
         c == apiCall[a]
     IN  apiAt[a] # "idle" /\ c.no = r.no =>
           /\ r.kind = apiAt[a] /\ r.tx = c.tx
           /\ r.kind = "modify" => r.mod = ModifyRequest(c.mod)
           /\ r.kind = "read" => r.keys = c.keys /\ r.at = ReadAt(c)
RequestsSound == \A r \in InFlight : RequestOK(r)

CallOK(a) ==
  LET c == apiCall[a]
      at == apiAt[a]
  IN  /\ c \in CallRec /\ c.no = <<a, callNo[a]>> /\ c.since <= Len(commits) /\ c.tx <= Len(tabletTx)
      /\ at \notin {"start", "read"} => c.tx # 0
      /\ at = "modify" => c.mod \in Mods
      /\ c.api = "alone" =>
           /\ c.mod \in Mods /\ at \in {"start", "modify", "commit"} /\ (c.tx = 0 <=> at = "start")
           /\ Confined(c)
           /\ at = "commit" => Holds(c)
      /\ c.api \in {"start", "modify", "commit"} => at = c.api
      /\ c.api \in {"read", "lookup"} => at = "read"
CallsSound == \A a \in Apps : apiAt[a] # "idle" => CallOK(a)

\* An answer is the only one of a call that waits for it, and true.
Moments(c, until) == IF c.tx = 0 THEN c.since..until ELSE {tabletTx[c.tx].start}
AnswerTrue(p, c) ==
  /\ p.kind = "start" /\ p.ok => p.tx \in 1..Len(tabletTx)
  /\ p.kind = "modify" /\ p.ok => Holds(c)
  /\ p.kind = "commit" => IF p.ok THEN IsCommitted(c.tx) ELSE IsDead(c.tx)
  /\ p.kind = "read" /\ p.ok =>
       \E ts \in Moments(c, Len(commits)) :
         p.rows = [i \in DOMAIN c.keys |-> Replied(AsOf(ts)[c.keys[i]])]
AnswerOK(p) ==
  LET a == p.no[1]
  IN  /\ a \in Apps /\ p.kind \in Kinds /\ p.ok \in BOOLEAN
      /\ apiAt[a] = p.kind /\ apiCall[a].no = p.no
      /\ \A r \in InFlight : r.no # p.no
      /\ AnswerTrue(p, apiCall[a])
AnswersSound ==
  /\ \A p \in replies : AnswerOK(p)
  /\ \A p, q \in replies : p.no = q.no => p = q

CommitsSound ==
  /\ \A i \in 1..Len(commits) : /\ IsCommitted(commits[i].tx)
                                /\ commits[i].mods = tabletTx[commits[i].tx].mods
  /\ \A i, j \in 1..Len(commits) : commits[i].tx = commits[j].tx => i = j
  /\ \A t \in 1..Len(tabletTx) : /\ tabletTx[t].start <= Len(commits)
                                 /\ IsCommitted(t) => \E i \in 1..Len(commits) : commits[i].tx = t

\* What a call that has returned said is true, and stays so.
Gone(c) ==
  LET a == c.no[1]
  IN  c.no[2] <= callNo[a] /\ (apiAt[a] # "idle" => c.no[2] < callNo[a])
DoneOK(d) ==
  LET c == d.call
  IN  /\ c \in CallRec /\ Gone(c) /\ c.tx <= Len(tabletTx) /\ d.until <= Len(commits) /\ d.until \in Nat
      /\ c.api = "alone" /\ d.how = "ok" => Holds(c) /\ IsCommitted(c.tx) /\ c.mod \in Mods
      /\ c.api = "alone" /\ (d.how = "timeout" => d.at # "commit") /\ d.how # "ok" =>
           Confined(c) /\ (c.tx = 0 \/ IsDead(c.tx))
      /\ c.api = "modify" /\ d.how = "ok" => Holds(c) /\ c.mod \in Mods
      /\ c.api = "commit" /\ d.how # "timeout" =>
           IF d.how = "ok" THEN IsCommitted(c.tx) ELSE IsDead(c.tx)
      /\ c.api \in {"read", "lookup"} /\ d.how = "ok" =>
           \E ts \in Moments(c, d.until) : ts <= Len(commits) /\ Got(d.rows) = Expected(ts, c.keys)
DoneSound == \A d \in apiDone : DoneOK(d)

TabletInv ==
  /\ TabletTypes /\ NoCopies /\ TokensSound /\ WrittenOnce /\ RequestsSound /\ CallsSound
  /\ AnswersSound /\ CommitsSound /\ DoneSound

-----------------------------------------------------------------------------
(***************************************************************************)
(* Where the requests are.                                                 *)
(***************************************************************************)
\* A request is in flight on the wire or in a queue.
LEMMA FlightIs ==
  \A r : r \in InFlight <=> \/ r \in onWire
                            \/ \E b \in Apps : \E i \in 1..Len(outQueue[b]) : outQueue[b][i] = r
BY DEF InFlight, Queued

\* A call has one request in flight.
LEMMA FlightsDiffer ==
  ASSUME TabletTypes, NoCopies, NEW r \in InFlight, NEW s \in InFlight, r.no = s.no
  PROVE  r = s
<1>1. CASE r \in onWire /\ s \in onWire
  BY <1>1 DEF NoCopies
<1>2. CASE r \in onWire /\ s \notin onWire
  <2>1. PICK b \in Apps : \E i \in 1..Len(outQueue[b]) : outQueue[b][i] = s
    BY <1>2, FlightIs
  <2> QED
    BY <1>2, <2>1 DEF NoCopies
<1>3. CASE r \notin onWire /\ s \in onWire
  <2>1. PICK b \in Apps : \E i \in 1..Len(outQueue[b]) : outQueue[b][i] = r
    BY <1>3, FlightIs
  <2> QED
    BY <1>3, <2>1 DEF NoCopies
<1>4. CASE r \notin onWire /\ s \notin onWire
  <2>1. PICK b \in Apps : \E i \in 1..Len(outQueue[b]) : outQueue[b][i] = r
    BY <1>4, FlightIs
  <2>2. PICK c \in Apps : \E i \in 1..Len(outQueue[c]) : outQueue[c][i] = s
    BY <1>4, FlightIs
  <2>3. PICK i \in 1..Len(outQueue[b]) : outQueue[b][i] = r
    BY <2>1
  <2>4. PICK j \in 1..Len(outQueue[c]) : outQueue[c][j] = s
    BY <2>2
  <2>5. r.no[1] = b /\ s.no[1] = c
    BY <2>3, <2>4 DEF NoCopies
  <2>6. b = c
    BY <2>5
  <2>7. i = j
    BY <2>3, <2>4, <2>6 DEF NoCopies
  <2> QED
    BY <2>3, <2>4, <2>6, <2>7
<1> QED
  BY <1>1, <1>2, <1>3, <1>4

\* What is in flight is a request.
LEMMA FlightsAreRequests ==
  ASSUME TabletTypes
  PROVE  InFlight \in SUBSET TabletReq
<1> SUFFICES ASSUME NEW r \in InFlight PROVE r \in TabletReq
  OBVIOUS
<1>1. CASE r \in onWire
  BY <1>1 DEF TabletTypes
<1>2. CASE r \notin onWire
  <2>1. PICK b \in Apps : \E i \in 1..Len(outQueue[b]) : outQueue[b][i] = r
    BY <1>2, FlightIs
  <2>2. outQueue[b] \in Seq(TabletReq)
    BY DEF TabletTypes
  <2> QED
    BY <2>1, <2>2
<1> QED
  BY <1>1, <1>2

\* A request joins the queue of its program.
LEMMA RequestJoins ==
  ASSUME TabletTypes, NoCopies, NEW a \in Apps, NEW q \in TabletReq, q.no[1] = a,
         \A r \in InFlight : r.no # q.no,
         outQueue' = [outQueue EXCEPT ![a] = Append(@, q)], onWire' = onWire
  PROVE  /\ outQueue' \in [Apps -> Seq(TabletReq)] /\ NoCopies'
         /\ \A r : r \in InFlight' <=> r \in InFlight \/ r = q
<1> DEFINE old == outQueue[a]
           n == Len(old)
           new == Append(old, q)
<1>1. outQueue \in [Apps -> Seq(TabletReq)]
  BY DEF TabletTypes
<1>2. old \in Seq(TabletReq)
  BY <1>1
<1>3. /\ new \in Seq(TabletReq) /\ n \in Nat /\ Len(new) = n + 1 /\ new[n + 1] = q
      /\ \A i \in 1..n : new[i] = old[i]
  BY <1>2, AppendProperties
<1>4. outQueue' = [outQueue EXCEPT ![a] = new]
  OBVIOUS
<1> HIDE DEF new
<1>5. outQueue'[a] = new /\ \A b \in Apps : b # a => outQueue'[b] = outQueue[b]
  BY <1>1, <1>4
<1>6. outQueue' \in [Apps -> Seq(TabletReq)]
  BY <1>1, <1>3, <1>4
<1>7. \A i \in 1..n + 1 : i \in 1..n \/ i = n + 1
  BY <1>3
<1>8. n + 1 \in 1..n + 1 /\ \A i \in 1..n : i \in 1..n + 1
  BY <1>3
<1>9. \A r : r \in InFlight' <=> r \in InFlight \/ r = q
  <2>1. \A r : r \in InFlight' <=> \/ r \in onWire
                                   \/ \E b \in Apps : \E i \in 1..Len(outQueue'[b]) : outQueue'[b][i] = r
    BY DEF InFlight, Queued
  <2>2. ASSUME NEW r, r \in InFlight' PROVE r \in InFlight \/ r = q
    <3>1. CASE r \in onWire
      BY <3>1, FlightIs
    <3>2. CASE \E b \in Apps : \E i \in 1..Len(outQueue'[b]) : outQueue'[b][i] = r
      <4>1. PICK b \in Apps : \E i \in 1..Len(outQueue'[b]) : outQueue'[b][i] = r
        BY <3>2
      <4>2. CASE b = a
        <5>1. PICK i \in 1..n + 1 : new[i] = r
          BY <1>3, <1>5, <4>1, <4>2
        <5>2. CASE i \in 1..n
          BY <1>3, <5>1, <5>2, FlightIs
        <5>3. CASE i = n + 1
          BY <1>3, <5>1, <5>3
        <5> QED
          BY <1>7, <5>2, <5>3
      <4>3. CASE b # a
        BY <1>5, <4>1, <4>3, FlightIs
      <4> QED
        BY <4>2, <4>3
    <3> QED
      BY <2>1, <2>2, <3>1, <3>2
  <2>3. ASSUME NEW r, r \in InFlight \/ r = q PROVE r \in InFlight'
    <3>1. CASE r = q
      BY <1>3, <1>5, <1>8, <2>1, <3>1
    <3>2. CASE r \in onWire
      BY <2>1, <3>2
    <3>3. CASE r \in InFlight /\ r \notin onWire
      <4>1. PICK b \in Apps : \E i \in 1..Len(outQueue[b]) : outQueue[b][i] = r
        BY <3>3, FlightIs
      <4>2. CASE b = a
        <5>1. PICK i \in 1..n : old[i] = r
          BY <4>1, <4>2
        <5>2. i \in 1..Len(outQueue'[a]) /\ outQueue'[a][i] = r
          BY <1>3, <1>5, <1>8, <5>1
        <5> QED
          BY <2>1, <5>2
      <4>3. CASE b # a
        BY <1>5, <2>1, <4>1, <4>3
      <4> QED
        BY <4>2, <4>3
    <3> QED
      BY <2>3, <3>1, <3>2, <3>3
  <2> QED
    BY <2>2, <2>3
<1>10. NoCopies'
  <2>1. ASSUME NEW b \in Apps, NEW i \in 1..Len(outQueue'[b]), NEW j \in 1..Len(outQueue'[b]),
               outQueue'[b][i].no = outQueue'[b][j].no
        PROVE  i = j
    <3>1. CASE b # a
      BY <1>5, <2>1, <3>1 DEF NoCopies
    <3>2. CASE b = a
      <4>1. i \in 1..n + 1 /\ j \in 1..n + 1 /\ new[i].no = new[j].no
        BY <1>3, <1>5, <2>1, <3>2
      <4>2. ASSUME NEW k \in 1..n PROVE new[k].no # q.no /\ new[k] = old[k]
        <5>1. old[k] \in InFlight
          BY FlightIs
        <5> QED
          BY <1>3, <5>1
      <4>3. CASE i \in 1..n /\ j \in 1..n
        <5>1. i \in 1..Len(outQueue[a]) /\ j \in 1..Len(outQueue[a])
          BY <4>3
        <5>2. outQueue[a][i].no = outQueue[a][j].no
          BY <4>1, <4>2, <4>3
        <5> QED
          BY <5>1, <5>2, SMTT(30) DEF NoCopies
      <4>4. CASE i = n + 1 /\ j = n + 1
        BY <4>4
      <4> QED
        BY <1>3, <1>7, <4>1, <4>2, <4>3, <4>4
    <3> QED
      BY <3>1, <3>2
  <2>2. ASSUME NEW b \in Apps, NEW i \in 1..Len(outQueue'[b])
        PROVE  outQueue'[b][i].no[1] = b /\ \A r \in onWire : r.no # outQueue'[b][i].no
    <3>1. CASE b # a
      BY <1>5, <2>2, <3>1 DEF NoCopies
    <3>2. CASE b = a
      <4>1. i \in 1..n + 1 /\ outQueue'[b][i] = new[i]
        BY <1>3, <1>5, <2>2, <3>2
      <4>2. CASE i \in 1..n
        BY <1>3, <3>2, <4>1, <4>2 DEF NoCopies
      <4>3. CASE i = n + 1
        BY <1>3, <3>2, <4>1, <4>3, FlightIs
      <4> QED
        BY <1>7, <4>1, <4>2, <4>3
    <3> QED
      BY <3>1, <3>2
  <2>3. \A r, s \in onWire : r.no = s.no => r = s
    BY DEF NoCopies
  <2> QED
    BY <2>1, <2>2, <2>3 DEF NoCopies
<1> QED
  BY <1>6, <1>9, <1>10

\* A request goes out: it is in another place.
LEMMA RequestGoesOut ==
  ASSUME TabletTypes, NoCopies, NEW a \in Apps, outQueue[a] # <<>>,
         outQueue' = [outQueue EXCEPT ![a] = Tail(@)], onWire' = onWire \cup {Head(outQueue[a])}
  PROVE  /\ outQueue' \in [Apps -> Seq(TabletReq)] /\ onWire' \in SUBSET TabletReq /\ NoCopies'
         /\ \A r : r \in InFlight' <=> r \in InFlight
<1> DEFINE old == outQueue[a]
           n == Len(old)
           new == Tail(old)
<1>1. outQueue \in [Apps -> Seq(TabletReq)]
  BY DEF TabletTypes
<1>2. old \in Seq(TabletReq) /\ old # <<>>
  BY <1>1
<1>3. /\ n \in Nat /\ n >= 1 /\ new \in Seq(TabletReq) /\ Len(new) = n - 1 /\ Head(old) = old[1]
      /\ \A i \in 1..n - 1 : new[i] = old[i + 1]
  BY <1>2, HeadTailProperties
<1> DEFINE q == old[1]
<1>4. outQueue' = [outQueue EXCEPT ![a] = new] /\ onWire' = onWire \cup {q}
  BY <1>3
<1>5. 1 \in 1..n /\ q \in TabletReq
  <2>1. 1 \in 1..n
    BY <1>3
  <2> QED
    BY <1>2, <2>1
<1> HIDE DEF new, q
<1>6. outQueue'[a] = new /\ \A b \in Apps : b # a => outQueue'[b] = outQueue[b]
  BY <1>1, <1>4
<1>7. outQueue' \in [Apps -> Seq(TabletReq)]
  BY <1>1, <1>3, <1>4
<1>8. onWire' \in SUBSET TabletReq
  BY <1>4, <1>5 DEF TabletTypes
<1>9. /\ \A i \in 1..n - 1 : i + 1 \in 1..n /\ i + 1 # 1
      /\ \A i \in 1..n : i = 1 \/ (i - 1 \in 1..n - 1 /\ (i - 1) + 1 = i)
  BY <1>3
<1>10. \A r : r \in InFlight' <=> r \in InFlight
  <2>1. \A r : r \in InFlight' <=> \/ r \in onWire'
                                   \/ \E b \in Apps : \E i \in 1..Len(outQueue'[b]) : outQueue'[b][i] = r
    BY DEF InFlight, Queued
  <2>2. ASSUME NEW r, r \in InFlight' PROVE r \in InFlight
    <3>1. CASE r \in onWire'
      BY <1>4, <1>5, <3>1, FlightIs DEF q
    <3>2. CASE \E b \in Apps : \E i \in 1..Len(outQueue'[b]) : outQueue'[b][i] = r
      <4>1. PICK b \in Apps : \E i \in 1..Len(outQueue'[b]) : outQueue'[b][i] = r
        BY <3>2
      <4>2. CASE b = a
        <5>1. PICK i \in 1..n - 1 : new[i] = r
          BY <1>3, <1>6, <4>1, <4>2
        <5>2. i + 1 \in 1..n /\ old[i + 1] = r
          BY <1>3, <1>9, <5>1
        <5> QED
          BY <5>2, FlightIs
      <4>3. CASE b # a
        BY <1>6, <4>1, <4>3, FlightIs
      <4> QED
        BY <4>2, <4>3
    <3> QED
      BY <2>1, <2>2, <3>1, <3>2
  <2>3. ASSUME NEW r, r \in InFlight PROVE r \in InFlight'
    <3>1. CASE r \in onWire
      BY <1>4, <2>1, <3>1
    <3>2. CASE r \notin onWire
      <4>1. PICK b \in Apps : \E i \in 1..Len(outQueue[b]) : outQueue[b][i] = r
        BY <2>3, <3>2, FlightIs
      <4>2. CASE b = a
        <5>1. PICK i \in 1..n : old[i] = r
          BY <4>1, <4>2
        <5>2. CASE i = 1
          BY <1>4, <2>1, <5>1, <5>2 DEF q
        <5>3. CASE i # 1
          <6>1. i - 1 \in 1..n - 1 /\ new[i - 1] = r
            BY <1>3, <1>9, <5>1, <5>3
          <6>2. i - 1 \in 1..Len(outQueue'[a]) /\ outQueue'[a][i - 1] = r
            BY <1>3, <1>6, <6>1
          <6> QED
            BY <2>1, <6>2
        <5> QED
          BY <5>2, <5>3
      <4>3. CASE b # a
        BY <1>6, <2>1, <4>1, <4>3
      <4> QED
        BY <4>2, <4>3
    <3> QED
      BY <3>1, <3>2
  <2> QED
    BY <2>2, <2>3
<1>11. NoCopies'
  <2>1. ASSUME NEW b \in Apps, NEW i \in 1..Len(outQueue'[b])
        PROVE  \E k \in 1..Len(outQueue[b]) :
                 outQueue'[b][i] = outQueue[b][k] /\ (b = a => k = i + 1) /\ (b # a => k = i)
    <3>1. CASE b = a
      BY <1>3, <1>6, <1>9, <3>1
    <3>2. CASE b # a
      BY <1>6, <3>2
    <3> QED
      BY <3>1, <3>2
  <2>2. ASSUME NEW b \in Apps, NEW i \in 1..Len(outQueue'[b]), NEW j \in 1..Len(outQueue'[b]),
               outQueue'[b][i].no = outQueue'[b][j].no
        PROVE  i = j
    <3>1. PICK k \in 1..Len(outQueue[b]) :
            outQueue'[b][i] = outQueue[b][k] /\ (b = a => k = i + 1) /\ (b # a => k = i)
      BY <2>1
    <3>2. PICK m \in 1..Len(outQueue[b]) :
            outQueue'[b][j] = outQueue[b][m] /\ (b = a => m = j + 1) /\ (b # a => m = j)
      BY <2>1
    <3>3. k = m
      BY <2>2, <3>1, <3>2 DEF NoCopies
    <3>4. i \in Int /\ j \in Int
      OBVIOUS
    <3> QED
      BY <3>1, <3>2, <3>3, <3>4
  <2>3. ASSUME NEW b \in Apps, NEW i \in 1..Len(outQueue'[b])
        PROVE  outQueue'[b][i].no[1] = b /\ \A r \in onWire' : r.no # outQueue'[b][i].no
    <3>1. PICK k \in 1..Len(outQueue[b]) :
            outQueue'[b][i] = outQueue[b][k] /\ (b = a => k = i + 1) /\ (b # a => k = i)
      BY <2>1
    <3>2. outQueue[b][k].no[1] = b /\ \A r \in onWire : r.no # outQueue[b][k].no
      BY DEF NoCopies
    <3>3. q.no # outQueue[b][k].no
      <4>1. q.no[1] = a
        BY <1>5 DEF NoCopies, q
      <4>2. CASE b # a
        BY <3>2, <4>1, <4>2
      <4>3. CASE b = a
        <5>1. k # 1
          BY <3>1, <4>3
        <5> QED
          BY <1>5, <4>3, <5>1 DEF NoCopies, q
      <4> QED
        BY <4>2, <4>3
    <3> QED
      BY <1>4, <3>1, <3>2, <3>3
  <2>4. \A r, s \in onWire' : r.no = s.no => r = s
    <3>1. \A r \in onWire : r.no # q.no
      BY <1>5 DEF NoCopies, q
    <3>2. \A r, s \in onWire : r.no = s.no => r = s
      BY DEF NoCopies
    <3> QED
      BY <1>4, <3>1, <3>2
  <2> QED
    BY <2>2, <2>3, <2>4 DEF NoCopies
<1> QED
  BY <1>7, <1>8, <1>10, <1>11

\* A request is dealt with: it is nowhere any more.
LEMMA RequestIsDealt ==
  ASSUME TabletTypes, NoCopies, NEW q \in onWire, outQueue' = outQueue, onWire' = onWire \ {q}
  PROVE  /\ onWire' \in SUBSET TabletReq /\ NoCopies' /\ q \in InFlight
         /\ \A r : r \in InFlight' <=> r \in InFlight /\ r # q
         /\ \A r \in InFlight' : r.no # q.no
<1>1. onWire' \in SUBSET TabletReq
  BY DEF TabletTypes
<1>2. NoCopies'
  BY DEF NoCopies
<1>3. q \in InFlight
  BY FlightIs
<1>4. \A r : r \in InFlight' <=> r \in InFlight /\ r # q
  <2>1. \A r : r \in InFlight' <=> \/ r \in onWire'
                                   \/ \E b \in Apps : \E i \in 1..Len(outQueue[b]) : outQueue[b][i] = r
    BY DEF InFlight, Queued
  <2>2. \A b \in Apps : \A i \in 1..Len(outQueue[b]) : outQueue[b][i] # q
    BY DEF NoCopies
  <2> QED
    BY <2>1, <2>2, FlightIs
<1>5. \A r \in InFlight' : r.no # q.no
  <2> SUFFICES ASSUME NEW r \in InFlight', r.no = q.no PROVE FALSE
    OBVIOUS
  <2>1. r \in InFlight /\ r # q
    BY <1>4
  <2> QED
    BY <1>3, <2>1, FlightsDiffer
<1> QED
  BY <1>1, <1>2, <1>3, <1>4, <1>5

-----------------------------------------------------------------------------
(***************************************************************************)
(* What a step leaves as it was.                                           *)
(***************************************************************************)
\* Transactions keep their start and their writes, and stay committed.
TxsGrow ==
  /\ Len(tabletTx) <= Len(tabletTx')
  /\ \A t \in 1..Len(tabletTx) :
       /\ tabletTx'[t].start = tabletTx[t].start
       /\ Len(tabletTx[t].mods) <= Len(tabletTx'[t].mods)
       /\ \A i \in 1..Len(tabletTx[t].mods) : tabletTx'[t].mods[i] = tabletTx[t].mods[i]
       /\ IsCommitted(t) => IsCommitted(t)'

\* So do the tables of earlier moments.
MomentsStay ==
  /\ Len(commits) <= Len(commits')
  /\ \A ts \in 0..Len(commits) : TableAt(commits', ts) = TableAt(commits, ts)

DeadStay == \A t \in 1..Len(tabletTx) : IsDead(t) => IsDead(t)'

\* What the transactions and the commits are.
LEMMA TabletFacts ==
  ASSUME TabletTypes
  PROVE  /\ Len(tabletTx) \in Nat /\ Len(commits) \in Nat
         /\ DOMAIN tabletTx = 1..Len(tabletTx) /\ DOMAIN commits = 1..Len(commits)
         /\ \A t \in 1..Len(tabletTx) :
              /\ tabletTx[t] \in TxRec /\ tabletTx[t].start \in Nat
              /\ tabletTx[t].mods \in Seq(Entry) /\ Len(tabletTx[t].mods) \in Nat
              /\ DOMAIN tabletTx[t].mods = 1..Len(tabletTx[t].mods)
         /\ \A i \in 1..Len(commits) : commits[i] \in Commit
<1>1. tabletTx \in Seq(TxRec) /\ commits \in Seq(Commit)
  BY DEF TabletTypes
<1>2. ASSUME NEW t \in 1..Len(tabletTx)
      PROVE  /\ tabletTx[t] \in TxRec /\ tabletTx[t].start \in Nat
             /\ tabletTx[t].mods \in Seq(Entry) /\ Len(tabletTx[t].mods) \in Nat
             /\ DOMAIN tabletTx[t].mods = 1..Len(tabletTx[t].mods)
  <2>1. tabletTx[t] \in TxRec
    BY <1>1
  <2>2. tabletTx[t].start \in Nat /\ tabletTx[t].mods \in Seq(Entry)
    BY <2>1 DEF TxRec
  <2> QED
    BY <2>1, <2>2
<1> QED
  BY <1>1, <1>2

\* Nothing of this changes while the cluster rests.
LEMMA ClusterRests ==
  ASSUME TabletTypes, tabletTx' = tabletTx, commits' = commits
  PROVE  TxsGrow /\ MomentsStay
BY TabletFacts DEF TxsGrow, MomentsStay, IsCommitted

\* A write that is there stays there.
LEMMA HoldsStays ==
  ASSUME TabletTypes, TabletTypes', TxsGrow, NEW c, Holds(c)
  PROVE  Holds(c)'
<1>1. c.tx \in 1..Len(tabletTx)
  BY DEF Holds
<1>2. PICK i \in 1..Len(tabletTx[c.tx].mods) :
        tabletTx[c.tx].mods[i] = [no |-> c.no, mod |-> ModifyRequest(c.mod)]
  BY DEF Holds
<1>3. Len(tabletTx) \in Nat /\ Len(tabletTx') \in Nat /\ c.tx \in 1..Len(tabletTx')
  <2>1. Len(tabletTx) \in Nat
    BY TabletFacts
  <2>2. Len(tabletTx') \in Nat
    BY DEF TabletTypes
  <2> QED
    BY <1>1, <2>1, <2>2 DEF TxsGrow
<1>4. i \in 1..Len(tabletTx'[c.tx].mods)
  <2>1. tabletTx'[c.tx] \in TxRec
    BY <1>3 DEF TabletTypes
  <2>2. tabletTx'[c.tx].mods \in Seq(Entry)
    BY <2>1 DEF TxRec
  <2>3. Len(tabletTx'[c.tx].mods) \in Nat /\ Len(tabletTx[c.tx].mods) \in Nat
    BY <1>1, <2>2, TabletFacts
  <2>4. Len(tabletTx[c.tx].mods) <= Len(tabletTx'[c.tx].mods)
    BY <1>1 DEF TxsGrow
  <2> QED
    BY <2>3, <2>4
<1>5. tabletTx'[c.tx].mods[i] = [no |-> c.no, mod |-> ModifyRequest(c.mod)]
  BY <1>1, <1>2 DEF TxsGrow
<1> QED
  BY <1>3, <1>4, <1>5 DEF Holds

\* What is committed stays so.
LEMMA CommittedStays ==
  ASSUME TxsGrow, NEW t, IsCommitted(t)
  PROVE  IsCommitted(t)'
BY DEF TxsGrow, IsCommitted

\* The moments a call may read are moments that were.
LEMMA MomentsAre ==
  ASSUME TabletTypes, CommitsSound, NEW c \in CallRec, c.tx <= Len(tabletTx),
         NEW until \in Nat, until <= Len(commits), NEW ts \in Moments(c, until)
  PROVE  ts \in 0..Len(commits)
<1>1. c.since \in Nat /\ c.tx \in Nat
  BY DEF CallRec
<1>2. CASE c.tx = 0
  BY <1>1, <1>2, TabletFacts DEF Moments
<1>3. CASE c.tx # 0
  <2>1. c.tx \in 1..Len(tabletTx)
    BY <1>1, <1>3, TabletFacts
  <2>2. ts = tabletTx[c.tx].start
    BY <1>3 DEF Moments
  <2>3. tabletTx[c.tx].start \in Nat /\ Len(commits) \in Nat
    BY <2>1, TabletFacts
  <2> QED
    BY <2>1, <2>2, <2>3 DEF CommitsSound
<1> QED
  BY <1>2, <1>3

\* They stay so.
LEMMA MomentsGrow ==
  ASSUME TabletTypes, TxsGrow, NEW c \in CallRec, c.tx <= Len(tabletTx), NEW until \in Nat,
         NEW later \in Nat, until <= later, NEW ts \in Moments(c, until)
  PROVE  ts \in Moments(c, later)'
<1>1. c.since \in Nat /\ c.tx \in Nat
  BY DEF CallRec
<1>2. CASE c.tx = 0
  BY <1>1, <1>2 DEF Moments
<1>3. CASE c.tx # 0
  <2>1. c.tx \in 1..Len(tabletTx)
    BY <1>1, <1>3, TabletFacts
  <2>2. tabletTx'[c.tx].start = tabletTx[c.tx].start
    BY <2>1 DEF TxsGrow
  <2> QED
    BY <1>3, <2>2 DEF Moments
<1> QED
  BY <1>2, <1>3

\* A true answer stays true.
LEMMA AnswerStays ==
  ASSUME TabletTypes, TabletTypes', CommitsSound, TxsGrow, MomentsStay, DeadStay,
         NEW c \in CallRec, c.tx <= Len(tabletTx), NEW p, p.ok \in BOOLEAN, AnswerTrue(p, c)
  PROVE  AnswerTrue(p, c)'
<1>1. Len(tabletTx) \in Nat /\ Len(tabletTx') \in Nat /\ Len(commits) \in Nat /\ Len(commits') \in Nat
  BY DEF TabletTypes
<1>2. p.kind = "start" /\ p.ok => p.tx \in 1..Len(tabletTx')
  BY <1>1 DEF AnswerTrue, TxsGrow
<1>3. p.kind = "modify" /\ p.ok => Holds(c)'
  BY HoldsStays DEF AnswerTrue
<1>4. p.kind = "commit" => IF p.ok THEN IsCommitted(c.tx)' ELSE IsDead(c.tx)'
  <2> SUFFICES ASSUME p.kind = "commit" PROVE IF p.ok THEN IsCommitted(c.tx)' ELSE IsDead(c.tx)'
    OBVIOUS
  <2>1. CASE p.ok
    <3>1. IsCommitted(c.tx)
      BY <2>1 DEF AnswerTrue
    <3> QED
      BY <2>1, <3>1, CommittedStays
  <2>2. CASE ~p.ok
    <3>1. IsDead(c.tx)
      BY <2>2 DEF AnswerTrue
    <3>2. c.tx \in 1..Len(tabletTx)
      BY <3>1 DEF IsDead
    <3> QED
      BY <2>2, <3>1, <3>2 DEF DeadStay
  <2> QED
    BY <2>1, <2>2
<1>5. ASSUME p.kind = "read", p.ok
      PROVE  \E ts \in Moments(c, Len(commits))' :
               p.rows = [i \in DOMAIN c.keys |-> Replied(TableAt(commits', ts)[c.keys[i]])]
  <2>1. PICK ts \in Moments(c, Len(commits)) :
          p.rows = [i \in DOMAIN c.keys |-> Replied(TableAt(commits, ts)[c.keys[i]])]
    BY <1>5 DEF AnswerTrue, AsOf
  <2>2. ts \in 0..Len(commits)
    <3>1. Len(commits) <= Len(commits)
      BY <1>1
    <3> QED
      BY <1>1, <3>1, MomentsAre
  <2>3. TableAt(commits', ts) = TableAt(commits, ts)
    BY <2>2 DEF MomentsStay
  <2>4. ts \in IF c.tx = 0 THEN c.since..Len(commits') ELSE {tabletTx'[c.tx].start}
    <3>1. c.since \in Nat /\ c.tx \in Nat
      BY DEF CallRec
    <3>2. CASE c.tx = 0
      BY <1>1, <2>1, <3>1, <3>2 DEF Moments, MomentsStay
    <3>3. CASE c.tx # 0
      <4>1. c.tx \in 1..Len(tabletTx)
        BY <1>1, <3>1, <3>3
      <4> QED
        BY <2>1, <3>3, <4>1 DEF Moments, TxsGrow
    <3> QED
      BY <3>2, <3>3
  <2> QED
    BY <2>1, <2>3, <2>4 DEF Moments
<1> QED
  BY <1>2, <1>3, <1>4, <1>5 DEF AnswerTrue, AsOf

\* What a call that has returned said stays true.
LEMMA DoneStays ==
  ASSUME TabletTypes, TabletTypes', CommitsSound, TxsGrow, MomentsStay, DeadStay,
         NEW d, DoneOK(d), Confined(d.call) => Confined(d.call)', Gone(d.call)'
  PROVE  DoneOK(d)'
<1> DEFINE c == d.call
<1>1. Len(tabletTx) \in Nat /\ Len(tabletTx') \in Nat /\ Len(commits) \in Nat /\ Len(commits') \in Nat
  BY DEF TabletTypes
<1>2. c \in CallRec /\ c.tx \in Nat
  BY DEF DoneOK, CallRec
<1>3. c.tx <= Len(tabletTx') /\ d.until <= Len(commits') /\ d.until \in Nat
  BY <1>1, <1>2 DEF DoneOK, TxsGrow, MomentsStay
<1>4. Holds(c) => Holds(c)'
  BY HoldsStays
<1>5. IsCommitted(c.tx) => IsCommitted(c.tx)'
  BY CommittedStays
<1>6. IsDead(c.tx) => IsDead(c.tx)'
  BY DEF DeadStay, IsDead
<1>7. ASSUME c.api \in {"read", "lookup"}, d.how = "ok"
      PROVE  \E ts \in Moments(c, d.until)' :
               ts <= Len(commits') /\ Got(d.rows) = [i \in DOMAIN c.keys |-> TableAt(commits', ts)[c.keys[i]]]
  <2>1. PICK ts \in Moments(c, d.until) :
          ts <= Len(commits) /\ Got(d.rows) = [i \in DOMAIN c.keys |-> TableAt(commits, ts)[c.keys[i]]]
    BY <1>7 DEF DoneOK, Expected, AsOf
  <2>2. c.tx <= Len(tabletTx) /\ d.until <= Len(commits)
    BY DEF DoneOK
  <2>3. ts \in 0..Len(commits)
    BY <1>2, <1>3, <2>2, MomentsAre
  <2>4. TableAt(commits', ts) = TableAt(commits, ts) /\ ts <= Len(commits')
    BY <1>1, <2>3 DEF MomentsStay
  <2>5. ts \in Moments(c, d.until)'
    <3>1. d.until <= d.until
      BY <1>3
    <3> QED
      BY <1>2, <1>3, <2>2, <3>1, MomentsGrow
  <2> QED
    BY <2>1, <2>4, <2>5
<1> QED
  BY <1>2, <1>3, <1>4, <1>5, <1>6, <1>7 DEF DoneOK, Expected, AsOf

\* No transaction goes away, and none is committed by the step.
NoneCommitted ==
  \A t \in Nat \ {0} : /\ t \in 1..Len(tabletTx) => t \in 1..Len(tabletTx')
                       /\ IsCommitted(t)' => IsCommitted(t)

\* Tokens that get fewer stay one to a transaction.
LEMMA TokensShrink ==
  ASSUME TabletTypes, TokensSound, NoneCommitted, \A t \in Nat \ {0} : Tokens(t)' \subseteq Tokens(t)
  PROVE  TokensSound' /\ DeadStay
<1>1. ASSUME NEW t \in Nat \ {0}
      PROVE  /\ \A x, y \in Tokens(t)' : x = y
             /\ Tokens(t)' # {} => t \in 1..Len(tabletTx') /\ ~IsCommitted(t)'
  BY DEF TokensSound, NoneCommitted
<1>2. ASSUME NEW t \in 1..Len(tabletTx), IsDead(t) PROVE IsDead(t)'
  <2>1. t \in Nat \ {0}
    OBVIOUS
  <2>2. Tokens(t)' = {}
    BY <1>2, <2>1 DEF IsDead
  <2> QED
    BY <1>2, <2>1, <2>2 DEF IsDead, NoneCommitted
<1> QED
  BY <1>1, <1>2 DEF TokensSound, DeadStay

\* A token that changes hands stays one.
LEMMA TokenMoves ==
  ASSUME TabletTypes, TokensSound, NoneCommitted, NEW u \in Nat \ {0}, NEW x \in Tokens(u), NEW y,
         Tokens(u)' \subseteq (Tokens(u) \ {x}) \cup {y},
         \A t \in Nat \ {0} : t # u => Tokens(t)' \subseteq Tokens(t)
  PROVE  TokensSound' /\ DeadStay
<1>1. u \in 1..Len(tabletTx) /\ ~IsCommitted(u) /\ Tokens(u)' \subseteq {y}
  BY DEF TokensSound
<1>2. ASSUME NEW t \in Nat \ {0}
      PROVE  /\ \A v, w \in Tokens(t)' : v = w
             /\ Tokens(t)' # {} => t \in 1..Len(tabletTx') /\ ~IsCommitted(t)'
  BY <1>1 DEF TokensSound, NoneCommitted
<1>3. ASSUME NEW t \in 1..Len(tabletTx), IsDead(t) PROVE IsDead(t)'
  <2>1. t \in Nat \ {0}
    OBVIOUS
  <2>2. t # u
    BY <1>3 DEF IsDead
  <2>3. Tokens(t)' = {}
    BY <1>3, <2>1, <2>2 DEF IsDead
  <2> QED
    BY <1>3, <2>1, <2>3 DEF IsDead, NoneCommitted
<1> QED
  BY <1>2, <1>3 DEF TokensSound, DeadStay

\* Where nothing is written, what was written stays once.
LEMMA WrittenStays ==
  ASSUME TabletTypes, WrittenOnce, tabletTx' = tabletTx, callNo' \in [Apps -> Nat],
         \A b \in Apps : callNo[b] <= callNo'[b],
         \A r \in InFlight' : r.kind = "modify" =>
           \/ r \in InFlight
           \/ \A t \in 1..Len(tabletTx) : \A i \in 1..Len(tabletTx[t].mods) : r.no # tabletTx[t].mods[i].no
  PROVE  WrittenOnce'
<1>1. ASSUME NEW t \in 1..Len(tabletTx), NEW i \in 1..Len(tabletTx[t].mods), NEW no, no = tabletTx[t].mods[i].no
      PROVE  no[2] <= callNo'[no[1]] /\ \A r \in InFlight' : r.kind = "modify" => r.no # no
  <2>1. no[1] \in Apps /\ no[2] \in Nat
    <3>1. tabletTx[t].mods \in Seq(Entry)
      BY TabletFacts
    <3>2. tabletTx[t].mods[i] \in Entry
      BY <3>1
    <3> QED
      BY <1>1, <3>2 DEF Entry
  <2>2. no[2] <= callNo[no[1]] /\ \A r \in InFlight : r.kind = "modify" => r.no # no
    BY <1>1 DEF WrittenOnce, WrittenBefore
  <2>3. callNo[no[1]] \in Nat /\ callNo'[no[1]] \in Nat /\ callNo[no[1]] <= callNo'[no[1]]
    BY <2>1 DEF TabletTypes
  <2>4. no[2] <= callNo'[no[1]]
    BY <2>1, <2>2, <2>3
  <2> QED
    BY <1>1, <2>2, <2>4
<1>2. \A t, u \in 1..Len(tabletTx) : \A i \in 1..Len(tabletTx[t].mods), j \in 1..Len(tabletTx[u].mods) :
        tabletTx[t].mods[i].no = tabletTx[u].mods[j].no => t = u /\ i = j
  BY DEF WrittenOnce, WrittenApart
<1>3. WrittenApart'
  BY <1>2 DEF WrittenApart
<1>4. WrittenBefore'
  <2> SUFFICES ASSUME NEW t \in 1..Len(tabletTx'), NEW i \in 1..Len(tabletTx'[t].mods)
               PROVE  LET no == tabletTx'[t].mods[i].no
                      IN  no[2] <= callNo'[no[1]] /\ \A r \in InFlight' : r.kind = "modify" => r.no # no
    BY Zenon DEF WrittenBefore
  <2>1. PICK no : no = tabletTx'[t].mods[i].no
    OBVIOUS
  <2>2. t \in 1..Len(tabletTx) /\ i \in 1..Len(tabletTx[t].mods) /\ no = tabletTx[t].mods[i].no
    BY <2>1
  <2>3. no[2] <= callNo'[no[1]] /\ \A r \in InFlight' : r.kind = "modify" => r.no # no
    BY <1>1, <2>2
  <2> QED
    BY <2>1, <2>3, Zenon
<1> QED
  BY <1>3, <1>4 DEF WrittenOnce

\* A call's write stays in its transaction.
LEMMA ConfinedStays ==
  ASSUME tabletTx' = tabletTx, NEW c, Confined(c),
         \A r \in InFlight' : r.kind = "modify" /\ r.no = c.no => r \in InFlight \/ r.tx = c.tx
  PROVE  Confined(c)'
BY DEF Confined

\* The commits stay sound.
LEMMA CommitsRest ==
  ASSUME CommitsSound, tabletTx' = tabletTx, commits' = commits
  PROVE  CommitsSound'
BY DEF CommitsSound, IsCommitted

\* A request stays what it was.
LEMMA RequestStays ==
  ASSUME TabletTypes, TabletTypes', TxsGrow, CallsSound, NEW r \in TabletReq, RequestOK(r),
         callNo[r.no[1]] <= callNo'[r.no[1]],
         apiAt'[r.no[1]] # "idle" /\ apiCall'[r.no[1]].no = r.no =>
           apiAt'[r.no[1]] = apiAt[r.no[1]] /\ apiCall'[r.no[1]] = apiCall[r.no[1]]
  PROVE  RequestOK(r)'
<1> DEFINE a == r.no[1]
<1>1. a \in Apps /\ r.no[2] \in Nat /\ r.tx \in Nat
  BY DEF TabletReq
<1>2. r.no[2] <= callNo'[a]
  <2>1. callNo[a] \in Nat /\ callNo'[a] \in Nat /\ r.no[2] <= callNo[a]
    BY <1>1 DEF TabletTypes, RequestOK
  <2> QED
    BY <1>1, <2>1
<1>3. Len(tabletTx) \in Nat /\ Len(tabletTx') \in Nat
  BY DEF TabletTypes
<1>4. r.kind \notin {"start", "read"} => r.tx \in 1..Len(tabletTx')
  BY <1>3 DEF RequestOK, TxsGrow
<1>5. r.kind = "modify" => r.mod \in WireMods
  BY DEF RequestOK
<1>6. ASSUME NEW c, c = apiCall[a], apiAt'[a] # "idle", apiCall'[a].no = r.no
      PROVE  /\ apiCall'[a] = c
             /\ r.kind = apiAt'[a] /\ r.tx = c.tx
             /\ r.kind = "modify" => r.mod = ModifyRequest(c.mod)
             /\ r.kind = "read" => r.keys = c.keys /\ r.at = IF c.tx = 0 THEN NoRow ELSE tabletTx'[c.tx].start
  <2>1. apiAt'[a] = apiAt[a] /\ apiCall'[a] = c
    BY <1>6
  <2>2. /\ r.kind = apiAt'[a] /\ r.tx = c.tx
        /\ r.kind = "modify" => r.mod = ModifyRequest(c.mod)
        /\ r.kind = "read" => r.keys = c.keys /\ r.at = IF c.tx = 0 THEN NoRow ELSE tabletTx[c.tx].start
    BY <1>6, <2>1 DEF RequestOK, ReadAt
  <2>3. c.tx # 0 => tabletTx'[c.tx].start = tabletTx[c.tx].start
    <3>1. c.tx <= Len(tabletTx) /\ c.tx \in Nat
      BY <1>1, <1>6, <2>1 DEF CallsSound, CallOK, CallRec
    <3> QED
      BY <1>3, <3>1 DEF TxsGrow
  <2> QED
    BY <2>1, <2>2, <2>3
<1> QED
  BY <1>2, <1>4, <1>5, <1>6 DEF RequestOK, ReadAt

\* A call that still waits stays what it was.
LEMMA CallStays ==
  ASSUME TabletTypes, TabletTypes', TxsGrow, MomentsStay, NEW a \in Apps, CallOK(a),
         apiAt'[a] = apiAt[a], apiCall'[a] = apiCall[a], callNo'[a] = callNo[a],
         Confined(apiCall[a]) => Confined(apiCall[a])'
  PROVE  CallOK(a)'
<1>1. PICK c : c = apiCall[a]
  OBVIOUS
<1>2. Len(tabletTx) \in Nat /\ Len(tabletTx') \in Nat /\ Len(commits) \in Nat /\ Len(commits') \in Nat
  BY DEF TabletTypes
<1>3. c \in CallRec /\ c.since \in Nat /\ c.tx \in Nat
  BY <1>1 DEF CallOK, CallRec
<1>4. c.since <= Len(commits') /\ c.tx <= Len(tabletTx')
  BY <1>1, <1>2, <1>3 DEF CallOK, TxsGrow, MomentsStay
<1>5. Holds(c) => Holds(c)'
  BY HoldsStays
<1>6. Holds(apiCall[a]) => Holds(apiCall[a])'
  BY <1>1, <1>5 DEF Holds
<1> QED
  BY <1>1, <1>3, <1>4, <1>6 DEF CallOK

\* An answer that was not read stays what it was.
LEMMA UnreadStays ==
  ASSUME TabletTypes, TabletTypes', CommitsSound, TxsGrow, MomentsStay, DeadStay, CallsSound,
         NEW p, AnswerOK(p), \A r \in InFlight' : r.no # p.no,
         apiAt'[p.no[1]] = apiAt[p.no[1]], apiCall'[p.no[1]] = apiCall[p.no[1]]
  PROVE  AnswerOK(p)'
<1> DEFINE a == p.no[1]
<1>1. PICK c : c = apiCall[a]
  OBVIOUS
<1>2. a \in Apps /\ apiAt[a] = p.kind /\ p.kind \in Kinds /\ p.ok \in BOOLEAN /\ AnswerTrue(p, c)
  BY <1>1 DEF AnswerOK
<1>3. apiAt[a] # "idle"
  BY <1>2 DEF Kinds
<1>4. c \in CallRec /\ c.tx <= Len(tabletTx)
  BY <1>1, <1>2, <1>3 DEF CallsSound, CallOK
<1>5. AnswerTrue(p, c)'
  BY <1>2, <1>4, AnswerStays
<1>6. apiCall'[a] = c
  BY <1>1
<1>7. AnswerTrue(p, apiCall[a])'
  <2>1. p.kind = "start" /\ p.ok => p.tx \in 1..Len(tabletTx')
    BY <1>5 DEF AnswerTrue
  <2>2. p.kind = "modify" /\ p.ok => Holds(apiCall[a])'
    BY <1>5, <1>6 DEF AnswerTrue, Holds
  <2>3. p.kind = "commit" => IF p.ok THEN IsCommitted(apiCall[a].tx)' ELSE IsDead(apiCall[a].tx)'
    BY <1>5, <1>6 DEF AnswerTrue, IsCommitted, IsDead
  <2>4. p.kind = "read" /\ p.ok =>
          \E ts \in Moments(apiCall[a], Len(commits))' :
            p.rows = [i \in DOMAIN apiCall'[a].keys |-> Replied(AsOf(ts)'[apiCall'[a].keys[i]])]
    BY <1>5, <1>6 DEF AnswerTrue, Moments, AsOf
  <2> QED
    BY <2>1, <2>2, <2>3, <2>4 DEF AnswerTrue, AsOf
<1> QED
  BY <1>2, <1>7 DEF AnswerOK

-----------------------------------------------------------------------------
(***************************************************************************)
(* The steps of the programs.                                              *)
(***************************************************************************)
\* The request of a call.
LEMMA RequestIs ==
  ASSUME TabletTypes, NEW call \in CallRec, NEW kind \in Kinds, call.tx <= Len(tabletTx),
         kind = "modify" => call.mod \in Mods
  PROVE  \E q \in TabletReq :
           /\ q = Request(call, kind) /\ q.no = call.no /\ q.kind = kind /\ q.tx = call.tx
           /\ kind = "modify" => q.mod = ModifyRequest(call.mod) /\ q.mod \in WireMods
           /\ kind = "read" => q.keys = call.keys /\ q.at = ReadAt(call)
<1> DEFINE mod == IF kind = "modify" THEN ModifyRequest(call.mod) ELSE NoRow
           keys == IF kind = "read" THEN call.keys ELSE <<>>
           at == IF kind = "read" THEN ReadTimestamp(call) ELSE NoRow
           q == [no |-> call.no, kind |-> kind, tx |-> call.tx, mod |-> mod, keys |-> keys, at |-> at]
<1>1. call.no \in Apps \X Nat /\ call.tx \in Nat /\ call.keys \in Seq(TableKeys)
  BY DEF CallRec
<1>2. mod \in WireMods \cup {NoRow} /\ (kind = "modify" => mod \in WireMods)
  BY DEF WireMods
<1>3. keys \in Seq(TableKeys)
  BY <1>1, EmptySeq
<1>4. ReadTimestamp(call) = ReadAt(call) /\ ReadAt(call) \in Nat \cup {NoRow}
  <2>1. ReadTimestamp(call) = ReadAt(call)
    BY DEF ReadTimestamp, ReadAt
  <2>2. CASE call.tx = 0
    BY <2>1, <2>2 DEF ReadAt
  <2>3. CASE call.tx # 0
    <3>1. call.tx \in 1..Len(tabletTx)
      BY <1>1, <2>3, TabletFacts
    <3>2. tabletTx[call.tx].start \in Nat
      BY <3>1, TabletFacts
    <3> QED
      BY <2>1, <2>3, <3>2 DEF ReadAt
  <2> QED
    BY <2>2, <2>3
<1>5. at \in Nat \cup {NoRow}
  BY <1>4
<1>6. q = Request(call, kind)
  BY DEF Request
<1>7. /\ kind = "modify" => mod = ModifyRequest(call.mod) /\ mod \in WireMods
      /\ kind = "read" => keys = call.keys /\ at = ReadAt(call)
  BY <1>2, <1>4
<1> HIDE DEF mod, keys, at
<1>8. q \in TabletReq
  BY <1>1, <1>2, <1>3, <1>5 DEF TabletReq
<1>9. /\ q.no = call.no /\ q.kind = kind /\ q.tx = call.tx
      /\ q.mod = mod /\ q.keys = keys /\ q.at = at
  OBVIOUS
<1> HIDE DEF q
<1> QED
  BY <1>6, <1>7, <1>8, <1>9

\* A call that was not made yet has no request, write or answer, and has not returned.
LEMMA NotYetMade ==
  ASSUME TabletInv, NEW a \in Apps, NEW no, no = <<a, callNo[a] + 1>>
  PROVE  /\ \A r \in InFlight : r.no # no
         /\ \A t \in 1..Len(tabletTx) : \A i \in 1..Len(tabletTx[t].mods) : no # tabletTx[t].mods[i].no
         /\ \A d \in apiDone : d.call.no # no
<1>1. no[1] = a /\ no[2] = callNo[a] + 1 /\ callNo[a] \in Nat /\ ~(callNo[a] + 1 <= callNo[a])
  BY DEF TabletInv, TabletTypes
<1>2. \A r \in InFlight : r.no # no
  BY <1>1 DEF TabletInv, RequestsSound, RequestOK
<1>3. \A t \in 1..Len(tabletTx) : \A i \in 1..Len(tabletTx[t].mods) : no # tabletTx[t].mods[i].no
  BY <1>1 DEF TabletInv, WrittenOnce, WrittenApart, WrittenBefore
<1>4. \A d \in apiDone : d.call.no # no
  BY <1>1 DEF TabletInv, DoneSound, DoneOK, Gone
<1> QED
  BY <1>2, <1>3, <1>4

\* A program makes a call.
LEMMA BeginsKeeps ==
  ASSUME TabletInv, NEW a \in Apps, NEW call \in CallRec, NEW kind \in Kinds,
         apiAt[a] = "idle", call.no = <<a, callNo[a] + 1>>, call.since = Len(commits),
         call.tx <= Len(tabletTx),
         kind \notin {"start", "read"} => call.tx # 0,
         kind = "modify" => call.mod \in Mods,
         call.api = "alone" => call.mod \in Mods /\ kind = "start" /\ call.tx = 0,
         call.api \in {"start", "modify", "commit"} => kind = call.api,
         call.api \in {"read", "lookup"} => kind = "read",
         \/ kind # "commit" /\ handle' = handle
         \/ call.tx # 0 /\ handle[a] = call.tx /\ handle' = [handle EXCEPT ![a] = 0],
         callNo' = [callNo EXCEPT ![a] = @ + 1], Block(a, call, kind),
         UNCHANGED <<tabletTx, commits, onWire, replies, program, apiDone>>
  PROVE  TabletInv'
<1>0. /\ TabletTypes /\ NoCopies /\ TokensSound /\ WrittenOnce /\ RequestsSound /\ CallsSound
      /\ AnswersSound /\ CommitsSound /\ DoneSound
  BY DEF TabletInv
<1>1. PICK q \in TabletReq :
        /\ q = Request(call, kind) /\ q.no = call.no /\ q.kind = kind /\ q.tx = call.tx
        /\ kind = "modify" => q.mod = ModifyRequest(call.mod) /\ q.mod \in WireMods
        /\ kind = "read" => q.keys = call.keys /\ q.at = ReadAt(call)
  BY <1>0, RequestIs
<1>2. /\ apiAt' = [apiAt EXCEPT ![a] = kind] /\ apiCall' = [apiCall EXCEPT ![a] = call]
      /\ outQueue' = [outQueue EXCEPT ![a] = Append(@, q)]
      /\ tabletTx' = tabletTx /\ commits' = commits /\ onWire' = onWire /\ replies' = replies
      /\ program' = program /\ apiDone' = apiDone
  BY <1>1 DEF Block
<1>3. /\ \A r \in InFlight : r.no # call.no
      /\ \A t \in 1..Len(tabletTx) : \A i \in 1..Len(tabletTx[t].mods) : call.no # tabletTx[t].mods[i].no
      /\ \A d \in apiDone : d.call.no # call.no
  BY NotYetMade
<1>4. call.no[1] = a /\ call.no[2] = callNo[a] + 1 /\ callNo[a] \in Nat
  BY <1>0 DEF TabletTypes
<1>5. /\ outQueue' \in [Apps -> Seq(TabletReq)] /\ NoCopies'
      /\ \A r : r \in InFlight' <=> r \in InFlight \/ r = q
  <2>1. q.no[1] = a /\ \A r \in InFlight : r.no # q.no
    BY <1>1, <1>3, <1>4
  <2> QED
    BY <1>0, <1>2, <2>1, RequestJoins
<1>6. apiAt \in [Apps -> Kinds \cup {"idle"}] /\ apiCall \in [Apps -> CallRec \cup {NoRow}] /\ callNo \in [Apps -> Nat]
      /\ handle \in [Apps -> Nat]
  BY <1>0 DEF TabletTypes
<1>7. /\ apiAt'[a] = kind /\ apiCall'[a] = call /\ callNo'[a] = callNo[a] + 1
      /\ \A b \in Apps : b # a => apiAt'[b] = apiAt[b] /\ apiCall'[b] = apiCall[b] /\ callNo'[b] = callNo[b]
      /\ callNo' \in [Apps -> Nat] /\ \A b \in Apps : callNo[b] <= callNo'[b]
  BY <1>2, <1>6
<1>8. handle' \in [Apps -> Nat] /\ \A b \in Apps : handle'[b] = handle[b] \/ handle'[b] = 0
  BY <1>6
<1>9. TabletTypes'
  <2>1. \A b \in Apps : handle'[b] <= Len(tabletTx)
    BY <1>0, <1>8, TabletFacts DEF TabletTypes
  <2>2. apiAt' \in [Apps -> Kinds \cup {"idle"}] /\ apiCall' \in [Apps -> CallRec \cup {NoRow}]
    BY <1>2, <1>6
  <2> QED
    BY <1>0, <1>2, <1>5, <1>7, <1>8, <2>1, <2>2 DEF TabletTypes
<1>10. TxsGrow /\ MomentsStay /\ NoneCommitted
  <2>1. TxsGrow /\ MomentsStay
    BY <1>0, <1>2, ClusterRests
  <2> QED
    BY <1>2, <2>1 DEF NoneCommitted, IsCommitted
<1>11. ASSUME NEW t \in Nat \ {0}
       PROVE  /\ StartTokens(t)' = StartTokens(t) /\ WriteTokens(t)' \subseteq WriteTokens(t)
              /\ CommitTokens(t)' \subseteq CommitTokens(t) \cup
                   (IF kind = "commit" /\ t = call.tx THEN {<<"commit", call.no>>} ELSE {})
  <2>1. StartTokens(t)' = StartTokens(t)
    BY <1>2 DEF StartTokens
  <2>2. WriteTokens(t)' \subseteq WriteTokens(t)
    <3>1. \A b \in Apps : (apiAt'[b] = "modify" /\ apiCall'[b].api = "alone" /\ apiCall'[b].tx = t)
                            => (apiAt[b] = "modify" /\ apiCall[b].api = "alone" /\ apiCall[b].tx = t)
      BY <1>7
    <3> QED
      BY <3>1 DEF WriteTokens
  <2>3. CommitTokens(t)' \subseteq CommitTokens(t) \cup
          (IF kind = "commit" /\ t = call.tx THEN {<<"commit", call.no>>} ELSE {})
    BY <1>1, <1>5 DEF CommitTokens
  <2> QED
    BY <2>1, <2>2, <2>3
<1>12. TokensSound' /\ DeadStay
  <2>1. CASE kind # "commit"
    <3>1. \A t \in Nat \ {0} : HandleTokens(t)' \subseteq HandleTokens(t)
      BY <1>6, <1>8 DEF HandleTokens
    <3>2. \A t \in Nat \ {0} : Tokens(t)' \subseteq Tokens(t)
      BY <1>11, <2>1, <3>1 DEF Tokens
    <3> QED
      BY <1>0, <1>10, <3>2, TokensShrink
  <2>2. CASE kind = "commit"
    <3> DEFINE x == <<"handle", a>>
               y == <<"commit", call.no>>
               u == call.tx
    <3>1. u \in Nat \ {0} /\ handle[a] = u /\ handle' = [handle EXCEPT ![a] = 0]
      BY <2>2 DEF CallRec
    <3>2. x \in Tokens(u)
      BY <3>1 DEF Tokens, HandleTokens
    <3>3. \A t \in Nat \ {0} : HandleTokens(t)' \subseteq HandleTokens(t)
      BY <1>8 DEF HandleTokens
    <3>4. HandleTokens(u)' \subseteq HandleTokens(u) \ {x}
      BY <1>6, <3>1 DEF HandleTokens
    <3>5. \A t \in Nat \ {0} : t # u => Tokens(t)' \subseteq Tokens(t)
      BY <1>11, <3>3 DEF Tokens
    <3>6. Tokens(u)' \subseteq (Tokens(u) \ {x}) \cup {y}
      <4>1. x \notin StartTokens(u) /\ x \notin WriteTokens(u) /\ x \notin CommitTokens(u)
        BY DEF StartTokens, WriteTokens, CommitTokens
      <4> HIDE DEF x, y
      <4>2. CommitTokens(u)' \subseteq CommitTokens(u) \cup {y}
        BY <1>11, <2>2, <3>1 DEF y
      <4>3. StartTokens(u)' = StartTokens(u) /\ WriteTokens(u)' \subseteq WriteTokens(u)
        BY <1>11, <3>1
      <4> QED
        BY <3>4, <4>1, <4>2, <4>3 DEF Tokens
    <3> HIDE DEF x, y, u
    <3> QED
      BY <1>0, <1>10, <3>1, <3>2, <3>5, <3>6, TokenMoves
  <2> QED
    BY <2>1, <2>2
<1>13. WrittenOnce'
  <2>1. \A r \in InFlight' : r.kind = "modify" =>
           \/ r \in InFlight
           \/ \A t \in 1..Len(tabletTx) : \A i \in 1..Len(tabletTx[t].mods) : r.no # tabletTx[t].mods[i].no
    BY <1>1, <1>3, <1>5
  <2> QED
    BY <1>0, <1>2, <1>7, <2>1, WrittenStays
<1>14. RequestsSound'
  <2>1. ASSUME NEW r \in InFlight PROVE RequestOK(r)'
    <3>1. r \in TabletReq /\ RequestOK(r)
      BY <1>0, FlightsAreRequests DEF RequestsSound
    <3>2. r.no[1] \in Apps /\ r.no # call.no
      BY <1>3, <3>1 DEF TabletReq
    <3>3. apiAt'[r.no[1]] # "idle" /\ apiCall'[r.no[1]].no = r.no =>
           apiAt'[r.no[1]] = apiAt[r.no[1]] /\ apiCall'[r.no[1]] = apiCall[r.no[1]]
      BY <1>7, <3>2
    <3> QED
      BY <1>0, <1>7, <1>9, <1>10, <3>1, <3>2, <3>3, RequestStays
  <2>2. RequestOK(q)'
    <3>1. q.no[1] = a /\ q.no[2] <= callNo'[a]
      BY <1>1, <1>4, <1>7
    <3>2. q.kind \notin {"start", "read"} => q.tx \in 1..Len(tabletTx)
      <4>1. call.tx \in Nat /\ Len(tabletTx) \in Nat
        BY <1>0, TabletFacts DEF CallRec
      <4> QED
        BY <1>1, <4>1
    <3>3. ReadAt(call)' = ReadAt(call)
      BY <1>2 DEF ReadAt
    <3>4. ReadAt(apiCall[a])' = ReadAt(call)'
      BY <1>7 DEF ReadAt
    <3> QED
      BY <1>1, <1>2, <1>7, <3>1, <3>2, <3>3, <3>4 DEF RequestOK
  <2> QED
    BY <1>5, <2>1, <2>2 DEF RequestsSound
<1>15. CallsSound'
  <2>1. ASSUME NEW b \in Apps, b # a, apiAt'[b] # "idle" PROVE CallOK(b)'
    <3>1. CallOK(b)
      BY <1>0, <1>7, <2>1 DEF CallsSound
    <3>2. PICK c : c = apiCall[b]
      OBVIOUS
    <3>3. c.no[1] = b
      BY <3>1, <3>2 DEF CallOK
    <3>4. \A r \in InFlight' : r.kind = "modify" /\ r.no = c.no => r \in InFlight \/ r.tx = c.tx
      BY <1>1, <1>4, <1>5, <2>1, <3>3
    <3>5. Confined(c) => Confined(c)'
      BY <1>2, <3>4, ConfinedStays
    <3>6. Confined(apiCall[b]) => Confined(apiCall[b])'
      BY <1>7, <2>1, <3>2, <3>5 DEF Confined
    <3> QED
      BY <1>0, <1>7, <1>9, <1>10, <2>1, <3>1, <3>6, CallStays
  <2>2. CallOK(a)'
    <3>1. Confined(call)'
      <4>1. \A t \in 1..Len(tabletTx') : \A i \in 1..Len(tabletTx'[t].mods) : tabletTx'[t].mods[i].no # call.no
        <5> SUFFICES ASSUME NEW t \in 1..Len(tabletTx'), NEW i \in 1..Len(tabletTx'[t].mods)
                     PROVE  tabletTx'[t].mods[i].no # call.no
          OBVIOUS
        <5>1. tabletTx' = tabletTx
          BY <1>2
        <5>2. t \in 1..Len(tabletTx) /\ i \in 1..Len(tabletTx[t].mods)
          BY <5>1
        <5>3. call.no # tabletTx[t].mods[i].no
          BY <1>3, <5>2
        <5> QED
          BY <5>1, <5>3
      <4>2. \A r \in InFlight' : r.no = call.no => r.tx = call.tx
        BY <1>1, <1>3, <1>5
      <4> QED
        BY <4>1, <4>2 DEF Confined
    <3>2. Confined(apiCall[a])'
      BY <1>7, <3>1 DEF Confined
    <3>3. call.since <= Len(commits) /\ call.tx \in Nat
      BY <1>0, TabletFacts DEF CallRec
    <3> QED
      BY <1>2, <1>4, <1>7, <3>2, <3>3 DEF CallOK
  <2> QED
    BY <2>1, <2>2 DEF CallsSound
<1>16. AnswersSound'
  <2>1. ASSUME NEW p \in replies PROVE AnswerOK(p)'
    <3>1. AnswerOK(p)
      BY <1>0 DEF AnswersSound
    <3>2. p.no[1] \in Apps /\ p.no[1] # a /\ \A r \in InFlight : r.no # p.no
      BY <3>1 DEF AnswerOK, Kinds
    <3>3. \A r \in InFlight' : r.no # p.no
      BY <1>1, <1>4, <1>5, <3>2
    <3> QED
      BY <1>0, <1>7, <1>9, <1>10, <1>12, <3>1, <3>2, <3>3, UnreadStays
  <2> QED
    BY <1>0, <1>2, <2>1 DEF AnswersSound
<1>17. CommitsSound'
  BY <1>0, <1>2, CommitsRest
<1>18. DoneSound'
  <2>1. ASSUME NEW d \in apiDone PROVE DoneOK(d)'
    <3>1. DoneOK(d)
      BY <1>0 DEF DoneSound
    <3>2. d.call.no[1] \in Apps /\ d.call.no[2] \in Nat /\ Gone(d.call)
      BY <3>1 DEF DoneOK, CallRec
    <3>3. Gone(d.call)'
      <4>1. CASE d.call.no[1] = a
        BY <1>4, <1>7, <3>2, <4>1 DEF Gone
      <4>2. CASE d.call.no[1] # a
        BY <1>7, <3>2, <4>2 DEF Gone
      <4> QED
        BY <4>1, <4>2
    <3>4. \A r \in InFlight' : r.kind = "modify" /\ r.no = d.call.no => r \in InFlight \/ r.tx = d.call.tx
      BY <1>1, <1>3, <1>5
    <3>5. Confined(d.call) => Confined(d.call)'
      BY <1>2, <3>4, ConfinedStays
    <3> QED
      BY <1>0, <1>9, <1>10, <1>12, <3>1, <3>3, <3>5, DoneStays
  <2> QED
    BY <1>2, <2>1 DEF DoneSound
<1> QED
  BY <1>5, <1>9, <1>12, <1>13, <1>14, <1>15, <1>16, <1>17, <1>18 DEF TabletInv

\* Nothing but a handle is given up, a call that needs no request is made, or a
\* request is on its way.
LEMMA QuietKeeps ==
  ASSUME TabletInv, TabletTypes', NoCopies', \A r : r \in InFlight' <=> r \in InFlight,
         UNCHANGED <<tabletTx, commits, replies, apiAt, apiCall, apiDone>>,
         \A b \in Apps : callNo[b] <= callNo'[b] /\ (apiAt[b] # "idle" => callNo'[b] = callNo[b]),
         \A b \in Apps : handle'[b] = handle[b] \/ handle'[b] = 0
  PROVE  TabletInv'
<1>0. /\ TabletTypes /\ NoCopies /\ TokensSound /\ WrittenOnce /\ RequestsSound /\ CallsSound
      /\ AnswersSound /\ CommitsSound /\ DoneSound
  BY DEF TabletInv
<1>1. tabletTx' = tabletTx /\ commits' = commits /\ replies' = replies /\ apiAt' = apiAt
      /\ apiCall' = apiCall /\ apiDone' = apiDone
  OBVIOUS
<1>2. callNo \in [Apps -> Nat] /\ callNo' \in [Apps -> Nat]
  BY <1>0 DEF TabletTypes
<1>3. TxsGrow /\ MomentsStay /\ NoneCommitted
  <2>1. TxsGrow /\ MomentsStay
    BY <1>0, <1>1, ClusterRests
  <2> QED
    BY <1>1, <2>1 DEF NoneCommitted, IsCommitted
<1>4. TokensSound' /\ DeadStay
  <2>1. ASSUME NEW t \in Nat \ {0} PROVE Tokens(t)' \subseteq Tokens(t)
    <3>1. StartTokens(t)' = StartTokens(t) /\ WriteTokens(t)' = WriteTokens(t)
      BY <1>1 DEF StartTokens, WriteTokens
    <3>2. HandleTokens(t)' \subseteq HandleTokens(t)
      BY DEF HandleTokens
    <3>3. CommitTokens(t)' \subseteq CommitTokens(t)
      BY DEF CommitTokens
    <3> QED
      BY <3>1, <3>2, <3>3 DEF Tokens
  <2> QED
    BY <1>0, <1>3, <2>1, TokensShrink
<1>5. WrittenOnce'
  BY <1>0, <1>1, <1>2, WrittenStays
<1>6. RequestsSound'
  <2>1. ASSUME NEW r \in InFlight PROVE RequestOK(r)'
    <3>1. r \in TabletReq /\ RequestOK(r)
      BY <1>0, FlightsAreRequests DEF RequestsSound
    <3>2. r.no[1] \in Apps
      BY <3>1 DEF TabletReq
    <3> QED
      BY <1>0, <1>1, <1>3, <3>1, <3>2, RequestStays
  <2> QED
    BY <2>1 DEF RequestsSound
<1>7. \A c : Confined(c) => Confined(c)'
  BY <1>1 DEF Confined
<1>8. CallsSound'
  <2>1. ASSUME NEW b \in Apps, apiAt'[b] # "idle" PROVE CallOK(b)'
    <3>1. CallOK(b) /\ callNo'[b] = callNo[b]
      BY <1>0, <1>1, <2>1 DEF CallsSound
    <3>2. PICK c : c = apiCall[b]
      OBVIOUS
    <3>3. Confined(c) => Confined(c)'
      BY <1>7
    <3>4. Confined(apiCall[b]) => Confined(apiCall[b])'
      BY <1>1, <3>2, <3>3 DEF Confined
    <3> QED
      BY <1>0, <1>1, <1>3, <3>1, <3>4, CallStays
  <2> QED
    BY <2>1 DEF CallsSound
<1>9. AnswersSound'
  <2>1. ASSUME NEW p \in replies PROVE AnswerOK(p)'
    <3>1. AnswerOK(p)
      BY <1>0 DEF AnswersSound
    <3>2. \A r \in InFlight' : r.no # p.no
      BY <3>1 DEF AnswerOK
    <3> QED
      BY <1>0, <1>1, <1>3, <1>4, <3>1, <3>2, UnreadStays
  <2> QED
    BY <1>0, <1>1, <2>1 DEF AnswersSound
<1>10. CommitsSound'
  BY <1>0, <1>1, CommitsRest
<1>11. DoneSound'
  <2>1. ASSUME NEW d \in apiDone PROVE DoneOK(d)'
    <3>1. DoneOK(d)
      BY <1>0 DEF DoneSound
    <3>2. d.call.no[1] \in Apps /\ d.call.no[2] \in Nat /\ Gone(d.call)
      BY <3>1 DEF DoneOK, CallRec
    <3>3. Gone(d.call)'
      <4>1. callNo[d.call.no[1]] \in Nat /\ callNo'[d.call.no[1]] \in Nat
        BY <1>2, <3>2
      <4> QED
        BY <1>1, <3>2, <4>1 DEF Gone
    <3> QED
      BY <1>0, <1>3, <1>4, <1>7, <3>1, <3>3, DoneStays
  <2> QED
    BY <1>1, <2>1 DEF DoneSound
<1> QED
  BY <1>4, <1>5, <1>6, <1>8, <1>9, <1>10, <1>11 DEF TabletInv

\* A write goes on to its next request.
LEMMA GoesOnKeeps ==
  ASSUME TabletInv, NEW a \in Apps, NEW p \in replies, NEW c, NEW call, NEW kind,
         c = apiCall[a], p.no = c.no, p.kind = apiAt[a], p.ok, c.api = "alone", apiAt[a] # "idle",
         \/ p.kind = "start" /\ call = [c EXCEPT !.tx = p.tx] /\ kind = "modify"
         \/ p.kind = "modify" /\ call = c /\ kind = "commit",
         Block(a, call, kind), replies' = replies \ {p},
         UNCHANGED <<tabletTx, commits, onWire, handle, program, callNo, apiDone>>
  PROVE  TabletInv'
<1>0. /\ TabletTypes /\ NoCopies /\ TokensSound /\ WrittenOnce /\ RequestsSound /\ CallsSound
      /\ AnswersSound /\ CommitsSound /\ DoneSound
  BY DEF TabletInv
<1>1. /\ c \in CallRec /\ c.no = <<a, callNo[a]>> /\ c.since <= Len(commits) /\ c.tx <= Len(tabletTx)
      /\ c.mod \in Mods /\ Confined(c) /\ (c.tx = 0 <=> p.kind = "start")
  BY <1>0 DEF CallsSound, CallOK, Confined
<1>2. /\ \A r \in InFlight : r.no # c.no
      /\ p.kind = "start" => p.tx \in 1..Len(tabletTx)
      /\ p.kind = "modify" => Holds(c)
  <2>1. AnswerOK(p)
    BY <1>0 DEF AnswersSound
  <2>2. p.no[1] = a
    BY <1>1
  <2> QED
    BY <2>1, <2>2 DEF AnswerOK, AnswerTrue, Holds
<1>3. Len(tabletTx) \in Nat /\ Len(commits) \in Nat /\ c.tx \in Nat
  BY <1>0, <1>1, TabletFacts DEF CallRec
<1>4. /\ call \in CallRec /\ call.no = c.no /\ call.since = c.since /\ call.mod = c.mod /\ call.api = "alone"
      /\ call.tx \in 1..Len(tabletTx) /\ call.tx \in Nat \ {0}
      /\ p.kind = "start" => call.tx = p.tx
      /\ p.kind = "modify" => call = c
  <2>1. CASE p.kind = "start" /\ call = [c EXCEPT !.tx = p.tx]
    <3>1. p.tx \in 1..Len(tabletTx) /\ p.tx \in Nat \ {0}
      BY <1>2, <1>3, <2>1
    <3> QED
      BY <1>1, <2>1, <3>1 DEF CallRec
  <2>2. CASE p.kind = "modify" /\ call = c
    BY <1>1, <1>3, <2>2
  <2> QED
    BY <2>1, <2>2
<1>5. kind \in Kinds /\ kind \in {"modify", "commit"} /\ (kind = "modify" <=> p.kind = "start")
  BY DEF Kinds
<1>6. PICK q \in TabletReq :
        /\ q = Request(call, kind) /\ q.no = call.no /\ q.kind = kind /\ q.tx = call.tx
        /\ kind = "modify" => q.mod = ModifyRequest(call.mod) /\ q.mod \in WireMods
        /\ kind = "read" => q.keys = call.keys /\ q.at = ReadAt(call)
  <2>1. call.tx <= Len(tabletTx) /\ call.mod \in Mods
    BY <1>1, <1>3, <1>4
  <2> QED
    BY <1>0, <1>4, <1>5, <2>1, RequestIs
<1>7. /\ apiAt' = [apiAt EXCEPT ![a] = kind] /\ apiCall' = [apiCall EXCEPT ![a] = call]
      /\ outQueue' = [outQueue EXCEPT ![a] = Append(@, q)]
      /\ tabletTx' = tabletTx /\ commits' = commits /\ onWire' = onWire /\ handle' = handle
      /\ program' = program /\ apiDone' = apiDone /\ callNo' = callNo
  BY <1>6 DEF Block
<1>8. /\ outQueue' \in [Apps -> Seq(TabletReq)] /\ NoCopies'
      /\ \A r : r \in InFlight' <=> r \in InFlight \/ r = q
  <2>1. q.no[1] = a /\ \A r \in InFlight : r.no # q.no
    BY <1>1, <1>2, <1>4, <1>6
  <2> QED
    BY <1>0, <1>7, <2>1, RequestJoins
<1>9. apiAt \in [Apps -> Kinds \cup {"idle"}] /\ apiCall \in [Apps -> CallRec \cup {NoRow}] /\ callNo \in [Apps -> Nat]
  BY <1>0 DEF TabletTypes
<1>10. /\ apiAt'[a] = kind /\ apiCall'[a] = call
       /\ \A b \in Apps : b # a => apiAt'[b] = apiAt[b] /\ apiCall'[b] = apiCall[b]
  BY <1>7, <1>9
<1>11. TabletTypes'
  <2>1. apiAt' \in [Apps -> Kinds \cup {"idle"}] /\ apiCall' \in [Apps -> CallRec \cup {NoRow}]
    BY <1>4, <1>5, <1>7, <1>9
  <2> QED
    BY <1>0, <1>7, <1>8, <2>1 DEF TabletTypes
<1>12. TxsGrow /\ MomentsStay /\ NoneCommitted
  <2>1. TxsGrow /\ MomentsStay
    BY <1>0, <1>7, ClusterRests
  <2> QED
    BY <1>7, <2>1 DEF NoneCommitted, IsCommitted
<1>13. \A o \in replies : o # p => o.no # p.no
  BY <1>0 DEF AnswersSound
<1>14. TokensSound' /\ DeadStay
  <2> DEFINE x == IF p.kind = "start" THEN <<"start", p.no>> ELSE <<"write", a>>
             y == IF p.kind = "start" THEN <<"write", a>> ELSE <<"commit", c.no>>
             u == call.tx
  <2>1. u \in Nat \ {0}
    BY <1>4
  <2>2. ASSUME NEW t \in Nat \ {0}
        PROVE  /\ HandleTokens(t)' = HandleTokens(t)
               /\ StartTokens(t)' \subseteq StartTokens(t)
               /\ p.kind = "start" => <<"start", p.no>> \notin StartTokens(t)'
    BY <1>7, <1>13 DEF HandleTokens, StartTokens
  <2>3. CASE p.kind = "start"
    <3>1. x \in Tokens(u)
      BY <1>4, <2>3 DEF Tokens, StartTokens
    <3>2. ASSUME NEW t \in Nat \ {0}
          PROVE  /\ WriteTokens(t)' \subseteq WriteTokens(t) \cup (IF t = u THEN {y} ELSE {})
                 /\ CommitTokens(t)' \subseteq CommitTokens(t)
      <4>1. CommitTokens(t)' \subseteq CommitTokens(t)
        BY <1>5, <1>6, <1>8, <2>3 DEF CommitTokens
      <4>2. WriteTokens(t)' \subseteq WriteTokens(t) \cup (IF t = u THEN {y} ELSE {})
        BY <1>10, <2>3 DEF WriteTokens
      <4> QED
        BY <4>1, <4>2
    <3>3. \A t \in Nat \ {0} : t # u => Tokens(t)' \subseteq Tokens(t)
      BY <2>2, <3>2 DEF Tokens
    <3>4. Tokens(u)' \subseteq (Tokens(u) \ {x}) \cup {y}
      <4>1. x \notin HandleTokens(u) /\ x \notin WriteTokens(u) /\ x \notin CommitTokens(u)
            /\ x \notin StartTokens(u)'
        BY <2>1, <2>2, <2>3 DEF HandleTokens, WriteTokens, CommitTokens
      <4> HIDE DEF x, y, u
      <4>2. /\ HandleTokens(u)' = HandleTokens(u) /\ StartTokens(u)' \subseteq StartTokens(u)
            /\ WriteTokens(u)' \subseteq WriteTokens(u) \cup {y} /\ CommitTokens(u)' \subseteq CommitTokens(u)
        BY <2>1, <2>2, <3>2 DEF u
      <4> QED
        BY <4>1, <4>2 DEF Tokens
    <3> HIDE DEF x, y, u
    <3> QED
      BY <1>0, <1>12, <2>1, <3>1, <3>3, <3>4, TokenMoves
  <2>4. CASE p.kind = "modify"
    <3>1. x \in Tokens(u)
      BY <1>4, <2>4 DEF Tokens, WriteTokens
    <3>2. ASSUME NEW t \in Nat \ {0}
          PROVE  /\ WriteTokens(t)' \subseteq WriteTokens(t) \ {<<"write", a>>}
                 /\ CommitTokens(t)' \subseteq CommitTokens(t) \cup (IF t = u THEN {y} ELSE {})
      <4>1. CommitTokens(t)' \subseteq CommitTokens(t) \cup (IF t = u THEN {y} ELSE {})
        BY <1>4, <1>5, <1>6, <1>8, <2>4 DEF CommitTokens
      <4>2. kind # "modify"
        BY <1>5, <2>4
      <4>3. WriteTokens(t)' \subseteq WriteTokens(t) \ {<<"write", a>>}
        BY <1>10, <4>2 DEF WriteTokens
      <4> QED
        BY <4>1, <4>3
    <3>3. \A t \in Nat \ {0} : t # u => Tokens(t)' \subseteq Tokens(t)
      BY <2>2, <3>2 DEF Tokens
    <3>4. Tokens(u)' \subseteq (Tokens(u) \ {x}) \cup {y}
      <4>1. x = <<"write", a>> /\ x \notin HandleTokens(u) /\ x \notin StartTokens(u) /\ x \notin CommitTokens(u)
        BY <2>4 DEF HandleTokens, StartTokens, CommitTokens
      <4>2. x \notin WriteTokens(u)'
        BY <2>1, <3>2, <4>1
      <4> HIDE DEF x, y, u
      <4>3. /\ HandleTokens(u)' = HandleTokens(u) /\ StartTokens(u)' \subseteq StartTokens(u)
            /\ WriteTokens(u)' \subseteq WriteTokens(u) /\ CommitTokens(u)' \subseteq CommitTokens(u) \cup {y}
        BY <2>1, <2>2, <3>2 DEF u
      <4> QED
        BY <4>1, <4>2, <4>3 DEF Tokens
    <3> HIDE DEF x, y, u
    <3> QED
      BY <1>0, <1>12, <2>1, <3>1, <3>3, <3>4, TokenMoves
  <2> QED
    BY <2>3, <2>4
<1>15. p.kind = "start" =>
         \A t \in 1..Len(tabletTx) : \A i \in 1..Len(tabletTx[t].mods) : tabletTx[t].mods[i].no # c.no
  <2>1. \A t \in 1..Len(tabletTx) : t # 0
    OBVIOUS
  <2> QED
    BY <1>1, <2>1 DEF Confined
<1>16. WrittenOnce'
  <2>1. \A r \in InFlight' : r.kind = "modify" =>
           \/ r \in InFlight
           \/ \A t \in 1..Len(tabletTx) : \A i \in 1..Len(tabletTx[t].mods) : r.no # tabletTx[t].mods[i].no
    BY <1>4, <1>5, <1>6, <1>8, <1>15
  <2>2. \A b \in Apps : callNo[b] <= callNo'[b]
    BY <1>7, <1>9
  <2>3. callNo' \in [Apps -> Nat]
    BY <1>7, <1>9
  <2> QED
    BY <1>0, <1>7, <2>1, <2>2, <2>3, WrittenStays
<1>17. RequestsSound'
  <2>1. ASSUME NEW r \in InFlight PROVE RequestOK(r)'
    <3>1. r \in TabletReq /\ RequestOK(r)
      BY <1>0, FlightsAreRequests DEF RequestsSound
    <3>2. r.no[1] \in Apps /\ r.no # c.no
      BY <1>2, <3>1 DEF TabletReq
    <3>3. apiAt'[r.no[1]] # "idle" /\ apiCall'[r.no[1]].no = r.no =>
           apiAt'[r.no[1]] = apiAt[r.no[1]] /\ apiCall'[r.no[1]] = apiCall[r.no[1]]
      BY <1>4, <1>10, <3>2
    <3>4. callNo[r.no[1]] <= callNo'[r.no[1]]
      BY <1>7, <1>9, <3>2
    <3> QED
      BY <1>0, <1>11, <1>12, <3>1, <3>3, <3>4, RequestStays
  <2>2. RequestOK(q)'
    <3>1. q.no[1] = a /\ q.no[2] <= callNo'[a]
      BY <1>1, <1>4, <1>6, <1>7, <1>9
    <3>2. q.tx \in 1..Len(tabletTx)
      BY <1>4, <1>6
    <3>3. q.kind # "read"
      BY <1>5, <1>6
    <3> QED
      BY <1>6, <1>7, <1>10, <3>1, <3>2, <3>3 DEF RequestOK
  <2> QED
    BY <1>8, <2>1, <2>2 DEF RequestsSound
<1>18. CallsSound'
  <2>1. ASSUME NEW b \in Apps, b # a, apiAt'[b] # "idle" PROVE CallOK(b)'
    <3>1. CallOK(b)
      BY <1>0, <1>10, <2>1 DEF CallsSound
    <3>2. PICK e : e = apiCall[b]
      OBVIOUS
    <3>3. e.no[1] = b
      BY <3>1, <3>2 DEF CallOK
    <3>4. \A r \in InFlight' : r.kind = "modify" /\ r.no = e.no => r \in InFlight \/ r.tx = e.tx
      BY <1>1, <1>4, <1>6, <1>8, <2>1, <3>3
    <3>5. Confined(e) => Confined(e)'
      BY <1>7, <3>4, ConfinedStays
    <3>6. Confined(apiCall[b]) => Confined(apiCall[b])'
      BY <1>10, <2>1, <3>2, <3>5 DEF Confined
    <3>7. callNo'[b] = callNo[b]
      BY <1>7
    <3> QED
      BY <1>0, <1>10, <1>11, <1>12, <2>1, <3>1, <3>6, <3>7, CallStays
  <2>2. CallOK(a)'
    <3>1. Confined(call)'
      <4>1. \A t \in 1..Len(tabletTx') : \A i \in 1..Len(tabletTx'[t].mods) :
              tabletTx'[t].mods[i].no = call.no => t = call.tx
        <5>1. CASE p.kind = "start"
          BY <1>4, <1>7, <1>15, <5>1
        <5>2. CASE p.kind = "modify"
          BY <1>1, <1>4, <1>7, <5>2 DEF Confined
        <5> QED
          BY <5>1, <5>2
      <4>2. \A r \in InFlight' : r.no = call.no => r.tx = call.tx
        BY <1>2, <1>4, <1>6, <1>8
      <4> QED
        BY <4>1, <4>2 DEF Confined
    <3>2. Confined(apiCall[a])'
      BY <1>10, <3>1 DEF Confined
    <3>3. kind = "commit" => Holds(apiCall[a])'
      <4>1. kind = "commit" => Holds(c)' /\ call = c
        BY <1>0, <1>2, <1>4, <1>11, <1>12, HoldsStays
      <4> QED
        BY <1>10, <4>1 DEF Holds
    <3>4. call.since <= Len(commits') /\ call.tx <= Len(tabletTx') /\ call.tx # 0
      BY <1>1, <1>3, <1>4, <1>7
    <3> QED
      BY <1>1, <1>4, <1>5, <1>7, <1>10, <3>2, <3>3, <3>4 DEF CallOK
  <2> QED
    BY <2>1, <2>2 DEF CallsSound
<1>19. AnswersSound'
  <2>1. ASSUME NEW o \in replies, o # p PROVE AnswerOK(o)'
    <3>1. AnswerOK(o) /\ o.no # p.no
      BY <1>0, <1>13, <2>1 DEF AnswersSound
    <3>2. o.no[1] \in Apps /\ o.no[1] # a /\ \A r \in InFlight : r.no # o.no
      BY <3>1 DEF AnswerOK
    <3>3. \A r \in InFlight' : r.no # o.no
      BY <1>4, <1>6, <1>8, <3>1, <3>2
    <3> QED
      BY <1>0, <1>10, <1>11, <1>12, <1>14, <3>1, <3>2, <3>3, UnreadStays
  <2> QED
    BY <1>0, <2>1 DEF AnswersSound
<1>20. CommitsSound'
  BY <1>0, <1>7, CommitsRest
<1>21. DoneSound'
  <2>1. ASSUME NEW d \in apiDone PROVE DoneOK(d)'
    <3>1. DoneOK(d)
      BY <1>0 DEF DoneSound
    <3>2. d.call.no[1] \in Apps /\ d.call.no[2] \in Nat /\ Gone(d.call)
      BY <3>1 DEF DoneOK, CallRec
    <3>3. Gone(d.call)'
      BY <1>7, <1>10, <3>2 DEF Gone
    <3>4. d.call.no # c.no
      BY <1>1, <1>9, <3>2 DEF Gone
    <3>5. \A r \in InFlight' : r.kind = "modify" /\ r.no = d.call.no => r \in InFlight \/ r.tx = d.call.tx
      BY <1>4, <1>6, <1>8, <3>4
    <3>6. Confined(d.call) => Confined(d.call)'
      BY <1>7, <3>5, ConfinedStays
    <3> QED
      BY <1>0, <1>11, <1>12, <1>14, <3>1, <3>3, <3>6, DoneStays
  <2> QED
    BY <1>7, <2>1 DEF DoneSound
<1> QED
  BY <1>8, <1>11, <1>14, <1>16, <1>17, <1>18, <1>19, <1>20, <1>21 DEF TabletInv

\* A call returns.
LEMMA ReturnsKeeps ==
  ASSUME TabletInv, NEW a \in Apps, NEW c, NEW at, NEW how, NEW rows,
         c = apiCall[a], at = apiAt[a], at # "idle", ApiReturns(a, how, rows),
         replies' \in SUBSET replies, \A p \in replies' : p.no # c.no,
         \/ handle' = handle
         \/ \E p \in replies : /\ p.kind = "start" /\ p.ok /\ p.no = c.no /\ c.api = "start"
                               /\ handle' = [handle EXCEPT ![a] = p.tx],
         c.api = "alone" /\ how = "ok" => Holds(c) /\ IsCommitted(c.tx),
         c.api = "alone" /\ how \notin {"ok", "timeout"} => at \in {"start", "modify"} \/ IsDead(c.tx),
         c.api = "modify" /\ how = "ok" => Holds(c),
         c.api = "commit" /\ how # "timeout" => IF how = "ok" THEN IsCommitted(c.tx) ELSE IsDead(c.tx),
         c.api \in {"read", "lookup"} /\ how = "ok" =>
           \E ts \in Moments(c, Len(commits)) : Got(rows) = Expected(ts, c.keys),
         UNCHANGED <<tabletTx, commits, onWire, program, callNo>>
  PROVE  TabletInv'
<1>0. /\ TabletTypes /\ NoCopies /\ TokensSound /\ WrittenOnce /\ RequestsSound /\ CallsSound
      /\ AnswersSound /\ CommitsSound /\ DoneSound
  BY DEF TabletInv
<1>1. /\ c \in CallRec /\ c.no = <<a, callNo[a]>> /\ c.since <= Len(commits) /\ c.tx <= Len(tabletTx)
      /\ at \notin {"start", "read"} => c.tx # 0
      /\ at = "modify" => c.mod \in Mods
      /\ c.api = "alone" => /\ c.mod \in Mods /\ at \in {"start", "modify", "commit"}
                            /\ (c.tx = 0 <=> at = "start") /\ Confined(c)
      /\ c.api \in {"start", "modify", "commit"} => at = c.api
  BY <1>0 DEF CallsSound, CallOK, Confined
<1>2. PICK d : d = [call |-> c, at |-> at, how |-> how, rows |-> rows, until |-> Len(commits)]
  OBVIOUS
<1>3. /\ apiAt' = [apiAt EXCEPT ![a] = "idle"] /\ apiCall' = [apiCall EXCEPT ![a] = NoRow]
      /\ apiDone' = apiDone \cup {d} /\ outQueue' = outQueue
      /\ tabletTx' = tabletTx /\ commits' = commits /\ onWire' = onWire
      /\ program' = program /\ callNo' = callNo
  BY <1>2 DEF ApiReturns
<1>4. Len(tabletTx) \in Nat /\ Len(commits) \in Nat /\ c.tx \in Nat
  BY <1>0, <1>1, TabletFacts DEF CallRec
<1>5. apiAt \in [Apps -> Kinds \cup {"idle"}] /\ apiCall \in [Apps -> CallRec \cup {NoRow}] /\ callNo \in [Apps -> Nat]
      /\ handle \in [Apps -> Nat]
  BY <1>0 DEF TabletTypes
<1>6. /\ apiAt'[a] = "idle"
      /\ \A b \in Apps : b # a => apiAt'[b] = apiAt[b] /\ apiCall'[b] = apiCall[b]
      /\ apiAt' \in [Apps -> Kinds \cup {"idle"}] /\ apiCall' \in [Apps -> CallRec \cup {NoRow}]
  BY <1>3, <1>5
<1>7. InFlight' = InFlight /\ NoCopies'
  BY <1>0, <1>3 DEF InFlight, Queued, NoCopies
<1>8. \A b : Confined(b) => Confined(b)'
  BY <1>3, <1>7 DEF Confined
<1>9. TxsGrow /\ MomentsStay /\ NoneCommitted
  <2>1. TxsGrow /\ MomentsStay
    BY <1>0, <1>3, ClusterRests
  <2> QED
    BY <1>3, <2>1 DEF NoneCommitted, IsCommitted
<1>10. \A p \in replies : p.kind = "start" /\ p.ok /\ p.no = c.no => p.tx \in 1..Len(tabletTx)
  BY <1>0 DEF AnswersSound, AnswerOK, AnswerTrue
<1>11. TabletTypes'
  <2>1. handle' \in [Apps -> Nat] /\ \A b \in Apps : handle'[b] <= Len(tabletTx)
    <3>1. CASE handle' = handle
      BY <1>0, <3>1 DEF TabletTypes
    <3>2. CASE \E p \in replies : /\ p.kind = "start" /\ p.ok /\ p.no = c.no /\ c.api = "start"
                                  /\ handle' = [handle EXCEPT ![a] = p.tx]
      <4>1. PICK p \in replies : /\ p.kind = "start" /\ p.ok /\ p.no = c.no /\ c.api = "start"
                                 /\ handle' = [handle EXCEPT ![a] = p.tx]
        BY <3>2
      <4>2. p.tx \in Nat /\ p.tx <= Len(tabletTx)
        BY <1>4, <1>10, <4>1
      <4>3. \A b \in Apps : handle[b] <= Len(tabletTx)
        BY <1>0 DEF TabletTypes
      <4> QED
        BY <1>5, <4>1, <4>2, <4>3
    <3> QED
      BY <3>1, <3>2
  <2> QED
    BY <1>0, <1>3, <1>6, <2>1 DEF TabletTypes
<1>12. ASSUME NEW t \in Nat \ {0}
       PROVE  /\ StartTokens(t)' \subseteq StartTokens(t) \ {<<"start", c.no>>}
              /\ WriteTokens(t)' \subseteq WriteTokens(t) \ {<<"write", a>>}
              /\ CommitTokens(t)' = CommitTokens(t)
  <2>1. StartTokens(t)' \subseteq StartTokens(t) \ {<<"start", c.no>>}
    BY DEF StartTokens
  <2>2. WriteTokens(t)' \subseteq WriteTokens(t) \ {<<"write", a>>}
    BY <1>6 DEF WriteTokens
  <2>3. CommitTokens(t)' = CommitTokens(t)
    BY <1>7 DEF CommitTokens
  <2> QED
    BY <2>1, <2>2, <2>3
<1>13. TokensSound' /\ DeadStay
  <2>1. CASE handle' = handle
    <3>1. \A t \in Nat \ {0} : HandleTokens(t)' = HandleTokens(t)
      BY <2>1 DEF HandleTokens
    <3>2. \A t \in Nat \ {0} : Tokens(t)' \subseteq Tokens(t)
      BY <1>12, <3>1 DEF Tokens
    <3> QED
      BY <1>0, <1>9, <3>2, TokensShrink
  <2>2. CASE \E p \in replies : /\ p.kind = "start" /\ p.ok /\ p.no = c.no /\ c.api = "start"
                                /\ handle' = [handle EXCEPT ![a] = p.tx]
    <3>1. PICK p \in replies : /\ p.kind = "start" /\ p.ok /\ p.no = c.no /\ c.api = "start"
                               /\ handle' = [handle EXCEPT ![a] = p.tx]
      BY <2>2
    <3> DEFINE x == <<"start", c.no>>
               y == <<"handle", a>>
               u == p.tx
    <3>2. u \in Nat \ {0}
      BY <1>4, <1>10, <3>1
    <3>3. x \in Tokens(u)
      BY <3>1 DEF Tokens, StartTokens
    <3>4. ASSUME NEW t \in Nat \ {0}
          PROVE  HandleTokens(t)' \subseteq HandleTokens(t) \cup (IF t = u THEN {y} ELSE {})
      BY <1>5, <3>1 DEF HandleTokens
    <3>5. \A t \in Nat \ {0} : t # u => Tokens(t)' \subseteq Tokens(t)
      BY <1>12, <3>4 DEF Tokens
    <3>6. Tokens(u)' \subseteq (Tokens(u) \ {x}) \cup {y}
      <4>1. x \notin HandleTokens(u) /\ x \notin WriteTokens(u) /\ x \notin CommitTokens(u)
        BY DEF HandleTokens, WriteTokens, CommitTokens
      <4>2. StartTokens(u)' \subseteq StartTokens(u) \ {x} /\ HandleTokens(u)' \subseteq HandleTokens(u) \cup {y}
            /\ WriteTokens(u)' \subseteq WriteTokens(u) /\ CommitTokens(u)' = CommitTokens(u)
        BY <1>12, <3>2, <3>4
      <4> HIDE DEF x, y, u
      <4> QED
        BY <4>1, <4>2 DEF Tokens
    <3> HIDE DEF x, y, u
    <3> QED
      BY <1>0, <1>9, <3>2, <3>3, <3>5, <3>6, TokenMoves
  <2> QED
    BY <2>1, <2>2
<1>14. WrittenOnce'
  <2>1. \A b \in Apps : callNo[b] <= callNo'[b]
    BY <1>3, <1>5
  <2>2. callNo' \in [Apps -> Nat]
    BY <1>3, <1>5
  <2> QED
    BY <1>0, <1>3, <1>7, <2>1, <2>2, WrittenStays
<1>15. RequestsSound'
  <2>1. ASSUME NEW r \in InFlight PROVE RequestOK(r)'
    <3>1. r \in TabletReq /\ RequestOK(r)
      BY <1>0, FlightsAreRequests DEF RequestsSound
    <3>2. r.no[1] \in Apps
      BY <3>1 DEF TabletReq
    <3>3. apiAt'[r.no[1]] # "idle" /\ apiCall'[r.no[1]].no = r.no =>
           apiAt'[r.no[1]] = apiAt[r.no[1]] /\ apiCall'[r.no[1]] = apiCall[r.no[1]]
      BY <1>6, <3>2
    <3>4. callNo[r.no[1]] <= callNo'[r.no[1]]
      BY <1>3, <1>5, <3>2
    <3> QED
      BY <1>0, <1>9, <1>11, <3>1, <3>3, <3>4, RequestStays
  <2> QED
    BY <1>7, <2>1 DEF RequestsSound
<1>16. CallsSound'
  <2>1. ASSUME NEW b \in Apps, apiAt'[b] # "idle" PROVE CallOK(b)'
    <3>1. b # a /\ apiAt'[b] = apiAt[b] /\ apiCall'[b] = apiCall[b] /\ callNo'[b] = callNo[b] /\ CallOK(b)
      BY <1>0, <1>3, <1>6, <2>1 DEF CallsSound
    <3>2. PICK e : e = apiCall[b]
      OBVIOUS
    <3>3. Confined(e) => Confined(e)'
      BY <1>8
    <3>4. Confined(apiCall[b]) => Confined(apiCall[b])'
      BY <3>1, <3>2, <3>3 DEF Confined
    <3> QED
      BY <1>0, <1>9, <1>11, <3>1, <3>4, CallStays
  <2> QED
    BY <2>1 DEF CallsSound
<1>17. AnswersSound'
  <2>1. ASSUME NEW p \in replies' PROVE AnswerOK(p)'
    <3>1. AnswerOK(p) /\ p.no # c.no
      BY <1>0 DEF AnswersSound
    <3>2. p.no[1] \in Apps /\ p.no[1] # a /\ \A r \in InFlight : r.no # p.no
      BY <3>1 DEF AnswerOK
    <3> QED
      BY <1>0, <1>6, <1>7, <1>9, <1>11, <1>13, <3>1, <3>2, UnreadStays
  <2> QED
    BY <1>0, <2>1 DEF AnswersSound
<1>18. CommitsSound'
  BY <1>0, <1>3, CommitsRest
<1>19. ASSUME NEW e \in apiDone PROVE DoneOK(e)'
  <2>1. DoneOK(e)
    BY <1>0 DEF DoneSound
  <2>2. e.call.no[1] \in Apps /\ e.call.no[2] \in Nat /\ Gone(e.call)
    BY <2>1 DEF DoneOK, CallRec
  <2>3. Gone(e.call)'
    BY <1>3, <1>6, <2>2 DEF Gone
  <2>4. Confined(e.call) => Confined(e.call)'
    BY <1>8
  <2> QED
    BY <1>0, <1>9, <1>11, <1>13, <2>1, <2>3, <2>4, DoneStays
<1>20. DoneOK(d)'
  <2>1. d.call = c /\ d.at = at /\ d.how = how /\ d.rows = rows /\ d.until = Len(commits)
    BY <1>2
  <2>2. Gone(c)'
    BY <1>1, <1>3, <1>5, <1>6 DEF Gone
  <2>3. c.tx <= Len(tabletTx') /\ d.until <= Len(commits') /\ d.until \in Nat
    BY <1>1, <1>3, <1>4, <2>1
  <2>4. Holds(c) => Holds(c)'
    BY <1>3 DEF Holds
  <2>5. IsCommitted(c.tx) => IsCommitted(c.tx)'
    BY <1>3 DEF IsCommitted
  <2>6. IsDead(c.tx) => IsDead(c.tx)'
    BY <1>13 DEF DeadStay, IsDead
  <2>7. c.api = "alone" /\ at = "modify" => IsDead(c.tx)'
    <3> SUFFICES ASSUME c.api = "alone", at = "modify" PROVE IsDead(c.tx)'
      OBVIOUS
    <3>1. c.tx \in Nat \ {0} /\ <<"write", a>> \in Tokens(c.tx)
      BY <1>1, <1>4 DEF Tokens, WriteTokens
    <3>2. /\ \A x \in Tokens(c.tx) : x = <<"write", a>>
          /\ c.tx \in 1..Len(tabletTx) /\ ~IsCommitted(c.tx)
      BY <1>0, <3>1 DEF TokensSound
    <3>3. handle' = handle
      BY <1>1
    <3>4. Tokens(c.tx)' = {}
      <4>1. HandleTokens(c.tx)' = HandleTokens(c.tx)
        BY <3>3 DEF HandleTokens
      <4>2. <<"write", a>> \notin HandleTokens(c.tx) /\ <<"write", a>> \notin StartTokens(c.tx)
            /\ <<"write", a>> \notin CommitTokens(c.tx)
        BY DEF HandleTokens, StartTokens, CommitTokens
      <4> QED
        BY <1>12, <3>1, <3>2, <4>1, <4>2 DEF Tokens
    <3> QED
      BY <1>3, <3>2, <3>4 DEF IsDead, IsCommitted
  <2>8. c.api = "alone" /\ (how = "timeout" => at # "commit") /\ how # "ok" =>
           Confined(c)' /\ (c.tx = 0 \/ IsDead(c.tx)')
    BY <1>1, <1>8, <2>6, <2>7
  <2>9. c.api \in {"read", "lookup"} /\ how = "ok" =>
          \E ts \in Moments(c, d.until)' :
             ts <= Len(commits') /\ Got(rows) = [i \in DOMAIN c.keys |-> TableAt(commits', ts)[c.keys[i]]]
    <3> SUFFICES ASSUME c.api \in {"read", "lookup"}, how = "ok"
                 PROVE  \E ts \in Moments(c, d.until)' :
                          ts <= Len(commits') /\ Got(rows) = [i \in DOMAIN c.keys |-> TableAt(commits', ts)[c.keys[i]]]
      OBVIOUS
    <3>1. PICK ts \in Moments(c, Len(commits)) : Got(rows) = [i \in DOMAIN c.keys |-> TableAt(commits, ts)[c.keys[i]]]
      BY DEF Expected, AsOf
    <3>2. ts \in 0..Len(commits)
      <4>1. Len(commits) <= Len(commits)
        BY <1>4
      <4> QED
        BY <1>0, <1>1, <1>4, <3>1, <4>1, MomentsAre
    <3>3. ts \in Moments(c, d.until)'
      BY <1>3, <2>1, <3>1 DEF Moments
    <3>4. ts <= Len(commits')
      BY <1>3, <1>4, <3>2
    <3> QED
      BY <1>3, <3>1, <3>3, <3>4
  <2>10. \/ c.api = "alone" /\ how = "ok" => Holds(c)' /\ IsCommitted(c.tx)' /\ c.mod \in Mods
    BY <1>1, <2>4, <2>5
  <2>11. c.api = "modify" /\ how = "ok" => Holds(c)' /\ c.mod \in Mods
    BY <1>1, <2>4
  <2>12. c.api = "commit" /\ how # "timeout" => IF how = "ok" THEN IsCommitted(c.tx)' ELSE IsDead(c.tx)'
    BY <2>5, <2>6
  <2> QED
    BY <1>1, <2>1, <2>2, <2>3, <2>8, <2>9, <2>10, <2>11, <2>12 DEF DoneOK, Expected, AsOf
<1>21. DoneSound'
  BY <1>3, <1>19, <1>20 DEF DoneSound
<1> QED
  BY <1>7, <1>11, <1>13, <1>14, <1>15, <1>16, <1>17, <1>18, <1>21 DEF TabletInv

-----------------------------------------------------------------------------
(***************************************************************************)
(* The steps of the cluster.                                               *)
(***************************************************************************)
\* A request asks what its call asks.
Asks(q, c) ==
  /\ c \in CallRec /\ c.tx <= Len(tabletTx) /\ c.since <= Len(commits) /\ c.no = q.no /\ c.tx = q.tx
  /\ q.kind = "modify" => q.mod = ModifyRequest(c.mod)
  /\ q.kind = "read" => q.keys = c.keys /\ q.at = ReadAt(c)

\* Who holds a transaction after a request is dealt with: a commit that was dealt
\* with is spent, and only a start gives one out.
LEMMA DealtTokens ==
  ASSUME TabletTypes, NoCopies, NEW q \in onWire, Dealt(q), NEW ok \in BOOLEAN, NEW tx, NEW rows,
         Reply(q, ok, tx, rows), NEW t
  PROVE  /\ Tokens(t)' \subseteq Tokens(t) \cup
                                 (IF q.kind = "start" /\ ok /\ t = tx THEN {<<"start", q.no>>} ELSE {})
         /\ q.kind = "commit" => <<"commit", q.no>> \notin Tokens(t)'
<1>1. /\ onWire' = onWire \ {q} /\ outQueue' = outQueue /\ apiAt' = apiAt /\ apiCall' = apiCall
      /\ handle' = handle
  BY DEF Dealt
<1>2. /\ \A r : r \in InFlight' <=> r \in InFlight /\ r # q
      /\ \A r \in InFlight' : r.no # q.no
  BY <1>1, RequestIsDealt
<1>3. \A o \in replies' : o \in replies \/ o = [no |-> q.no, kind |-> q.kind, ok |-> ok, tx |-> tx, rows |-> rows]
  BY DEF Reply
<1>4. StartTokens(t)' \subseteq StartTokens(t) \cup
                                 (IF q.kind = "start" /\ ok /\ t = tx THEN {<<"start", q.no>>} ELSE {})
  BY <1>3 DEF StartTokens
<1>5. HandleTokens(t)' = HandleTokens(t) /\ WriteTokens(t)' = WriteTokens(t)
  BY <1>1 DEF HandleTokens, WriteTokens
<1>6. CommitTokens(t)' \subseteq CommitTokens(t)
  BY <1>2 DEF CommitTokens
<1>7. q.kind = "commit" => <<"commit", q.no>> \notin Tokens(t)'
  <2>1. <<"commit", q.no>> \notin CommitTokens(t)'
    BY <1>2 DEF CommitTokens
  <2>2. <<"commit", q.no>> \notin StartTokens(t)' /\ <<"commit", q.no>> \notin HandleTokens(t)'
        /\ <<"commit", q.no>> \notin WriteTokens(t)'
    BY DEF StartTokens, HandleTokens, WriteTokens
  <2> QED
    BY <2>1, <2>2 DEF Tokens
<1> QED
  BY <1>4, <1>5, <1>6, <1>7 DEF Tokens

\* A request is dealt with, and answered truly.
LEMMA DealtKeeps ==
  ASSUME TabletInv, NEW q \in onWire, Dealt(q), NEW ok \in BOOLEAN, NEW tx, NEW rows,
         Reply(q, ok, tx, rows),
         tabletTx' \in Seq(TxRec), commits' \in Seq(Commit),
         TxsGrow, MomentsStay, DeadStay, TokensSound', WrittenOnce', CommitsSound',
         \A c : Confined(c) => Confined(c)',
         NEW p, p = [no |-> q.no, kind |-> q.kind, ok |-> ok, tx |-> tx, rows |-> rows],
         \A c : Asks(q, c) => AnswerTrue(p, c)'
  PROVE  TabletInv'
<1>0. /\ TabletTypes /\ NoCopies /\ TokensSound /\ WrittenOnce /\ RequestsSound /\ CallsSound
      /\ AnswersSound /\ CommitsSound /\ DoneSound
  BY DEF TabletInv
<1>1. /\ onWire' = onWire \ {q} /\ outQueue' = outQueue /\ apiAt' = apiAt /\ apiCall' = apiCall
      /\ handle' = handle /\ program' = program /\ callNo' = callNo /\ apiDone' = apiDone
  BY DEF Dealt
<1>2. /\ onWire' \in SUBSET TabletReq /\ NoCopies' /\ q \in InFlight
      /\ \A r : r \in InFlight' <=> r \in InFlight /\ r # q
      /\ \A r \in InFlight' : r.no # q.no
  BY <1>0, <1>1, RequestIsDealt
<1>3. TabletTypes'
  <2>1. ASSUME NEW b \in Apps PROVE handle[b] <= Len(tabletTx')
    <3>1. handle[b] <= Len(tabletTx) /\ handle[b] \in Nat
      BY <1>0 DEF TabletTypes
    <3>2. Len(tabletTx) <= Len(tabletTx') /\ Len(tabletTx) \in Nat /\ Len(tabletTx') \in Nat
      BY <1>0, TabletFacts DEF TxsGrow
    <3> QED
      BY <3>1, <3>2
  <2> QED
    BY <1>0, <1>1, <1>2, <2>1 DEF TabletTypes
<1>4. apiAt \in [Apps -> Kinds \cup {"idle"}] /\ callNo \in [Apps -> Nat]
  BY <1>0 DEF TabletTypes
<1>5. RequestsSound'
  <2>1. ASSUME NEW r \in InFlight PROVE RequestOK(r)'
    <3>1. r \in TabletReq /\ RequestOK(r)
      BY <1>0, FlightsAreRequests DEF RequestsSound
    <3>2. r.no[1] \in Apps
      BY <3>1 DEF TabletReq
    <3>3. callNo[r.no[1]] <= callNo'[r.no[1]]
      BY <1>1, <1>4, <3>2
    <3> QED
      BY <1>0, <1>1, <1>3, <3>1, <3>3, RequestStays
  <2> QED
    BY <1>2, <2>1 DEF RequestsSound
<1>6. CallsSound'
  <2>1. ASSUME NEW b \in Apps, apiAt'[b] # "idle" PROVE CallOK(b)'
    <3>1. CallOK(b) /\ callNo'[b] = callNo[b]
      BY <1>0, <1>1, <2>1 DEF CallsSound
    <3>2. PICK c : c = apiCall[b]
      OBVIOUS
    <3>3. Confined(c) => Confined(c)'
      OBVIOUS
    <3>4. Confined(apiCall[b]) => Confined(apiCall[b])'
      BY <1>1, <3>2, <3>3 DEF Confined
    <3> QED
      BY <1>0, <1>1, <1>3, <3>1, <3>4, CallStays
  <2> QED
    BY <2>1 DEF CallsSound
<1>7. ASSUME NEW o \in replies PROVE AnswerOK(o)' /\ o.no # q.no
  <2>1. AnswerOK(o)
    BY <1>0 DEF AnswersSound
  <2>2. \A r \in InFlight : r.no # o.no
    BY <2>1 DEF AnswerOK
  <2>3. \A r \in InFlight' : r.no # o.no
    BY <1>2, <2>2
  <2> QED
    BY <1>0, <1>1, <1>2, <1>3, <2>1, <2>2, <2>3, UnreadStays
<1>8. ASSUME NEW o \in replies', o \notin replies PROVE AnswerOK(o)' /\ o = p
  <2>1. PICK b \in Apps : apiAt[b] = q.kind /\ apiCall[b].no = q.no /\ o = p
    BY <1>8 DEF Reply
  <2>2. PICK c : c = apiCall[b]
    OBVIOUS
  <2>3. q \in TabletReq /\ q.kind \in Kinds /\ RequestOK(q)
    BY <1>0, <1>2, FlightsAreRequests DEF RequestsSound, TabletReq
  <2>4. apiAt[b] # "idle" /\ CallOK(b)
    BY <1>0, <2>1, <2>3 DEF Kinds, CallsSound
  <2>5. q.no[1] = b /\ c \in CallRec /\ c.tx <= Len(tabletTx) /\ c.since <= Len(commits)
    BY <2>1, <2>2, <2>4 DEF CallOK
  <2>6. ReadAt(apiCall[b]) = ReadAt(c)
    BY <2>2 DEF ReadAt
  <2>7. Asks(q, c)
    BY <2>1, <2>2, <2>3, <2>4, <2>5, <2>6 DEF Asks, RequestOK
  <2>8. AnswerTrue(p, c)'
    BY <2>7
  <2>9. p.no = q.no /\ p.kind = q.kind /\ p.ok = ok
    OBVIOUS
  <2>10. AnswerTrue(p, apiCall[b])'
    <3>1. p.kind = "start" /\ p.ok => p.tx \in 1..Len(tabletTx')
      BY <2>8 DEF AnswerTrue
    <3>2. p.kind = "modify" /\ p.ok => Holds(apiCall[b])'
      BY <1>1, <2>2, <2>8 DEF AnswerTrue, Holds
    <3>3. p.kind = "commit" => IF p.ok THEN IsCommitted(apiCall[b].tx)' ELSE IsDead(apiCall[b].tx)'
      BY <1>1, <2>2, <2>8 DEF AnswerTrue, IsCommitted, IsDead
    <3>4. p.kind = "read" /\ p.ok =>
            \E ts \in Moments(apiCall[b], Len(commits))' :
              p.rows = [i \in DOMAIN apiCall'[b].keys |-> Replied(AsOf(ts)'[apiCall'[b].keys[i]])]
      BY <1>1, <2>2, <2>8 DEF AnswerTrue, Moments, AsOf
    <3> QED
      BY <3>1, <3>2, <3>3, <3>4 DEF AnswerTrue, AsOf
  <2> QED
    BY <1>1, <1>2, <2>1, <2>3, <2>5, <2>9, <2>10 DEF AnswerOK
<1>9. AnswersSound'
  <2>1. \A o, s \in replies' : o.no = s.no => o = s
    BY <1>0, <1>7, <1>8 DEF AnswersSound
  <2> QED
    BY <1>7, <1>8, <2>1 DEF AnswersSound
<1>10. DoneSound'
  <2>1. ASSUME NEW d \in apiDone PROVE DoneOK(d)'
    <3>1. DoneOK(d)
      BY <1>0 DEF DoneSound
    <3>2. Gone(d.call)'
      BY <1>1, <3>1 DEF Gone, DoneOK
    <3>3. Confined(d.call) => Confined(d.call)'
      OBVIOUS
    <3> QED
      BY <1>0, <1>3, <3>1, <3>2, <3>3, DoneStays
  <2> QED
    BY <1>1, <2>1 DEF DoneSound
<1> QED
  BY <1>2, <1>3, <1>5, <1>6, <1>9, <1>10 DEF TabletInv

\* A request is answered, and nothing is changed.
LEMMA AnsweredAtRest ==
  ASSUME TabletInv, NEW q \in onWire, Dealt(q), NEW ok \in BOOLEAN, NEW tx, NEW rows,
         Reply(q, ok, tx, rows), tabletTx' = tabletTx, commits' = commits, q.kind = "start" => ~ok,
         NEW p, p = [no |-> q.no, kind |-> q.kind, ok |-> ok, tx |-> tx, rows |-> rows],
         \A c : Asks(q, c) => AnswerTrue(p, c)'
  PROVE  TabletInv'
<1>0. TabletTypes /\ NoCopies /\ TokensSound /\ WrittenOnce /\ CommitsSound
  BY DEF TabletInv
<1>1. onWire' = onWire \ {q} /\ outQueue' = outQueue /\ callNo' = callNo
  BY DEF Dealt
<1>2. \A r : r \in InFlight' <=> r \in InFlight /\ r # q
  BY <1>0, <1>1, RequestIsDealt
<1>3. TxsGrow /\ MomentsStay /\ NoneCommitted
  <2>1. TxsGrow /\ MomentsStay
    BY <1>0, ClusterRests
  <2> QED
    BY <2>1 DEF NoneCommitted, IsCommitted
<1>4. TokensSound' /\ DeadStay
  <2>1. ASSUME NEW t \in Nat \ {0} PROVE Tokens(t)' \subseteq Tokens(t)
    BY <1>0, DealtTokens
  <2> QED
    BY <1>0, <1>3, <2>1, TokensShrink
<1>5. callNo \in [Apps -> Nat]
  BY <1>0 DEF TabletTypes
<1>6. WrittenOnce'
  <2>1. \A b \in Apps : callNo[b] <= callNo'[b]
    BY <1>1, <1>5
  <2>2. \A r \in InFlight' : r \in InFlight
    BY <1>2
  <2> QED
    BY <1>0, <1>1, <1>5, <2>1, <2>2, WrittenStays
<1>7. CommitsSound'
  BY <1>0, CommitsRest
<1>8. \A c : Confined(c) => Confined(c)'
  BY <1>2 DEF Confined
<1>9. tabletTx' \in Seq(TxRec) /\ commits' \in Seq(Commit)
  BY <1>0 DEF TabletTypes
<1> QED
  BY <1>3, <1>4, <1>6, <1>7, <1>8, <1>9, DealtKeeps

\* A read is answered from the table of its moment.
LEMMA ReadKeeps ==
  ASSUME TabletInv, NEW q \in onWire, DealRead(q)
  PROVE  TabletInv'
<1>0. TabletTypes /\ q \in InFlight /\ q \in TabletReq
  BY FlightIs, FlightsAreRequests DEF TabletInv
<1>1. PICK ts : ts = IF q.at = NoRow THEN Len(commits) ELSE q.at
  OBVIOUS
<1>2. PICK rows : rows = [i \in DOMAIN q.keys |-> Replied(TableAt(commits, ts)[q.keys[i]])]
  OBVIOUS
<1>3. /\ q.kind = "read" /\ Dealt(q) /\ Reply(q, TRUE, 0, rows)
      /\ tabletTx' = tabletTx /\ commits' = commits
  BY <1>1, <1>2 DEF DealRead, AsOf, tabletClusterVars
<1>4. PICK p : p = [no |-> q.no, kind |-> q.kind, ok |-> TRUE, tx |-> 0, rows |-> rows]
  OBVIOUS
<1>5. p.kind = "read" /\ p.ok /\ p.rows = rows
  BY <1>3, <1>4
<1>6. ASSUME NEW c, Asks(q, c) PROVE AnswerTrue(p, c)'
  <2>1. q.keys = c.keys /\ q.at = (IF c.tx = 0 THEN NoRow ELSE tabletTx[c.tx].start)
        /\ c.tx \in Nat /\ c.since \in Nat /\ c.tx <= Len(tabletTx) /\ c.since <= Len(commits)
    BY <1>3, <1>6 DEF Asks, ReadAt, CallRec
  <2>2. Len(commits) \in Nat /\ Len(tabletTx) \in Nat
    BY <1>0, TabletFacts
  <2>3. ts \in IF c.tx = 0 THEN c.since..Len(commits) ELSE {tabletTx[c.tx].start}
    <3>1. CASE c.tx = 0
      BY <1>1, <2>1, <2>2, <3>1
    <3>2. CASE c.tx # 0
      <4>1. c.tx \in 1..Len(tabletTx)
        BY <2>1, <2>2, <3>2
      <4>2. tabletTx[c.tx].start \in Nat
        BY <1>0, <4>1, TabletFacts
      <4>3. tabletTx[c.tx].start # NoRow
        BY <4>2, TabletAssumption
      <4> QED
        BY <1>1, <2>1, <3>2, <4>3
    <3> QED
      BY <3>1, <3>2
  <2>4. rows = [i \in DOMAIN c.keys |-> Replied(TableAt(commits, ts)[c.keys[i]])]
    BY <1>2, <2>1
  <2>5. \E m \in Moments(c, Len(commits))' :
          p.rows = [i \in DOMAIN c.keys |-> Replied(TableAt(commits', m)[c.keys[i]])]
    BY <1>3, <1>5, <2>3, <2>4 DEF Moments
  <2> QED
    BY <1>5, <2>5 DEF AnswerTrue, AsOf
<1> QED
  BY <1>3, <1>4, <1>6, AnsweredAtRest

\* A ping is answered.
LEMMA PingKeeps ==
  ASSUME TabletInv, NEW q \in onWire, DealPing(q)
  PROVE  TabletInv'
<1>1. q.kind = "ping" /\ Dealt(q) /\ Reply(q, TRUE, q.tx, <<>>) /\ tabletTx' = tabletTx /\ commits' = commits
  BY DEF DealPing, tabletClusterVars
<1>2. PICK p : p = [no |-> q.no, kind |-> q.kind, ok |-> TRUE, tx |-> q.tx, rows |-> <<>>]
  OBVIOUS
<1>3. \A c : Asks(q, c) => AnswerTrue(p, c)'
  BY <1>1, <1>2 DEF AnswerTrue
<1> QED
  BY <1>1, <1>2, <1>3, AnsweredAtRest

\* A request is refused: the transaction of a commit that is will never be committed.
LEMMA RefuseKeeps ==
  ASSUME TabletInv, NEW q \in onWire, Refuse(q)
  PROVE  TabletInv'
<1>0. TabletTypes /\ NoCopies /\ TokensSound /\ RequestsSound /\ q \in InFlight /\ q \in TabletReq
  BY FlightIs, FlightsAreRequests DEF TabletInv
<1>1. Dealt(q) /\ Reply(q, FALSE, 0, <<>>) /\ tabletTx' = tabletTx /\ commits' = commits
  BY DEF Refuse, tabletClusterVars
<1>2. PICK p : p = [no |-> q.no, kind |-> q.kind, ok |-> FALSE, tx |-> 0, rows |-> <<>>]
  OBVIOUS
<1>3. ASSUME NEW c, Asks(q, c), q.kind = "commit" PROVE IsDead(c.tx)'
  <2>1. c.tx = q.tx /\ q.tx \in 1..Len(tabletTx) /\ Len(tabletTx) \in Nat
    BY <1>0, <1>3, TabletFacts DEF Asks, RequestsSound, RequestOK
  <2>2. q.tx \in Nat \ {0}
    BY <2>1
  <2>3. <<"commit", q.no>> \in Tokens(q.tx)
    BY <1>0, <1>3 DEF Tokens, CommitTokens
  <2>4. ~IsCommitted(q.tx) /\ \A x \in Tokens(q.tx) : x = <<"commit", q.no>>
    BY <1>0, <2>2, <2>3 DEF TokensSound
  <2>5. Tokens(q.tx)' \subseteq Tokens(q.tx) /\ <<"commit", q.no>> \notin Tokens(q.tx)'
    BY <1>0, <1>1, <1>3, DealtTokens
  <2> QED
    BY <1>1, <2>1, <2>4, <2>5 DEF IsDead, IsCommitted
<1>4. \A c : Asks(q, c) => AnswerTrue(p, c)'
  BY <1>2, <1>3 DEF AnswerTrue
<1> QED
  BY <1>1, <1>2, <1>4, AnsweredAtRest

\* A transaction is started.
LEMMA StartKeeps ==
  ASSUME TabletInv, NEW q \in onWire, DealStart(q)
  PROVE  TabletInv'
<1>0. TabletTypes /\ NoCopies /\ TokensSound /\ WrittenOnce /\ CommitsSound
  BY DEF TabletInv
<1> DEFINE n == Len(tabletTx)
           tx == [state |-> "open", start |-> Len(commits), mods |-> <<>>]
<1>1. /\ q.kind = "start" /\ Dealt(q) /\ tabletTx' = Append(tabletTx, tx)
      /\ Reply(q, TRUE, n + 1, <<>>) /\ commits' = commits
  BY DEF DealStart
<1>2. /\ n \in Nat /\ Len(commits) \in Nat /\ tabletTx \in Seq(TxRec) /\ commits \in Seq(Commit)
  BY <1>0, TabletFacts DEF TabletTypes
<1>3. tx \in TxRec /\ tx.state = "open" /\ tx.start = Len(commits) /\ tx.mods = <<>> /\ Len(tx.mods) = 0
  BY <1>2, EmptySeq DEF TxRec
<1> HIDE DEF tx
<1>4. /\ tabletTx' \in Seq(TxRec) /\ Len(tabletTx') = n + 1 /\ tabletTx'[n + 1] = tx
      /\ \A t \in 1..n : tabletTx'[t] = tabletTx[t]
  BY <1>1, <1>2, <1>3, AppendProperties
<1> HIDE DEF n
<1>5. \A t : t \in 1..n + 1 <=> t \in 1..n \/ t = n + 1
  BY <1>2
<1>6. n = Len(tabletTx) /\ n + 1 \notin 1..n /\ n + 1 \in Nat \ {0}
  BY <1>2 DEF n
<1>7. \A t : IsCommitted(t)' <=> IsCommitted(t)
  BY <1>3, <1>4, <1>5, <1>6 DEF IsCommitted
<1>8. TxsGrow
  BY <1>2, <1>4, <1>6, <1>7, TabletFacts, <1>0 DEF TxsGrow
<1>9. MomentsStay
  BY <1>1, <1>2 DEF MomentsStay
<1>10. /\ onWire' = onWire \ {q} /\ outQueue' = outQueue /\ callNo' = callNo
       /\ \A r : r \in InFlight' <=> r \in InFlight /\ r # q
  <2>1. onWire' = onWire \ {q} /\ outQueue' = outQueue /\ callNo' = callNo
    BY <1>1 DEF Dealt
  <2> QED
    BY <1>0, <2>1, RequestIsDealt
<1>11. ASSUME NEW t \in Nat \ {0}
       PROVE  Tokens(t)' \subseteq Tokens(t) \cup (IF t = n + 1 THEN {<<"start", q.no>>} ELSE {})
  BY <1>0, <1>1, DealtTokens
<1>12. Tokens(n + 1) = {}
  BY <1>0, <1>6 DEF TokensSound
<1>13. TokensSound' /\ DeadStay
  <2>1. ASSUME NEW t \in Nat \ {0}
        PROVE  /\ \A x, y \in Tokens(t)' : x = y
               /\ Tokens(t)' # {} => t \in 1..Len(tabletTx') /\ ~IsCommitted(t)'
    <3>1. CASE t = n + 1
      <4>1. Tokens(t)' \subseteq {<<"start", q.no>>}
        BY <1>11, <1>12, <3>1
      <4>2. ~IsCommitted(t)
        BY <1>6, <3>1 DEF IsCommitted
      <4> QED
        BY <1>4, <1>5, <1>7, <3>1, <4>1, <4>2
    <3>2. CASE t # n + 1
      <4>1. Tokens(t)' \subseteq Tokens(t)
        BY <1>11, <3>2
      <4> QED
        BY <1>0, <1>4, <1>5, <1>6, <1>7, <4>1 DEF TokensSound
    <3> QED
      BY <3>1, <3>2
  <2>2. ASSUME NEW t \in 1..n, IsDead(t) PROVE IsDead(t)'
    <3>1. t \in Nat \ {0} /\ t # n + 1
      BY <1>2
    <3>2. Tokens(t)' = {}
      BY <1>11, <2>2, <3>1 DEF IsDead
    <3> QED
      BY <1>4, <1>5, <1>6, <1>7, <2>2, <3>2 DEF IsDead
  <2> QED
    BY <1>6, <2>1, <2>2 DEF TokensSound, DeadStay
<1>14. WrittenOnce'
  <2>1. \A t \in 1..Len(tabletTx') : \A i \in 1..Len(tabletTx'[t].mods) :
          t \in 1..Len(tabletTx) /\ tabletTx'[t] = tabletTx[t]
    BY <1>3, <1>4, <1>5, <1>6
  <2>2. ASSUME NEW t \in 1..Len(tabletTx'), NEW u \in 1..Len(tabletTx'),
               NEW i \in 1..Len(tabletTx'[t].mods), NEW j \in 1..Len(tabletTx'[u].mods),
               tabletTx'[t].mods[i].no = tabletTx'[u].mods[j].no
        PROVE  t = u /\ i = j
    <3>1. t \in 1..Len(tabletTx) /\ tabletTx'[t] = tabletTx[t]
      BY <2>1
    <3>2. u \in 1..Len(tabletTx) /\ tabletTx'[u] = tabletTx[u]
      BY <2>1
    <3>3. i \in 1..Len(tabletTx[t].mods) /\ j \in 1..Len(tabletTx[u].mods)
          /\ tabletTx[t].mods[i].no = tabletTx[u].mods[j].no
      BY <2>2, <3>1, <3>2
    <3> QED
      <4>1. WrittenApart
        BY <1>0 DEF WrittenOnce
      <4>2. t \in 1..Len(tabletTx) /\ u \in 1..Len(tabletTx)
        BY <3>1, <3>2
      <4> QED
        BY <3>3, <4>1, <4>2, Zenon DEF WrittenApart
  <2>3. ASSUME NEW t \in 1..Len(tabletTx'), NEW i \in 1..Len(tabletTx'[t].mods),
               NEW no, no = tabletTx'[t].mods[i].no
        PROVE  no[2] <= callNo'[no[1]] /\ \A r \in InFlight' : r.kind = "modify" => r.no # no
    <3>1. t \in 1..Len(tabletTx) /\ i \in 1..Len(tabletTx[t].mods) /\ no = tabletTx[t].mods[i].no
      BY <2>1, <2>3
    <3>2. no[2] <= callNo[no[1]] /\ \A r \in InFlight : r.kind = "modify" => r.no # no
      BY <1>0, <3>1 DEF WrittenOnce, WrittenBefore
    <3> QED
      BY <1>10, <3>2
  <2>4. WrittenApart'
    BY <2>2, Zenon DEF WrittenApart
  <2>5. WrittenBefore'
    BY <2>3, Zenon DEF WrittenBefore
  <2> QED
    BY <2>4, <2>5 DEF WrittenOnce
<1>15. CommitsSound'
  <2>1. ASSUME NEW i \in 1..Len(commits)
        PROVE  IsCommitted(commits[i].tx)' /\ commits[i].mods = tabletTx'[commits[i].tx].mods
    <3>1. PICK u : u = commits[i].tx
      OBVIOUS
    <3>2. IsCommitted(u) /\ u \in 1..n /\ commits[i].mods = tabletTx[u].mods
      BY <1>0, <1>6, <3>1 DEF CommitsSound, IsCommitted
    <3>3. IsCommitted(u)' /\ commits[i].mods = tabletTx'[u].mods
      BY <1>4, <1>7, <3>2
    <3> QED
      BY <1>1, <3>1, <3>3 DEF IsCommitted
  <2>2. ASSUME NEW t \in 1..Len(tabletTx')
        PROVE  /\ tabletTx'[t].start <= Len(commits)
               /\ IsCommitted(t)' => \E i \in 1..Len(commits) : commits[i].tx = t
    <3>1. CASE t = n + 1
      BY <1>2, <1>3, <1>4, <1>6, <1>7, <3>1 DEF IsCommitted
    <3>2. CASE t \in 1..n
      BY <1>0, <1>4, <1>6, <1>7, <3>2 DEF CommitsSound
    <3> QED
      BY <1>4, <1>5, <2>2, <3>1, <3>2
  <2> QED
    BY <1>0, <1>1, <2>1, <2>2 DEF CommitsSound
<1>16. \A c : Confined(c) => Confined(c)'
  <2>1. \A t \in 1..Len(tabletTx') : \A i \in 1..Len(tabletTx'[t].mods) :
          t \in 1..Len(tabletTx) /\ tabletTx'[t] = tabletTx[t]
    BY <1>3, <1>4, <1>5, <1>6
  <2> QED
    BY <1>10, <2>1 DEF Confined
<1>17. PICK p : p = [no |-> q.no, kind |-> q.kind, ok |-> TRUE, tx |-> n + 1, rows |-> <<>>]
  OBVIOUS
<1>18. \A c : Asks(q, c) => AnswerTrue(p, c)'
  BY <1>1, <1>4, <1>5, <1>17 DEF AnswerTrue
<1>19. Reply(q, TRUE, n + 1, <<>>) /\ Dealt(q)
  BY <1>1
<1>20. commits' \in Seq(Commit)
  BY <1>1, <1>2
<1> QED
  BY <1>4, <1>8, <1>9, <1>13, <1>14, <1>15, <1>16, <1>17, <1>18, <1>19, <1>20, DealtKeeps

\* A write is kept with its transaction.
LEMMA ModifyKeeps ==
  ASSUME TabletInv, NEW q \in onWire, DealModify(q)
  PROVE  TabletInv'
<1>0. /\ TabletTypes /\ NoCopies /\ TokensSound /\ WrittenOnce /\ CommitsSound /\ RequestsSound
      /\ q \in InFlight /\ q \in TabletReq
  BY FlightIs, FlightsAreRequests DEF TabletInv
<1> DEFINE u == q.tx
           e == [no |-> q.no, mod |-> q.mod]
           n == Len(tabletTx[u].mods)
           new == Append(tabletTx[u].mods, e)
           rec == [tabletTx[u] EXCEPT !.mods = new]
<1>1. /\ q.kind = "modify" /\ tabletTx[u].state = "open" /\ Dealt(q) /\ Reply(q, TRUE, u, <<>>)
      /\ tabletTx' = [tabletTx EXCEPT ![u].mods = new] /\ commits' = commits
  BY DEF DealModify, IsOpen
<1>2. tabletTx' = [tabletTx EXCEPT ![u] = rec]
  BY <1>1
<1>3. /\ u \in 1..Len(tabletTx) /\ q.mod \in WireMods /\ q.no \in Apps \X Nat
      /\ q.no[2] <= callNo[q.no[1]]
  BY <1>0, <1>1 DEF RequestsSound, RequestOK, TabletReq
<1>4. /\ Len(tabletTx) \in Nat /\ tabletTx \in Seq(TxRec) /\ commits \in Seq(Commit)
      /\ DOMAIN tabletTx = 1..Len(tabletTx) /\ Len(commits) \in Nat
      /\ tabletTx[u] \in TxRec /\ tabletTx[u].mods \in Seq(Entry) /\ n \in Nat
  BY <1>0, <1>3, TabletFacts DEF TabletTypes
<1>5. e \in Entry /\ e.no = q.no /\ e.mod = q.mod
  BY <1>3 DEF Entry
<1> HIDE DEF e
<1>6. /\ new \in Seq(Entry) /\ Len(new) = n + 1 /\ new[n + 1] = e /\ \A i \in 1..n : new[i] = tabletTx[u].mods[i]
  BY <1>4, <1>5, AppendProperties
<1> HIDE DEF new, n
<1>7. rec \in TxRec /\ rec.mods = new /\ rec.state = "open" /\ rec.start = tabletTx[u].start
  BY <1>1, <1>4, <1>6 DEF TxRec
<1> HIDE DEF rec
<1>8. /\ tabletTx' \in Seq(TxRec) /\ Len(tabletTx') = Len(tabletTx) /\ tabletTx'[u] = rec
      /\ \A t \in 1..Len(tabletTx) : t # u => tabletTx'[t] = tabletTx[t]
  BY <1>2, <1>3, <1>4, <1>7
<1>9. \A t : IsCommitted(t)' <=> IsCommitted(t)
  BY <1>1, <1>7, <1>8 DEF IsCommitted
<1>10. \A i : i \in 1..n + 1 <=> i \in 1..n \/ i = n + 1
  BY <1>4
<1>11. n = Len(tabletTx[u].mods)
  BY DEF n
<1>12. ASSUME NEW t \in 1..Len(tabletTx)
       PROVE  /\ tabletTx'[t].start = tabletTx[t].start
              /\ Len(tabletTx[t].mods) <= Len(tabletTx'[t].mods)
              /\ \A i \in 1..Len(tabletTx[t].mods) : tabletTx'[t].mods[i] = tabletTx[t].mods[i]
              /\ \A i \in 1..Len(tabletTx'[t].mods) :
                   i \in 1..Len(tabletTx[t].mods) \/ (t = u /\ i = n + 1 /\ tabletTx'[t].mods[i] = e)
  <2>1. CASE t = u
    <3>1. tabletTx'[t].mods = new /\ tabletTx'[t].start = tabletTx[u].start
      BY <1>7, <1>8, <2>1
    <3>2. Len(tabletTx[t].mods) = n /\ n <= n + 1
      BY <1>4, <1>11, <2>1
    <3>3. \A i \in 1..n : new[i] = tabletTx[t].mods[i]
      BY <1>6, <2>1
    <3>4. Len(tabletTx'[t].mods) = n + 1 /\ \A i \in 1..n + 1 : i \in 1..n \/ (i = n + 1 /\ new[i] = e)
      BY <1>6, <1>10, <3>1
    <3> QED
      BY <2>1, <3>1, <3>2, <3>3, <3>4
  <2>2. CASE t # u
    <3>1. Len(tabletTx[t].mods) \in Nat
      BY <1>0, TabletFacts
    <3> QED
      BY <1>8, <2>2, <3>1
  <2> QED
    BY <2>1, <2>2
<1>13. TxsGrow
  BY <1>4, <1>8, <1>9, <1>12 DEF TxsGrow
<1>14. MomentsStay
  BY <1>1, <1>4 DEF MomentsStay
<1>15. /\ onWire' = onWire \ {q} /\ outQueue' = outQueue /\ callNo' = callNo
       /\ \A r : r \in InFlight' <=> r \in InFlight /\ r # q
       /\ \A r \in InFlight' : r.no # q.no
  <2>1. onWire' = onWire \ {q} /\ outQueue' = outQueue /\ callNo' = callNo
    BY <1>1 DEF Dealt
  <2> QED
    BY <1>0, <2>1, RequestIsDealt
<1>16. TokensSound' /\ DeadStay
  <2>1. ASSUME NEW t \in Nat \ {0} PROVE Tokens(t)' \subseteq Tokens(t)
    BY <1>0, <1>1, DealtTokens
  <2>2. NoneCommitted
    BY <1>8, <1>9 DEF NoneCommitted
  <2> QED
    BY <1>0, <2>1, <2>2, TokensShrink
<1>17. \A t \in 1..Len(tabletTx) : \A i \in 1..Len(tabletTx[t].mods) : tabletTx[t].mods[i].no # q.no
  BY <1>0, <1>1 DEF WrittenOnce, WrittenApart, WrittenBefore
<1>18. WrittenOnce'
  <2>1. ASSUME NEW t \in 1..Len(tabletTx'), NEW v \in 1..Len(tabletTx'),
               NEW i \in 1..Len(tabletTx'[t].mods), NEW j \in 1..Len(tabletTx'[v].mods),
               tabletTx'[t].mods[i].no = tabletTx'[v].mods[j].no
        PROVE  t = v /\ i = j
    <3>1. t \in 1..Len(tabletTx) /\ v \in 1..Len(tabletTx)
      BY <1>8
    <3>2. \/ i \in 1..Len(tabletTx[t].mods) /\ tabletTx'[t].mods[i].no = tabletTx[t].mods[i].no
          \/ t = u /\ i = n + 1 /\ tabletTx'[t].mods[i].no = q.no
      BY <1>5, <1>12, <3>1
    <3>3. \/ j \in 1..Len(tabletTx[v].mods) /\ tabletTx'[v].mods[j].no = tabletTx[v].mods[j].no
          \/ v = u /\ j = n + 1 /\ tabletTx'[v].mods[j].no = q.no
      BY <1>5, <1>12, <3>1
    <3>4. CASE i \in 1..Len(tabletTx[t].mods) /\ j \in 1..Len(tabletTx[v].mods)
      <4>1. tabletTx[t].mods[i].no = tabletTx[v].mods[j].no
        BY <1>12, <2>1, <3>1, <3>4
      <4> QED
        BY <1>0, <3>1, <3>4, <4>1, Zenon DEF WrittenOnce, WrittenApart
    <3>5. CASE ~(i \in 1..Len(tabletTx[t].mods) /\ j \in 1..Len(tabletTx[v].mods))
      BY <1>17, <2>1, <3>1, <3>2, <3>3, <3>5
    <3> QED
      BY <3>4, <3>5
  <2>2. ASSUME NEW t \in 1..Len(tabletTx'), NEW i \in 1..Len(tabletTx'[t].mods),
               NEW no, no = tabletTx'[t].mods[i].no
        PROVE  no[2] <= callNo'[no[1]] /\ \A r \in InFlight' : r.kind = "modify" => r.no # no
    <3>1. t \in 1..Len(tabletTx)
      BY <1>8
    <3>2. CASE i \in 1..Len(tabletTx[t].mods)
      <4>1. no = tabletTx[t].mods[i].no
        BY <1>12, <2>2, <3>1, <3>2
      <4>2. no[2] <= callNo[no[1]] /\ \A r \in InFlight : r.kind = "modify" => r.no # no
        BY <1>0, <3>1, <3>2, <4>1 DEF WrittenOnce, WrittenBefore
      <4> QED
        BY <1>15, <4>2
    <3>3. CASE i \notin 1..Len(tabletTx[t].mods)
      <4>1. no = q.no
        BY <1>5, <1>12, <2>2, <3>1, <3>3
      <4> QED
        BY <1>3, <1>15, <4>1
    <3> QED
      BY <3>2, <3>3
  <2>3. WrittenApart'
    BY <2>1, Zenon DEF WrittenApart
  <2>4. WrittenBefore'
    BY <2>2, Zenon DEF WrittenBefore
  <2> QED
    BY <2>3, <2>4 DEF WrittenOnce
<1>19. CommitsSound'
  <2>1. ASSUME NEW i \in 1..Len(commits)
        PROVE  IsCommitted(commits[i].tx)' /\ commits[i].mods = tabletTx'[commits[i].tx].mods
    <3>1. PICK v : v = commits[i].tx
      OBVIOUS
    <3>2. IsCommitted(v) /\ v \in 1..Len(tabletTx) /\ commits[i].mods = tabletTx[v].mods
      BY <1>0, <3>1 DEF CommitsSound, IsCommitted
    <3>3. v # u
      BY <1>1, <3>2 DEF IsCommitted
    <3>4. IsCommitted(v)' /\ commits[i].mods = tabletTx'[v].mods
      BY <1>8, <1>9, <3>2, <3>3
    <3> QED
      BY <1>1, <3>1, <3>4 DEF IsCommitted
  <2>2. ASSUME NEW t \in 1..Len(tabletTx')
        PROVE  /\ tabletTx'[t].start <= Len(commits)
               /\ IsCommitted(t)' => \E i \in 1..Len(commits) : commits[i].tx = t
    BY <1>0, <1>8, <1>9, <1>12 DEF CommitsSound
  <2> QED
    BY <1>0, <1>1, <2>1, <2>2 DEF CommitsSound
<1>20. ASSUME NEW c, Confined(c) PROVE Confined(c)'
  <2>1. ASSUME NEW t \in 1..Len(tabletTx'), NEW i \in 1..Len(tabletTx'[t].mods),
               tabletTx'[t].mods[i].no = c.no
        PROVE  t = c.tx
    <3>1. t \in 1..Len(tabletTx)
      BY <1>8
    <3>2. CASE i \in 1..Len(tabletTx[t].mods)
      BY <1>12, <1>20, <2>1, <3>1, <3>2 DEF Confined
    <3>3. CASE i \notin 1..Len(tabletTx[t].mods)
      <4>1. t = u /\ c.no = q.no
        BY <1>5, <1>12, <2>1, <3>1, <3>3
      <4> QED
        BY <1>0, <1>1, <1>20, <4>1 DEF Confined
    <3> QED
      BY <3>2, <3>3
  <2>2. \A r \in InFlight' : r.kind = "modify" /\ r.no = c.no => r.tx = c.tx
    BY <1>15, <1>20 DEF Confined
  <2> QED
    BY <2>1, <2>2 DEF Confined
<1>21. PICK p : p = [no |-> q.no, kind |-> q.kind, ok |-> TRUE, tx |-> u, rows |-> <<>>]
  OBVIOUS
<1>22. ASSUME NEW c, Asks(q, c) PROVE AnswerTrue(p, c)'
  <2>1. c.tx = u /\ c.no = q.no /\ q.mod = ModifyRequest(c.mod)
    BY <1>1, <1>22 DEF Asks
  <2>2. n + 1 \in 1..Len(tabletTx'[u].mods) /\ tabletTx'[u].mods[n + 1] = e
    BY <1>4, <1>6, <1>7, <1>8
  <2>3. e = [no |-> c.no, mod |-> ModifyRequest(c.mod)]
    BY <2>1 DEF e
  <2>4. Holds(c)'
    BY <1>3, <1>8, <2>1, <2>2, <2>3 DEF Holds
  <2> QED
    BY <1>1, <1>21, <2>4 DEF AnswerTrue
<1>23. Reply(q, TRUE, u, <<>>) /\ Dealt(q) /\ commits' \in Seq(Commit)
  BY <1>1, <1>4
<1> HIDE DEF u
<1> QED
  BY <1>8, <1>13, <1>14, <1>16, <1>18, <1>19, <1>20, <1>21, <1>22, <1>23, DealtKeeps

\* Where no transaction has other writes, what was written stays once.
LEMMA WritesStay ==
  ASSUME WrittenOnce, Len(tabletTx') = Len(tabletTx),
         \A t \in 1..Len(tabletTx) : tabletTx'[t].start = tabletTx[t].start /\ tabletTx'[t].mods = tabletTx[t].mods,
         callNo' = callNo, \A r \in InFlight' : r \in InFlight
  PROVE  WrittenOnce'
<1>1. ASSUME NEW t \in 1..Len(tabletTx'), NEW v \in 1..Len(tabletTx'),
             NEW i \in 1..Len(tabletTx'[t].mods), NEW j \in 1..Len(tabletTx'[v].mods),
             tabletTx'[t].mods[i].no = tabletTx'[v].mods[j].no
      PROVE  t = v /\ i = j
  <2>1. t \in 1..Len(tabletTx) /\ tabletTx'[t].mods = tabletTx[t].mods
    OBVIOUS
  <2>2. v \in 1..Len(tabletTx) /\ tabletTx'[v].mods = tabletTx[v].mods
    OBVIOUS
  <2>3. i \in 1..Len(tabletTx[t].mods) /\ j \in 1..Len(tabletTx[v].mods)
        /\ tabletTx[t].mods[i].no = tabletTx[v].mods[j].no
    BY <1>1, <2>1, <2>2
  <2> QED
    BY <2>1, <2>2, <2>3, Zenon DEF WrittenOnce, WrittenApart
<1>2. ASSUME NEW t \in 1..Len(tabletTx'), NEW i \in 1..Len(tabletTx'[t].mods),
             NEW no, no = tabletTx'[t].mods[i].no
      PROVE  no[2] <= callNo'[no[1]] /\ \A r \in InFlight' : r.kind = "modify" => r.no # no
  <2>1. t \in 1..Len(tabletTx) /\ i \in 1..Len(tabletTx[t].mods) /\ no = tabletTx[t].mods[i].no
    BY <1>2
  <2>2. no[2] <= callNo[no[1]] /\ \A r \in InFlight : r.kind = "modify" => r.no # no
    BY <2>1 DEF WrittenOnce, WrittenBefore
  <2> QED
    BY <2>2
<1>3. WrittenApart'
  BY <1>1, Zenon DEF WrittenApart
<1>4. WrittenBefore'
  BY <1>2, Zenon DEF WrittenBefore
<1> QED
  BY <1>3, <1>4 DEF WrittenOnce

\* A transaction ends, and keeps its start and its writes.
LEMMA TxEnds ==
  ASSUME TabletTypes, WrittenOnce, NEW u \in 1..Len(tabletTx), tabletTx[u].state = "open",
         NEW s \in {"committed", "aborted", "expired"},
         tabletTx' = [tabletTx EXCEPT ![u].state = s], callNo' = callNo,
         \A r \in InFlight' : r \in InFlight
  PROVE  /\ tabletTx' \in Seq(TxRec) /\ Len(tabletTx') = Len(tabletTx) /\ TxsGrow /\ WrittenOnce'
         /\ \A t \in 1..Len(tabletTx) :
              tabletTx'[t].start = tabletTx[t].start /\ tabletTx'[t].mods = tabletTx[t].mods
         /\ \A t : IsCommitted(t)' <=> IsCommitted(t) \/ (t = u /\ s = "committed")
         /\ \A c : Confined(c) => Confined(c)'
<1> DEFINE rec == [tabletTx[u] EXCEPT !.state = s]
<1>1. /\ Len(tabletTx) \in Nat /\ tabletTx \in Seq(TxRec) /\ DOMAIN tabletTx = 1..Len(tabletTx)
      /\ tabletTx[u] \in TxRec
  BY TabletFacts DEF TabletTypes
<1>2. rec \in TxRec /\ rec.mods = tabletTx[u].mods /\ rec.state = s /\ rec.start = tabletTx[u].start
  BY <1>1 DEF TxRec
<1>3. tabletTx' = [tabletTx EXCEPT ![u] = rec]
  OBVIOUS
<1> HIDE DEF rec
<1>4. /\ tabletTx' \in Seq(TxRec) /\ Len(tabletTx') = Len(tabletTx) /\ tabletTx'[u] = rec
      /\ \A t \in 1..Len(tabletTx) : t # u => tabletTx'[t] = tabletTx[t]
  BY <1>1, <1>2, <1>3
<1>5. ASSUME NEW t \in 1..Len(tabletTx)
      PROVE  tabletTx'[t].start = tabletTx[t].start /\ tabletTx'[t].mods = tabletTx[t].mods
  BY <1>2, <1>4
<1>6. \A t : IsCommitted(t)' <=> IsCommitted(t) \/ (t = u /\ s = "committed")
  BY <1>2, <1>4 DEF IsCommitted
<1>7. TxsGrow
  <2>1. \A t \in 1..Len(tabletTx) : Len(tabletTx[t].mods) \in Nat
    BY TabletFacts
  <2> QED
    BY <1>1, <1>4, <1>5, <1>6, <2>1 DEF TxsGrow
<1>8. WrittenOnce'
  BY <1>4, <1>5, WritesStay
<1>9. ASSUME NEW c, Confined(c) PROVE Confined(c)'
  <2>1. \A t \in 1..Len(tabletTx') : t \in 1..Len(tabletTx) /\ tabletTx'[t].mods = tabletTx[t].mods
    BY <1>4, <1>5
  <2>2. \A t \in 1..Len(tabletTx') : \A i \in 1..Len(tabletTx'[t].mods) :
          tabletTx'[t].mods[i].no = c.no => t = c.tx
    BY <1>9, <2>1 DEF Confined
  <2>3. \A r \in InFlight' : r.kind = "modify" /\ r.no = c.no => r.tx = c.tx
    BY <1>9 DEF Confined
  <2> QED
    BY <2>2, <2>3 DEF Confined
<1> QED
  BY <1>4, <1>5, <1>6, <1>7, <1>8, <1>9

\* The commits are sound where a transaction ends without one.
LEMMA CommitsStay ==
  ASSUME CommitsSound, commits' = commits, Len(tabletTx') = Len(tabletTx),
         \A t \in 1..Len(tabletTx) :
              tabletTx'[t].start = tabletTx[t].start /\ tabletTx'[t].mods = tabletTx[t].mods,
         \A t : IsCommitted(t)' <=> IsCommitted(t)
  PROVE  CommitsSound'
<1>1. ASSUME NEW i \in 1..Len(commits)
      PROVE  IsCommitted(commits[i].tx)' /\ commits[i].mods = tabletTx'[commits[i].tx].mods
  <2>1. PICK v : v = commits[i].tx
    OBVIOUS
  <2>2. IsCommitted(v) /\ v \in 1..Len(tabletTx) /\ commits[i].mods = tabletTx[v].mods
    BY <2>1 DEF CommitsSound, IsCommitted
  <2>3. IsCommitted(v)' /\ commits[i].mods = tabletTx'[v].mods
    BY <2>2
  <2> QED
    BY <2>1, <2>3 DEF IsCommitted
<1>2. ASSUME NEW t \in 1..Len(tabletTx')
      PROVE  /\ tabletTx'[t].start <= Len(commits)
             /\ IsCommitted(t)' => \E i \in 1..Len(commits) : commits[i].tx = t
  BY DEF CommitsSound
<1> QED
  BY <1>1, <1>2 DEF CommitsSound

\* A transaction is aborted.
LEMMA AbortKeeps ==
  ASSUME TabletInv, NEW q \in onWire, DealEnd(q), q.kind = "abort"
  PROVE  TabletInv'
<1>0. /\ TabletTypes /\ NoCopies /\ TokensSound /\ WrittenOnce /\ CommitsSound /\ RequestsSound
      /\ q \in InFlight
  BY FlightIs DEF TabletInv
<1>1. PICK u : u = q.tx
  OBVIOUS
<1>2. /\ tabletTx[u].state = "open" /\ Dealt(q) /\ Reply(q, TRUE, u, <<>>)
      /\ tabletTx' = [tabletTx EXCEPT ![u].state = "aborted"] /\ commits' = commits
  BY <1>1 DEF DealEnd, IsOpen
<1>3. u \in 1..Len(tabletTx) /\ Len(tabletTx) \in Nat
  BY <1>0, <1>1, TabletFacts DEF RequestsSound, RequestOK
<1>4. callNo' = callNo /\ \A r \in InFlight' : r \in InFlight
  BY <1>0, <1>2, RequestIsDealt DEF Dealt
<1>5. /\ tabletTx' \in Seq(TxRec) /\ Len(tabletTx') = Len(tabletTx) /\ TxsGrow /\ WrittenOnce'
      /\ \A t \in 1..Len(tabletTx) :
           tabletTx'[t].start = tabletTx[t].start /\ tabletTx'[t].mods = tabletTx[t].mods
      /\ \A t : IsCommitted(t)' <=> IsCommitted(t) \/ (t = u /\ "aborted" = "committed")
      /\ \A c : Confined(c) => Confined(c)'
  <2>1. "aborted" \in {"committed", "aborted", "expired"}
    OBVIOUS
  <2> QED
    BY <1>0, <1>2, <1>3, <1>4, <2>1, TxEnds
<1>6. \A t : IsCommitted(t)' <=> IsCommitted(t)
  BY <1>5
<1>7. TokensSound' /\ DeadStay
  <2>1. ASSUME NEW t \in Nat \ {0} PROVE Tokens(t)' \subseteq Tokens(t)
    BY <1>0, <1>2, DealtTokens
  <2>2. NoneCommitted
    BY <1>5, <1>6 DEF NoneCommitted
  <2> QED
    BY <1>0, <2>1, <2>2, TokensShrink
<1>8. CommitsSound'
  BY <1>0, <1>2, <1>5, <1>6, CommitsStay
<1>9. MomentsStay /\ commits' \in Seq(Commit)
  BY <1>0, <1>2, TabletFacts DEF MomentsStay, TabletTypes
<1>10. PICK p : p = [no |-> q.no, kind |-> q.kind, ok |-> TRUE, tx |-> u, rows |-> <<>>]
  OBVIOUS
<1>11. \A c : Asks(q, c) => AnswerTrue(p, c)'
  BY <1>10 DEF AnswerTrue
<1> QED
  BY <1>2, <1>5, <1>7, <1>8, <1>9, <1>10, <1>11, DealtKeeps

\* A transaction is committed, and what it wrote is published.
LEMMA CommitKeeps ==
  ASSUME TabletInv, NEW q \in onWire, DealEnd(q), q.kind = "commit"
  PROVE  TabletInv'
<1>0. /\ TabletTypes /\ NoCopies /\ TokensSound /\ WrittenOnce /\ CommitsSound /\ RequestsSound
      /\ q \in InFlight
  BY FlightIs DEF TabletInv
<1>1. PICK u : u = q.tx
  OBVIOUS
<1>2. PICK commit : commit = [tx |-> u, mods |-> tabletTx[u].mods]
  OBVIOUS
<1>3. /\ tabletTx[u].state = "open" /\ Dealt(q) /\ Reply(q, TRUE, u, <<>>)
      /\ tabletTx' = [tabletTx EXCEPT ![u].state = "committed"] /\ commits' = Append(commits, commit)
  BY <1>1, <1>2 DEF DealEnd, IsOpen
<1>4. /\ u \in 1..Len(tabletTx) /\ Len(tabletTx) \in Nat /\ Len(commits) \in Nat /\ commits \in Seq(Commit)
      /\ u \in Nat \ {0}
  <2>1. u \in 1..Len(tabletTx)
    BY <1>0, <1>1 DEF RequestsSound, RequestOK
  <2> QED
    BY <1>0, <2>1, TabletFacts DEF TabletTypes
<1>5. callNo' = callNo /\ \A r \in InFlight' : r \in InFlight
  BY <1>0, <1>3, RequestIsDealt DEF Dealt
<1>6. /\ tabletTx' \in Seq(TxRec) /\ Len(tabletTx') = Len(tabletTx) /\ TxsGrow /\ WrittenOnce'
      /\ \A t \in 1..Len(tabletTx) :
           tabletTx'[t].start = tabletTx[t].start /\ tabletTx'[t].mods = tabletTx[t].mods
      /\ \A t : IsCommitted(t)' <=> IsCommitted(t) \/ (t = u /\ "committed" = "committed")
      /\ \A c : Confined(c) => Confined(c)'
  <2>1. "committed" \in {"committed", "aborted", "expired"}
    OBVIOUS
  <2> QED
    BY <1>0, <1>3, <1>4, <1>5, <2>1, TxEnds
<1>7. \A t : IsCommitted(t)' <=> IsCommitted(t) \/ t = u
  BY <1>6
<1>8. commit \in Commit /\ commit.tx = u /\ commit.mods = tabletTx[u].mods
  <2>1. tabletTx[u].mods \in Seq(Entry)
    BY <1>0, <1>4, TabletFacts
  <2> QED
    BY <1>2, <1>4, <2>1 DEF Commit
<1>9. /\ commits' \in Seq(Commit) /\ Len(commits') = Len(commits) + 1 /\ commits'[Len(commits) + 1] = commit
      /\ \A i \in 1..Len(commits) : commits'[i] = commits[i]
  BY <1>3, <1>4, <1>8, AppendProperties
<1>10. MomentsStay
  <2>1. Len(commits) <= Len(commits')
    BY <1>4, <1>9
  <2>2. \A ts \in 0..Len(commits) : TableAt(Append(commits, commit), ts) = TableAt(commits, ts)
    BY <1>4, <1>8, TableStays
  <2> QED
    BY <1>3, <2>1, <2>2 DEF MomentsStay
<1>11. /\ \A t : Tokens(t)' \subseteq Tokens(t)
       /\ <<"commit", q.no>> \in Tokens(u) /\ <<"commit", q.no>> \notin Tokens(u)'
  <2>1. \A t : Tokens(t)' \subseteq Tokens(t) /\ <<"commit", q.no>> \notin Tokens(t)'
    BY <1>0, <1>3, DealtTokens
  <2>2. <<"commit", q.no>> \in Tokens(u)
    BY <1>0, <1>1 DEF Tokens, CommitTokens
  <2> QED
    BY <2>1, <2>2
<1>12. Tokens(u)' = {}
  BY <1>0, <1>4, <1>11 DEF TokensSound
<1>13. TokensSound' /\ DeadStay
  <2>1. ASSUME NEW t \in Nat \ {0}
        PROVE  /\ \A x, y \in Tokens(t)' : x = y
               /\ Tokens(t)' # {} => t \in 1..Len(tabletTx') /\ ~IsCommitted(t)'
    <3>1. CASE t = u
      BY <1>12, <3>1
    <3>2. CASE t # u
      BY <1>0, <1>6, <1>7, <1>11, <3>2 DEF TokensSound
    <3> QED
      BY <3>1, <3>2
  <2>2. ASSUME NEW t \in 1..Len(tabletTx), IsDead(t) PROVE IsDead(t)'
    <3>1. t # u
      BY <1>11, <2>2 DEF IsDead
    <3> QED
      BY <1>6, <1>7, <1>11, <2>2, <3>1 DEF IsDead
  <2> QED
    BY <2>1, <2>2 DEF TokensSound, DeadStay
<1>14. ~IsCommitted(u)
  BY <1>3 DEF IsCommitted
<1>15. CommitsSound'
  <2>1. \A i : i \in 1..Len(commits') <=> i \in 1..Len(commits) \/ i = Len(commits) + 1
    BY <1>4, <1>9
  <2>2. ASSUME NEW i \in 1..Len(commits')
        PROVE  (IsCommitted(commits[i].tx) /\ commits[i].mods = tabletTx[commits[i].tx].mods)'
    <3>1. PICK v : v = commits'[i].tx
      OBVIOUS
    <3>2. CASE i = Len(commits) + 1
      <4>1. v = u /\ commits'[i].mods = tabletTx[u].mods
        BY <1>8, <1>9, <3>1, <3>2
      <4>2. IsCommitted(v)' /\ commits'[i].mods = tabletTx'[v].mods
        BY <1>4, <1>6, <4>1
      <4> QED
        BY <3>1, <4>2 DEF IsCommitted
    <3>3. CASE i \in 1..Len(commits)
      <4>1. v = commits[i].tx /\ commits'[i].mods = commits[i].mods
        BY <1>9, <3>1, <3>3
      <4>2. IsCommitted(v) /\ v \in 1..Len(tabletTx) /\ commits[i].mods = tabletTx[v].mods
        BY <1>0, <3>3, <4>1 DEF CommitsSound, IsCommitted
      <4>3. IsCommitted(v)' /\ commits'[i].mods = tabletTx'[v].mods
        BY <1>6, <4>1, <4>2
      <4> QED
        BY <3>1, <4>3 DEF IsCommitted
    <3> QED
      BY <2>1, <2>2, <3>2, <3>3
  <2>3. \A i \in 1..Len(commits) : commits[i].tx # u
    BY <1>0, <1>14 DEF CommitsSound
  <2>4. \A i, j \in 1..Len(commits') : commits'[i].tx = commits'[j].tx => i = j
    BY <1>0, <1>8, <1>9, <2>1, <2>3 DEF CommitsSound
  <2>5. ASSUME NEW t \in 1..Len(tabletTx')
        PROVE  /\ tabletTx'[t].start <= Len(commits')
               /\ IsCommitted(t)' => \E i \in 1..Len(commits') : commits'[i].tx = t
    <3>1. tabletTx'[t].start = tabletTx[t].start /\ tabletTx[t].start \in Nat /\ tabletTx[t].start <= Len(commits)
      BY <1>0, <1>6, TabletFacts DEF CommitsSound
    <3>2. tabletTx'[t].start <= Len(commits')
      BY <1>4, <1>9, <3>1
    <3>3. CASE t = u
      BY <1>8, <1>9, <2>1, <3>2, <3>3
    <3>4. CASE t # u
      <4>1. IsCommitted(t)' => \E i \in 1..Len(commits) : commits[i].tx = t
        BY <1>0, <1>6, <1>7, <3>4 DEF CommitsSound
      <4> QED
        BY <1>9, <2>1, <3>2, <4>1
    <3> QED
      BY <3>3, <3>4
  <2> QED
    BY <2>2, <2>4, <2>5 DEF CommitsSound
<1>16. PICK p : p = [no |-> q.no, kind |-> q.kind, ok |-> TRUE, tx |-> u, rows |-> <<>>]
  OBVIOUS
<1>17. ASSUME NEW c, Asks(q, c) PROVE AnswerTrue(p, c)'
  <2>1. c.tx = u
    BY <1>1, <1>17 DEF Asks
  <2>2. IsCommitted(c.tx)'
    BY <1>7, <2>1
  <2> QED
    BY <1>16, <2>2 DEF AnswerTrue
<1> QED
  BY <1>3, <1>6, <1>9, <1>10, <1>13, <1>15, <1>16, <1>17, DealtKeeps

\* A transaction expires.
LEMMA ExpireKeeps ==
  ASSUME TabletInv, NEW u \in DOMAIN tabletTx, ExpireTablet(u)
  PROVE  TabletInv'
<1>0. /\ TabletTypes /\ NoCopies /\ TokensSound /\ WrittenOnce /\ RequestsSound /\ CallsSound
      /\ AnswersSound /\ CommitsSound /\ DoneSound
  BY DEF TabletInv
<1>1. /\ tabletTx[u].state = "open" /\ tabletTx' = [tabletTx EXCEPT ![u].state = "expired"]
      /\ commits' = commits /\ outQueue' = outQueue /\ onWire' = onWire /\ replies' = replies
      /\ apiAt' = apiAt /\ apiCall' = apiCall /\ handle' = handle /\ program' = program
      /\ callNo' = callNo /\ apiDone' = apiDone
  BY DEF ExpireTablet, IsOpen
<1>2. u \in 1..Len(tabletTx) /\ Len(tabletTx) \in Nat
  BY <1>0, TabletFacts
<1>3. InFlight' = InFlight /\ NoCopies'
  BY <1>0, <1>1 DEF InFlight, Queued, NoCopies
<1>4. /\ tabletTx' \in Seq(TxRec) /\ Len(tabletTx') = Len(tabletTx) /\ TxsGrow /\ WrittenOnce'
      /\ \A t \in 1..Len(tabletTx) :
           tabletTx'[t].start = tabletTx[t].start /\ tabletTx'[t].mods = tabletTx[t].mods
      /\ \A t : IsCommitted(t)' <=> IsCommitted(t) \/ (t = u /\ "expired" = "committed")
      /\ \A c : Confined(c) => Confined(c)'
  <2>1. "expired" \in {"committed", "aborted", "expired"} /\ \A r \in InFlight' : r \in InFlight
    BY <1>3
  <2> QED
    BY <1>0, <1>1, <1>2, <2>1, TxEnds
<1>5. \A t : IsCommitted(t)' <=> IsCommitted(t)
  BY <1>4
<1>6. TabletTypes'
  BY <1>0, <1>1, <1>4 DEF TabletTypes
<1>7. TokensSound' /\ DeadStay
  <2>1. ASSUME NEW t \in Nat \ {0} PROVE Tokens(t)' \subseteq Tokens(t)
    BY <1>1, <1>3 DEF Tokens, StartTokens, HandleTokens, WriteTokens, CommitTokens
  <2>2. NoneCommitted
    BY <1>4, <1>5 DEF NoneCommitted
  <2> QED
    BY <1>0, <2>1, <2>2, TokensShrink
<1>8. CommitsSound'
  BY <1>0, <1>1, <1>4, <1>5, CommitsStay
<1>9. MomentsStay
  BY <1>0, <1>1, TabletFacts DEF MomentsStay
<1>10. callNo \in [Apps -> Nat]
  BY <1>0 DEF TabletTypes
<1>11. RequestsSound'
  <2>1. ASSUME NEW r \in InFlight PROVE RequestOK(r)'
    <3>1. r \in TabletReq /\ RequestOK(r)
      BY <1>0, FlightsAreRequests DEF RequestsSound
    <3>2. r.no[1] \in Apps
      BY <3>1 DEF TabletReq
    <3>3. callNo[r.no[1]] <= callNo'[r.no[1]]
      BY <1>1, <1>10, <3>2
    <3> QED
      BY <1>0, <1>1, <1>4, <1>6, <3>1, <3>3, RequestStays
  <2> QED
    BY <1>3, <2>1 DEF RequestsSound
<1>12. CallsSound'
  <2>1. ASSUME NEW b \in Apps, apiAt'[b] # "idle" PROVE CallOK(b)'
    <3>1. CallOK(b) /\ callNo'[b] = callNo[b]
      BY <1>0, <1>1, <2>1 DEF CallsSound
    <3>2. PICK c : c = apiCall[b]
      OBVIOUS
    <3>3. Confined(c) => Confined(c)'
      BY <1>4
    <3>4. Confined(apiCall[b]) => Confined(apiCall[b])'
      BY <1>1, <3>2, <3>3 DEF Confined
    <3> QED
      BY <1>0, <1>1, <1>4, <1>6, <1>9, <3>1, <3>4, CallStays
  <2> QED
    BY <2>1 DEF CallsSound
<1>13. AnswersSound'
  <2>1. ASSUME NEW p \in replies PROVE AnswerOK(p)'
    <3>1. AnswerOK(p)
      BY <1>0 DEF AnswersSound
    <3>2. \A r \in InFlight' : r.no # p.no
      BY <1>3, <3>1 DEF AnswerOK
    <3> QED
      BY <1>0, <1>1, <1>4, <1>6, <1>7, <1>9, <3>1, <3>2, UnreadStays
  <2> QED
    BY <1>0, <1>1, <2>1 DEF AnswersSound
<1>14. DoneSound'
  <2>1. ASSUME NEW d \in apiDone PROVE DoneOK(d)'
    <3>1. DoneOK(d)
      BY <1>0 DEF DoneSound
    <3>2. Gone(d.call)'
      BY <1>1, <3>1 DEF Gone, DoneOK
    <3>3. Confined(d.call) => Confined(d.call)'
      BY <1>4
    <3> QED
      BY <1>0, <1>4, <1>6, <1>7, <1>9, <3>1, <3>2, <3>3, DoneStays
  <2> QED
    BY <1>1, <2>1 DEF DoneSound
<1> QED
  BY <1>3, <1>4, <1>6, <1>7, <1>8, <1>11, <1>12, <1>13, <1>14 DEF TabletInv

-----------------------------------------------------------------------------
(***************************************************************************)
(* Every step keeps the invariant.                                         *)
(***************************************************************************)
\* The next call of a program.
LEMMA UpcomingIs ==
  ASSUME TabletAssumption, TabletTypes, NEW a \in Apps, callNo[a] < Len(program[a])
  PROVE  /\ Upcoming(a) \in ProgramSteps
         /\ Upcoming(a).api \in {"alone", "modify"} => Upcoming(a).mod \in Mods
<1>1. PICK p \in Programs : p = program
  BY DEF TabletTypes
<1>2. p[a] \in Seq(ProgramSteps) /\ \A i \in DOMAIN p[a] : p[a][i].api \in {"alone", "modify"} => p[a][i].mod \in Mods
  BY TabletAssumption
<1>3. callNo[a] \in Nat /\ Len(p[a]) \in Nat /\ DOMAIN p[a] = 1..Len(p[a])
  BY <1>2 DEF TabletTypes
<1>4. callNo[a] + 1 \in 1..Len(p[a])
  BY <1>1, <1>3
<1>5. p[a][callNo[a] + 1] \in ProgramSteps
  BY <1>2, <1>4
<1> QED
  BY <1>1, <1>2, <1>3, <1>4, <1>5 DEF Upcoming

\* A call that is made keeps the invariant.
LEMMA CallsKeeps ==
  ASSUME TabletAssumption, TabletInv, NEW a \in Apps, NEW api, NEW tx \in Nat, NEW kind \in Kinds,
         Calls(a, api, tx, kind), tx <= Len(tabletTx),
         kind \notin {"start", "read"} => tx # 0,
         kind = "modify" => api = "modify",
         api = "alone" => kind = "start" /\ tx = 0,
         api \in {"start", "modify", "commit"} => kind = api,
         api \in {"read", "lookup"} => kind = "read",
         \/ kind # "commit" /\ handle' = handle
         \/ tx # 0 /\ handle[a] = tx /\ handle' = [handle EXCEPT ![a] = 0]
  PROVE  TabletInv'
<1>0. TabletTypes
  BY DEF TabletInv
<1>1. PICK up : up = Upcoming(a)
  OBVIOUS
<1>2. apiAt[a] = "idle" /\ callNo[a] < Len(program[a]) /\ up.api = api
  BY <1>1 DEF Calls, May
<1>3. up \in ProgramSteps /\ (api \in {"alone", "modify"} => up.mod \in Mods)
  BY <1>0, <1>1, <1>2, UpcomingIs
<1>4. callNo[a] \in Nat /\ Len(commits) \in Nat
  BY <1>0, TabletFacts DEF TabletTypes
<1>5. PICK call : call = [no |-> <<a, callNo[a] + 1>>, api |-> api, tx |-> tx, mod |-> up.mod,
                          keys |-> up.keys, since |-> Len(commits)]
  OBVIOUS
<1>6. /\ call.no = <<a, callNo[a] + 1>> /\ call.api = api /\ call.tx = tx /\ call.mod = up.mod
      /\ call.since = Len(commits)
  BY <1>5
<1>7. call \in CallRec
  <2>1. up.api \in STRING /\ up.mod \in Mods \cup {NoRow} /\ up.keys \in Seq(TableKeys)
    BY <1>3 DEF ProgramSteps
  <2> QED
    BY <1>2, <1>4, <1>5, <2>1 DEF CallRec
<1>8. /\ callNo' = [callNo EXCEPT ![a] = @ + 1] /\ Block(a, call, kind)
      /\ UNCHANGED <<tabletTx, commits, onWire, replies, program, apiDone>>
  BY <1>1, <1>5 DEF Calls, tabletClusterVars
<1>9. /\ call.tx <= Len(tabletTx)
      /\ kind \notin {"start", "read"} => call.tx # 0
      /\ kind = "modify" => call.mod \in Mods
      /\ call.api = "alone" => call.mod \in Mods /\ kind = "start" /\ call.tx = 0
      /\ call.api \in {"start", "modify", "commit"} => kind = call.api
      /\ call.api \in {"read", "lookup"} => kind = "read"
      /\ \/ kind # "commit" /\ handle' = handle
         \/ call.tx # 0 /\ handle[a] = call.tx /\ handle' = [handle EXCEPT ![a] = 0]
  BY <1>3, <1>6
<1> QED
  BY <1>2, <1>6, <1>7, <1>8, <1>9, BeginsKeeps

\* Giving a handle up changes nothing else.
LEMMA DropKeeps ==
  ASSUME TabletInv, NEW a \in Apps, DropTx(a)
  PROVE  TabletInv'
<1>0. TabletTypes /\ NoCopies
  BY DEF TabletInv
<1>1. /\ apiAt[a] = "idle" /\ callNo' = [callNo EXCEPT ![a] = @ + 1] /\ handle' = [handle EXCEPT ![a] = 0]
      /\ UNCHANGED <<tabletTx, commits, outQueue, onWire, replies, apiAt, apiCall, program, apiDone>>
  BY DEF DropTx, May, tabletClusterVars
<1>2. callNo \in [Apps -> Nat] /\ handle \in [Apps -> Nat] /\ Len(tabletTx) \in Nat
  BY <1>0, TabletFacts DEF TabletTypes
<1>3. /\ callNo' \in [Apps -> Nat]
      /\ \A b \in Apps : callNo[b] <= callNo'[b] /\ (apiAt[b] # "idle" => callNo'[b] = callNo[b])
  BY <1>1, <1>2
<1>4. handle' \in [Apps -> Nat] /\ \A b \in Apps : handle'[b] = handle[b] \/ handle'[b] = 0
  BY <1>1, <1>2
<1>5. \A b \in Apps : handle'[b] <= Len(tabletTx)
  <2>1. \A b \in Apps : handle[b] <= Len(tabletTx)
    BY <1>0 DEF TabletTypes
  <2> SUFFICES ASSUME NEW b \in Apps PROVE handle'[b] <= Len(tabletTx)
    OBVIOUS
  <2>2. handle'[b] = handle[b] \/ handle'[b] = 0
    BY <1>4
  <2> QED
    BY <1>2, <2>1, <2>2
<1>6. TabletTypes'
  BY <1>0, <1>1, <1>3, <1>4, <1>5 DEF TabletTypes
<1>7. InFlight' = InFlight /\ NoCopies'
  BY <1>0, <1>1 DEF InFlight, Queued, NoCopies
<1> QED
  BY <1>1, <1>3, <1>4, <1>6, <1>7, QuietKeeps

\* A request goes out.
LEMMA WriterRunsKeeps ==
  ASSUME TabletInv, NEW a \in Apps, WriterRuns(a)
  PROVE  TabletInv'
<1>0. TabletTypes /\ NoCopies
  BY DEF TabletInv
<1>1. /\ outQueue[a] # <<>> /\ onWire' = onWire \cup {Head(outQueue[a])}
      /\ outQueue' = [outQueue EXCEPT ![a] = Tail(@)]
      /\ UNCHANGED <<tabletTx, commits, replies, apiAt, apiCall, handle, program, callNo, apiDone>>
  BY DEF WriterRuns, tabletClusterVars
<1>2. /\ outQueue' \in [Apps -> Seq(TabletReq)] /\ onWire' \in SUBSET TabletReq /\ NoCopies'
      /\ \A r : r \in InFlight' <=> r \in InFlight
  BY <1>0, <1>1, RequestGoesOut
<1>3. TabletTypes'
  BY <1>0, <1>1, <1>2 DEF TabletTypes
<1>4. callNo \in [Apps -> Nat]
  BY <1>0 DEF TabletTypes
<1>5. /\ \A b \in Apps : callNo[b] <= callNo'[b] /\ (apiAt[b] # "idle" => callNo'[b] = callNo[b])
      /\ \A b \in Apps : handle'[b] = handle[b] \/ handle'[b] = 0
  BY <1>1, <1>4
<1> QED
  BY <1>1, <1>2, <1>3, <1>5, QuietKeeps

\* An answer is read: the call goes on, or returns with what is true.
LEMMA AnsweredKeeps ==
  ASSUME TabletAssumption, TabletInv, NEW a \in Apps, Answered(a)
  PROVE  TabletInv'
<1>0. TabletTypes /\ CallsSound /\ AnswersSound /\ CommitsSound
  BY DEF TabletInv
<1>1. PICK c, at : c = apiCall[a] /\ at = apiAt[a]
  OBVIOUS
<1> DEFINE rowsOf(r) == [i \in DOMAIN r.rows |-> IF r.rows[i] = NoRow THEN NoRow
                                                 ELSE FromWire(r.rows[i], ReplyNames)]
<1>2. PICK r \in replies :
        /\ at # "idle" /\ r.no = c.no /\ r.kind = at /\ replies' = replies \ {r}
        /\ IF GoesOn(a, r)
           THEN /\ Block(a, IF r.kind = "start" THEN [c EXCEPT !.tx = r.tx] ELSE c,
                         IF r.kind = "start" THEN "modify" ELSE "commit")
                /\ UNCHANGED <<handle, apiDone>>
           ELSE /\ ApiReturns(a, IF r.ok THEN "ok" ELSE "refused", rowsOf(r))
                /\ handle' = IF c.api = "start" /\ r.ok THEN [handle EXCEPT ![a] = r.tx] ELSE handle
        /\ UNCHANGED <<tabletTx, commits, onWire, program, callNo>>
  BY <1>1 DEF Answered, tabletClusterVars
<1>3. /\ c \in CallRec /\ c.no = <<a, callNo[a]>> /\ c.tx <= Len(tabletTx)
      /\ c.api = "alone" => at \in {"start", "modify", "commit"} /\ (at = "commit" => Holds(c))
      /\ c.api \in {"start", "modify", "commit"} => at = c.api
      /\ c.api \in {"read", "lookup"} => at = "read"
  BY <1>0, <1>1, <1>2 DEF CallsSound, CallOK, Holds
<1>4. r.no[1] = a
  BY <1>2, <1>3
<1>5. AnswerTrue(r, c) /\ r.ok \in BOOLEAN
  <2>1. AnswerOK(r)
    BY <1>0 DEF AnswersSound
  <2> QED
    BY <1>1, <1>4, <2>1 DEF AnswerOK, AnswerTrue, Holds, Moments
<1>6. GoesOn(a, r) <=> c.api = "alone" /\ at # "commit" /\ r.ok
  BY <1>1 DEF GoesOn
<1>7. CASE GoesOn(a, r)
  <2>1. PICK call, kind : /\ call = IF r.kind = "start" THEN [c EXCEPT !.tx = r.tx] ELSE c
                          /\ kind = IF r.kind = "start" THEN "modify" ELSE "commit"
    OBVIOUS
  <2>2. Block(a, call, kind) /\ UNCHANGED <<tabletTx, commits, onWire, handle, program, callNo, apiDone>>
    BY <1>2, <1>7, <2>1
  <2>3. \/ r.kind = "start" /\ call = [c EXCEPT !.tx = r.tx] /\ kind = "modify"
        \/ r.kind = "modify" /\ call = c /\ kind = "commit"
    BY <1>2, <1>3, <1>6, <1>7, <2>1
  <2>4. c = apiCall[a] /\ r.no = c.no /\ r.kind = apiAt[a] /\ r.ok /\ c.api = "alone" /\ apiAt[a] # "idle"
        /\ replies' = replies \ {r}
    BY <1>1, <1>2, <1>6, <1>7
  <2> QED
    BY <2>2, <2>3, <2>4, GoesOnKeeps
<1>8. CASE ~GoesOn(a, r)
  <2>1. PICK how, rows : how = (IF r.ok THEN "ok" ELSE "refused") /\ rows = rowsOf(r)
    OBVIOUS
  <2>2. /\ ApiReturns(a, how, rows)
        /\ handle' = IF c.api = "start" /\ r.ok THEN [handle EXCEPT ![a] = r.tx] ELSE handle
        /\ UNCHANGED <<tabletTx, commits, onWire, program, callNo>>
    BY <1>2, <1>8, <2>1
  <2>3. how # "timeout" /\ (how = "ok" <=> r.ok) /\ (how \in {"ok", "refused"})
    BY <1>5, <2>1
  <2>4. replies' \in SUBSET replies /\ \A p \in replies' : p.no # c.no
    BY <1>0, <1>2 DEF AnswersSound
  <2>5. \/ handle' = handle
        \/ \E p \in replies : /\ p.kind = "start" /\ p.ok /\ p.no = c.no /\ c.api = "start"
                              /\ handle' = [handle EXCEPT ![a] = p.tx]
    BY <1>2, <1>3, <2>2
  <2>6. c.api = "alone" /\ how = "ok" => Holds(c) /\ IsCommitted(c.tx)
    BY <1>2, <1>3, <1>5, <1>6, <1>8, <2>3 DEF AnswerTrue
  <2>7. c.api = "alone" /\ how \notin {"ok", "timeout"} => at \in {"start", "modify"} \/ IsDead(c.tx)
    BY <1>2, <1>3, <1>5, <2>3 DEF AnswerTrue
  <2>8. c.api = "modify" /\ how = "ok" => Holds(c)
    BY <1>2, <1>3, <1>5, <2>3 DEF AnswerTrue
  <2>9. c.api = "commit" /\ how # "timeout" => IF how = "ok" THEN IsCommitted(c.tx) ELSE IsDead(c.tx)
    BY <1>2, <1>3, <1>5, <2>3 DEF AnswerTrue
  <2>10. c.api \in {"read", "lookup"} /\ how = "ok" =>
           \E ts \in Moments(c, Len(commits)) : Got(rows) = Expected(ts, c.keys)
    <3> SUFFICES ASSUME c.api \in {"read", "lookup"}, how = "ok"
                 PROVE  \E ts \in Moments(c, Len(commits)) : Got(rows) = Expected(ts, c.keys)
      OBVIOUS
    <3>1. PICK ts \in Moments(c, Len(commits)) :
            r.rows = [i \in DOMAIN c.keys |-> Replied(AsOf(ts)[c.keys[i]])]
      BY <1>2, <1>3, <1>5, <2>3 DEF AnswerTrue
    <3>2. ts \in 0..Len(commits) /\ commits \in Seq(Commit)
      <4>1. Len(commits) \in Nat /\ Len(commits) <= Len(commits)
        BY <1>0, TabletFacts
      <4> QED
        BY <1>0, <1>3, <3>1, <4>1, MomentsAre DEF TabletTypes
    <3>3. PICK table \in TabletTable : table = AsOf(ts)
      BY <3>2, TableAtIn DEF AsOf
    <3>4. c.keys \in Seq(TableKeys)
      BY <1>3 DEF CallRec
    <3>5. r.rows = AnswerOf(table, c.keys)
      BY <3>1, <3>3 DEF AnswerOf
    <3>6. rows = ReadOf(r.rows)
      BY <2>1 DEF ReadOf
    <3>7. Got(ReadOf(AnswerOf(table, c.keys))) = RowsOf(table, c.keys)
      BY <3>4, AnswersAreRead
    <3>8. Expected(ts, c.keys) = RowsOf(table, c.keys)
      BY <3>3 DEF Expected, RowsOf
    <3>9. Got(rows) = Expected(ts, c.keys)
      BY <3>5, <3>6, <3>7, <3>8
    <3> QED
      BY <3>1, <3>9
  <2>11. c = apiCall[a] /\ at = apiAt[a] /\ at # "idle"
    BY <1>1, <1>2
  <2>12. ApiReturns(a, how, rows) /\ UNCHANGED <<tabletTx, commits, onWire, program, callNo>>
    BY <2>2
  <2> HIDE DEF rowsOf
  <2> QED
    BY <2>4, <2>5, <2>6, <2>7, <2>8, <2>9, <2>10, <2>11, <2>12, ReturnsKeeps
<1> QED
  BY <1>7, <1>8

\* The deadline passes: nothing is said of the call.
LEMMA TimesOutKeeps ==
  ASSUME TabletInv, NEW a \in Apps, TimesOut(a)
  PROVE  TabletInv'
<1>1. PICK c, at, how : c = apiCall[a] /\ at = apiAt[a] /\ how = "timeout"
  OBVIOUS
<1>2. /\ at # "idle" /\ ApiReturns(a, how, <<>>) /\ handle' = handle
      /\ replies' \in SUBSET replies /\ \A p \in replies' : p.no # c.no
      /\ UNCHANGED <<tabletTx, commits, onWire, program, callNo>>
  BY <1>1 DEF TimesOut, tabletClusterVars
<1> QED
  BY <1>1, <1>2, ReturnsKeeps

\* Nothing has happened at first.
LEMMA TabletStarts ==
  ASSUME TabletAssumption, TabletInit
  PROVE  TabletInv
<1>1. /\ tabletTx = <<>> /\ commits = <<>> /\ outQueue = [a \in Apps |-> <<>>] /\ onWire = {} /\ replies = {}
      /\ apiAt = [a \in Apps |-> "idle"] /\ apiCall = [a \in Apps |-> NoRow] /\ handle = [a \in Apps |-> 0]
      /\ program \in Programs /\ callNo = [a \in Apps |-> 0] /\ apiDone = {}
  BY DEF TabletInit
<1>2. Len(tabletTx) = 0 /\ Len(commits) = 0 /\ \A i : i \notin 1..0
  BY <1>1
<1>3. \A a \in Apps : Len(outQueue[a]) = 0
  BY <1>1
<1>4. InFlight = {}
  <2> SUFFICES ASSUME NEW r \in InFlight PROVE FALSE
    OBVIOUS
  <2> QED
    BY <1>1, <1>2, <1>3, FlightIs
<1>5. TabletTypes
  <2>1. tabletTx \in Seq(TxRec) /\ commits \in Seq(Commit)
    BY <1>1, EmptySeq
  <2>2. outQueue \in [Apps -> Seq(TabletReq)]
    BY <1>1, EmptySeq
  <2>3. \A a \in Apps : handle[a] <= Len(tabletTx)
    BY <1>1, <1>2
  <2> QED
    BY <1>1, <2>1, <2>2, <2>3 DEF TabletTypes
<1>6. NoCopies
  BY <1>1, <1>2, <1>3 DEF NoCopies
<1>7. TokensSound
  <2>1. ASSUME NEW t \in Nat \ {0} PROVE Tokens(t) = {}
    BY <1>1, <1>4 DEF Tokens, StartTokens, HandleTokens, WriteTokens, CommitTokens
  <2> QED
    BY <2>1 DEF TokensSound
<1>8. WrittenOnce
  BY <1>2 DEF WrittenOnce, WrittenApart, WrittenBefore
<1>9. RequestsSound /\ CallsSound /\ AnswersSound /\ DoneSound
  BY <1>1, <1>4 DEF RequestsSound, CallsSound, AnswersSound, DoneSound
<1>10. CommitsSound
  BY <1>2 DEF CommitsSound
<1> QED
  BY <1>5, <1>6, <1>7, <1>8, <1>9, <1>10 DEF TabletInv

\* No step breaks it.
LEMMA TabletKept ==
  ASSUME TabletAssumption, TabletInv, [TabletNext]_tabletVars
  PROVE  TabletInv'
<1>0. TabletTypes
  BY DEF TabletInv
<1>1. handle \in [Apps -> Nat] /\ (\A a \in Apps : handle[a] <= Len(tabletTx)) /\ 0 <= Len(tabletTx) /\ 0 \in Nat
  BY <1>0, TabletFacts DEF TabletTypes
<1>2. /\ "start" \in Kinds /\ "modify" \in Kinds /\ "ping" \in Kinds /\ "read" \in Kinds
      /\ "commit" \in Kinds /\ "abort" \in Kinds
  BY DEF Kinds
<1>3. ASSUME NEW a \in Apps, ModifyAlone(a) PROVE TabletInv'
  <2>1. Calls(a, "alone", 0, "start") /\ handle' = handle
    BY <1>3 DEF ModifyAlone
  <2> QED
    BY <1>1, <1>2, <2>1, CallsKeeps
<1>4. ASSUME NEW a \in Apps, StartTabletTx(a) PROVE TabletInv'
  <2>1. Calls(a, "start", 0, "start") /\ handle' = handle
    BY <1>4 DEF StartTabletTx
  <2> QED
    BY <1>1, <1>2, <2>1, CallsKeeps
<1>5. ASSUME NEW a \in Apps, ModifyInTx(a) PROVE TabletInv'
  <2>1. Calls(a, "modify", handle[a], "modify") /\ handle' = handle /\ handle[a] # 0
    BY <1>5 DEF ModifyInTx
  <2> QED
    BY <1>1, <1>2, <2>1, CallsKeeps
<1>6. ASSUME NEW a \in Apps, PingTx(a) PROVE TabletInv'
  <2>1. Calls(a, "ping", handle[a], "ping") /\ handle' = handle /\ handle[a] # 0
    BY <1>6 DEF PingTx
  <2> QED
    BY <1>1, <1>2, <2>1, CallsKeeps
<1>7. ASSUME NEW a \in Apps, LookUp(a) PROVE TabletInv'
  <2>1. Calls(a, "lookup", 0, "read") /\ handle' = handle
    BY <1>7 DEF LookUp
  <2> QED
    BY <1>1, <1>2, <2>1, CallsKeeps
<1>8. ASSUME NEW a \in Apps, ReadInTx(a) PROVE TabletInv'
  <2>1. Calls(a, "read", handle[a], "read") /\ handle' = handle /\ handle[a] # 0
    BY <1>8 DEF ReadInTx
  <2> QED
    BY <1>1, <1>2, <2>1, CallsKeeps
<1>9. ASSUME NEW a \in Apps, EndTx(a, "commit") PROVE TabletInv'
  <2>1. Calls(a, "commit", handle[a], "commit") /\ handle[a] # 0 /\ handle' = [handle EXCEPT ![a] = 0]
    BY <1>9 DEF EndTx
  <2> QED
    BY <1>1, <1>2, <2>1, CallsKeeps
<1>10. ASSUME NEW a \in Apps, EndTx(a, "abort") PROVE TabletInv'
  <2>1. Calls(a, "abort", handle[a], "abort") /\ handle[a] # 0 /\ handle' = [handle EXCEPT ![a] = 0]
    BY <1>10 DEF EndTx
  <2> QED
    BY <1>1, <1>2, <2>1, CallsKeeps
<1>11. ASSUME NEW a \in Apps, DropTx(a) \/ WriterRuns(a) \/ Answered(a) \/ TimesOut(a) PROVE TabletInv'
  BY <1>11, DropKeeps, WriterRunsKeeps, AnsweredKeeps, TimesOutKeeps
<1>12. ASSUME NEW q \in onWire, DealStart(q) \/ DealModify(q) \/ DealRead(q) \/ DealPing(q) \/ Refuse(q)
       PROVE  TabletInv'
  BY <1>12, StartKeeps, ModifyKeeps, ReadKeeps, PingKeeps, RefuseKeeps
<1>13. ASSUME NEW q \in onWire, DealEnd(q) PROVE TabletInv'
  <2>1. q.kind = "commit" \/ q.kind = "abort"
    BY <1>13 DEF DealEnd
  <2> QED
    BY <1>13, <2>1, CommitKeeps, AbortKeeps
<1>14. ASSUME NEW tx \in DOMAIN tabletTx, ExpireTablet(tx) PROVE TabletInv'
  BY <1>14, ExpireKeeps
<1>15. CASE UNCHANGED tabletVars
  <2>1. UNCHANGED <<tabletTx, commits, outQueue, onWire, replies, apiAt, apiCall, handle, program, callNo, apiDone>>
    BY <1>15 DEF tabletVars, tabletClusterVars
  <2>2. TabletTypes' /\ NoCopies' /\ InFlight' = InFlight
    BY <2>1 DEF TabletInv, TabletTypes, NoCopies, InFlight, Queued
  <2>3. \A b \in Apps : callNo[b] <= callNo'[b] /\ (apiAt[b] # "idle" => callNo'[b] = callNo[b])
    BY <1>0, <2>1 DEF TabletTypes
  <2> QED
    BY <2>1, <2>2, <2>3, QuietKeeps
<1> QED
  BY <1>3, <1>4, <1>5, <1>6, <1>7, <1>8, <1>9, <1>10, <1>11, <1>12, <1>13, <1>14, <1>15 DEF TabletNext

\* What is published is what committed transactions hold.
LEMMA PublishedIs ==
  ASSUME TabletInv, NEW no, NEW p
  PROVE  p \in Published(no) <=>
           \E k \in 1..Len(commits) : \E j \in 1..Len(tabletTx[commits[k].tx].mods) :
             p = <<k, j>> /\ tabletTx[commits[k].tx].mods[j].no = no
<1>1. TabletTypes /\ CommitsSound
  BY DEF TabletInv
<1>2. DOMAIN commits = 1..Len(commits)
  BY <1>1, TabletFacts
<1>3. ASSUME NEW k \in 1..Len(commits)
      PROVE  /\ commits[k].mods = tabletTx[commits[k].tx].mods
             /\ DOMAIN commits[k].mods = 1..Len(tabletTx[commits[k].tx].mods)
  <2>1. commits[k].mods = tabletTx[commits[k].tx].mods /\ commits[k].tx \in 1..Len(tabletTx)
    BY <1>1 DEF CommitsSound, IsCommitted
  <2> QED
    BY <1>1, <2>1, TabletFacts
<1>4. p \in Published(no) <=>
        \E k \in DOMAIN commits : \E j \in DOMAIN commits[k].mods : p = <<k, j>> /\ commits[k].mods[j].no = no
  BY DEF Published
<1> QED
  BY <1>2, <1>3, <1>4

\* What the calls were told is true.
LEMMA TablesOfInv ==
  ASSUME TabletInv
  PROVE  TablesAreTrue
<1>0. TabletTypes /\ WrittenOnce /\ CommitsSound /\ DoneSound
  BY DEF TabletInv
<1> SUFFICES ASSUME NEW d \in apiDone, NEW c, c = d.call
             PROVE  /\ c.api = "alone" /\ d.how = "ok" =>
                         \E p \in Published(c.no) :
                           /\ Published(c.no) = {p}
                           /\ AsGiven(c.mod, commits[p[1]].mods[p[2]].mod)
                    /\ c.api = "alone" /\ (d.how = "timeout" => d.at # "commit") /\ d.how # "ok" =>
                         Published(c.no) = {}
                    /\ c.api = "modify" /\ d.how = "ok" =>
                         \A i \in DOMAIN commits : commits[i].tx = c.tx =>
                           \E j \in DOMAIN commits[i].mods :
                             commits[i].mods[j].no = c.no /\ AsGiven(c.mod, commits[i].mods[j].mod)
                    /\ c.api = "commit" /\ d.how # "timeout" =>
                         (d.how = "ok" <=> \E i \in DOMAIN commits : commits[i].tx = c.tx)
                    /\ c.api \in {"read", "lookup"} /\ d.how = "ok" =>
                         \E ts \in (IF c.tx = 0 THEN c.since..d.until ELSE {tabletTx[c.tx].start}) :
                           Got(d.rows) = Expected(ts, c.keys)
  BY DEF TablesAreTrue
<1>1. /\ c.api = "alone" /\ d.how = "ok" => Holds(c) /\ IsCommitted(c.tx) /\ c.mod \in Mods
      /\ c.api = "alone" /\ (d.how = "timeout" => d.at # "commit") /\ d.how # "ok" =>
           Confined(c) /\ (c.tx = 0 \/ IsDead(c.tx))
      /\ c.api = "modify" /\ d.how = "ok" => Holds(c) /\ c.mod \in Mods
      /\ c.api = "commit" /\ d.how # "timeout" =>
           IF d.how = "ok" THEN IsCommitted(c.tx) ELSE IsDead(c.tx)
      /\ c.api \in {"read", "lookup"} /\ d.how = "ok" =>
           \E ts \in Moments(c, d.until) : ts <= Len(commits) /\ Got(d.rows) = Expected(ts, c.keys)
  BY <1>0 DEF DoneSound, DoneOK, Holds, Confined, Moments
<1>2. DOMAIN commits = 1..Len(commits)
  BY <1>0, TabletFacts
<1>3. ASSUME NEW k \in 1..Len(commits)
      PROVE  /\ IsCommitted(commits[k].tx) /\ commits[k].tx \in 1..Len(tabletTx)
             /\ commits[k].mods = tabletTx[commits[k].tx].mods
             /\ DOMAIN commits[k].mods = 1..Len(tabletTx[commits[k].tx].mods)
  <2>1. IsCommitted(commits[k].tx) /\ commits[k].tx \in 1..Len(tabletTx)
        /\ commits[k].mods = tabletTx[commits[k].tx].mods
    BY <1>0 DEF CommitsSound, IsCommitted
  <2> QED
    BY <1>0, <2>1, TabletFacts
<1>4. ASSUME c.api = "alone", d.how = "ok"
      PROVE  \E p \in Published(c.no) : /\ Published(c.no) = {p}
                                        /\ AsGiven(c.mod, commits[p[1]].mods[p[2]].mod)
  <2>1. PICK i \in 1..Len(tabletTx[c.tx].mods) :
          tabletTx[c.tx].mods[i] = [no |-> c.no, mod |-> ModifyRequest(c.mod)]
    BY <1>1, <1>4 DEF Holds
  <2>2. PICK k \in 1..Len(commits) : commits[k].tx = c.tx
    BY <1>0, <1>1, <1>4 DEF CommitsSound, IsCommitted
  <2>3. tabletTx[c.tx].mods[i].no = c.no /\ tabletTx[c.tx].mods[i].mod = ModifyRequest(c.mod)
    BY <2>1
  <2>4. <<k, i>> \in Published(c.no)
    BY <2>2, <2>3, PublishedIs
  <2>5. ASSUME NEW p \in Published(c.no) PROVE p = <<k, i>>
    <3>1. PICK m \in 1..Len(commits) : \E j \in 1..Len(tabletTx[commits[m].tx].mods) :
            p = <<m, j>> /\ tabletTx[commits[m].tx].mods[j].no = c.no
      BY <2>5, PublishedIs
    <3>2. PICK j \in 1..Len(tabletTx[commits[m].tx].mods) :
            p = <<m, j>> /\ tabletTx[commits[m].tx].mods[j].no = c.no
      BY <3>1
    <3>3. c.tx \in 1..Len(tabletTx) /\ commits[m].tx \in 1..Len(tabletTx)
      BY <1>3, <2>2
    <3>4. commits[m].tx = c.tx /\ j = i
      <4>1. PICK t, v : t = c.tx /\ v = commits[m].tx
        OBVIOUS
      <4>2. /\ t \in 1..Len(tabletTx) /\ v \in 1..Len(tabletTx)
            /\ i \in 1..Len(tabletTx[t].mods) /\ j \in 1..Len(tabletTx[v].mods)
            /\ tabletTx[t].mods[i].no = tabletTx[v].mods[j].no
        BY <2>3, <3>2, <3>3, <4>1
      <4>3. t = v /\ i = j
        <5>1. \A x, y \in 1..Len(tabletTx) :
                \A g \in 1..Len(tabletTx[x].mods), h \in 1..Len(tabletTx[y].mods) :
                  tabletTx[x].mods[g].no = tabletTx[y].mods[h].no => x = y /\ g = h
          BY <1>0 DEF WrittenOnce, WrittenApart
        <5>2. t \in 1..Len(tabletTx) /\ v \in 1..Len(tabletTx)
          BY <4>2
        <5>3. \A g \in 1..Len(tabletTx[t].mods), h \in 1..Len(tabletTx[v].mods) :
                tabletTx[t].mods[g].no = tabletTx[v].mods[h].no => t = v /\ g = h
          BY <5>1, <5>2, Zenon
        <5> QED
          BY <4>2, <5>3, Zenon
      <4> QED
        BY <4>1, <4>3
    <3>5. m = k
      BY <1>0, <2>2, <3>4 DEF CommitsSound
    <3> QED
      BY <3>2, <3>4, <3>5
  <2>6. commits[k].mods[i].mod = ModifyRequest(c.mod)
    BY <1>3, <2>2, <2>3
  <2>7. AsGiven(c.mod, commits[k].mods[i].mod)
    <3>1. AsGiven(c.mod, ModifyRequest(c.mod))
      BY <1>1, <1>4, GivenArrives
    <3> QED
      BY <2>6, <3>1
  <2>8. Published(c.no) = {<<k, i>>}
    BY <2>4, <2>5
  <2>9. <<k, i>>[1] = k /\ <<k, i>>[2] = i
    OBVIOUS
  <2> QED
    BY <2>4, <2>7, <2>8, <2>9
<1>5. ASSUME c.api = "alone", d.how = "timeout" => d.at # "commit", d.how # "ok"
      PROVE  Published(c.no) = {}
  <2> SUFFICES ASSUME NEW p \in Published(c.no) PROVE FALSE
    OBVIOUS
  <2>1. PICK m \in 1..Len(commits) : \E j \in 1..Len(tabletTx[commits[m].tx].mods) :
          p = <<m, j>> /\ tabletTx[commits[m].tx].mods[j].no = c.no
    BY PublishedIs
  <2>2. commits[m].tx = c.tx
    BY <1>1, <1>3, <1>5, <2>1 DEF Confined
  <2>3. IsCommitted(c.tx) /\ c.tx \in 1..Len(tabletTx)
    BY <1>3, <2>2
  <2>4. c.tx # 0
    BY <2>3
  <2> QED
    BY <1>1, <1>5, <2>3, <2>4 DEF IsDead
<1>6. ASSUME c.api = "modify", d.how = "ok", NEW i \in DOMAIN commits, commits[i].tx = c.tx
      PROVE  \E j \in DOMAIN commits[i].mods :
               commits[i].mods[j].no = c.no /\ AsGiven(c.mod, commits[i].mods[j].mod)
  <2>1. PICK j \in 1..Len(tabletTx[c.tx].mods) :
          tabletTx[c.tx].mods[j] = [no |-> c.no, mod |-> ModifyRequest(c.mod)]
    BY <1>1, <1>6 DEF Holds
  <2>2. j \in DOMAIN commits[i].mods /\ commits[i].mods[j].no = c.no /\ commits[i].mods[j].mod = ModifyRequest(c.mod)
    <3>1. i \in 1..Len(commits)
      BY <1>2
    <3>2. commits[i].mods = tabletTx[c.tx].mods /\ DOMAIN commits[i].mods = 1..Len(tabletTx[c.tx].mods)
      BY <1>3, <1>6, <3>1
    <3>3. commits[i].mods[j] = [no |-> c.no, mod |-> ModifyRequest(c.mod)]
      BY <2>1, <3>2
    <3> QED
      BY <3>2, <3>3
  <2>3. AsGiven(c.mod, ModifyRequest(c.mod))
    BY <1>1, <1>6, GivenArrives
  <2> QED
    BY <2>2, <2>3
<1>7. ASSUME c.api = "commit", d.how # "timeout"
      PROVE  d.how = "ok" <=> \E i \in DOMAIN commits : commits[i].tx = c.tx
  <2>1. CASE d.how = "ok"
    BY <1>0, <1>1, <1>2, <1>7, <2>1 DEF CommitsSound, IsCommitted
  <2>2. CASE d.how # "ok"
    BY <1>1, <1>2, <1>3, <1>7, <2>2 DEF IsDead
  <2> QED
    BY <2>1, <2>2
<1>8. ASSUME c.api \in {"read", "lookup"}, d.how = "ok"
      PROVE  \E ts \in (IF c.tx = 0 THEN c.since..d.until ELSE {tabletTx[c.tx].start}) :
               Got(d.rows) = Expected(ts, c.keys)
  BY <1>1, <1>8 DEF Moments
<1> QED
  BY <1>4, <1>5, <1>6, <1>7, <1>8

\* TabletSpec => []TablesAreTrue: what a program is told of its rows is true,
\* whatever is refused, delayed or times out.
THEOREM TablesStayTrue == TabletSpec => []TablesAreTrue
<1>1. TabletInit => TabletInv
  BY TabletAssumption, TabletStarts
<1>2. TabletInv /\ [TabletNext]_tabletVars => TabletInv'
  BY TabletAssumption, TabletKept
<1>3. TabletInv => TablesAreTrue
  BY TablesOfInv
<1> QED
  BY <1>1, <1>2, <1>3, PTL DEF TabletSpec
=============================================================================
