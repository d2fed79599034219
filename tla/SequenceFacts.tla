--------------------------- MODULE SequenceFacts ---------------------------
(***************************************************************************)
(* Facts about sequences, above all what FlattenSeq computes for every     *)
(* sequence of sequences: the proofs about histories rest on them.         *)
(*                                                                         *)
(* The induction theorems of the library take an operator, which no prover *)
(* instantiates.  A proof by induction over data is written here as one by *)
(* a least counterexample: the set of the sizes of all counterexamples, if *)
(* it is not empty, has a least element.                                   *)
(***************************************************************************)
EXTENDS Naturals, SequencesExt, SequenceTheorems, WellFoundedInduction, TLAPS

(* Every set of numbers that is not empty has a least element.              *)
LEMMA LeastOf ==
  ASSUME NEW T, T \subseteq Nat, T # {}
  PROVE  \E n \in T : \A m \in T : n <= m
<1> DEFINE R == OpToRel(<, Nat)
<1>1. IsWellFoundedOn(R, Nat)
  BY NatLessThanWellFounded
<1>2. \A a, b \in Nat : <<a, b>> \in R <=> a < b
  BY DEF OpToRel
<1> HIDE DEF R
<1>3. PICK n \in T : \A m \in T : ~ (<<m, n>> \in R)
  BY <1>1, WFMin
<1>4. ASSUME NEW m \in T
      PROVE  n <= m
  <2>1. m \in Nat /\ n \in Nat /\ <<m, n>> \notin R
    BY <1>3
  <2>2. ~ (m < n)
    BY <2>1, <1>2
  <2> QED BY <2>1, <2>2
<1> QED BY <1>4

(* Induction: a set with 0 and the successor of each of its numbers that is *)
(* at most k contains all numbers up to k + 1.                              *)
LEMMA UpTo ==
  ASSUME NEW T, NEW k \in Nat, 0 \in T, \A n \in 0..(k - 1) : n \in T => n + 1 \in T
  PROVE  \A n \in 0..k : n \in T
<1> DEFINE Bad == {n \in 0..k : n \notin T}
<1>1. SUFFICES ASSUME Bad # {} PROVE FALSE
  OBVIOUS
<1>2. PICK n \in Bad : \A m \in Bad : n <= m
  <2>1. Bad \subseteq Nat
    OBVIOUS
  <2> HIDE DEF Bad
  <2> QED BY <1>1, <2>1, LeastOf
<1>3. n \in 1..k /\ n - 1 \notin Bad
  BY <1>2
<1>4. n - 1 \in T /\ n - 1 \in 0..(k - 1)
  BY <1>3
<1>5. (n - 1) + 1 \in T
  BY <1>4
<1> QED BY <1>2, <1>3, <1>5

(* A sequence behind another with one more element is one behind both.      *)
LEMMA AppendBehind ==
  ASSUME NEW S, NEW s \in Seq(S), NEW q \in Seq(S), NEW x \in S
  PROVE  s \o q \in Seq(S) /\ s \o Append(q, x) = Append(s \o q, x)
OBVIOUS

(* Short sequences as concatenations.                                      *)
LEMMA PairIsConcat ==
  ASSUME NEW S, NEW a \in S, NEW b \in S
  PROVE  <<a>> \o <<b>> = <<a, b>>
<1> DEFINE s == <<a>>  t == <<b>>  p == <<a, b>>
<1>1. /\ s \in Seq(S) /\ Len(s) = 1 /\ s[1] = a
      /\ t \in Seq(S) /\ Len(t) = 1 /\ t[1] = b
      /\ p \in Seq(S) /\ Len(p) = 2 /\ p[1] = a /\ p[2] = b
  OBVIOUS
<1> HIDE DEF s, t, p
<1>2. s \o t \in Seq(S) /\ Len(s \o t) = 2 /\ (s \o t)[1] = a /\ (s \o t)[2] = b
  <2>1. \A i \in 1..(Len(s) + Len(t)) :
          (s \o t)[i] = IF i <= Len(s) THEN s[i] ELSE t[i - Len(s)]
    BY <1>1, ConcatProperties
  <2>2. s \o t \in Seq(S) /\ Len(s \o t) = Len(s) + Len(t)
    BY <1>1, ConcatProperties
  <2> QED BY <1>1, <2>1, <2>2
<1>3. s \o t = p
  BY <1>1, <1>2, SeqEqual
<1> QED BY <1>3 DEF s, t, p

(* The same with one more.                                                 *)
LEMMA TripleIsConcat ==
  ASSUME NEW S, NEW a \in S, NEW b \in S, NEW c \in S
  PROVE  <<a, b>> \o <<c>> = <<a, b, c>>
<1> DEFINE s == <<a, b>>  t == <<c>>  p == <<a, b, c>>
<1>1. /\ s \in Seq(S) /\ Len(s) = 2 /\ s[1] = a /\ s[2] = b
      /\ t \in Seq(S) /\ Len(t) = 1 /\ t[1] = c
      /\ p \in Seq(S) /\ Len(p) = 3 /\ p[1] = a /\ p[2] = b /\ p[3] = c
  OBVIOUS
<1> HIDE DEF s, t, p
<1>2. s \o t \in Seq(S) /\ Len(s \o t) = 3 /\ (s \o t)[1] = a /\ (s \o t)[2] = b /\ (s \o t)[3] = c
  <2>1. \A i \in 1..(Len(s) + Len(t)) :
          (s \o t)[i] = IF i <= Len(s) THEN s[i] ELSE t[i - Len(s)]
    BY <1>1, ConcatProperties
  <2>2. s \o t \in Seq(S) /\ Len(s \o t) = Len(s) + Len(t)
    BY <1>1, ConcatProperties
  <2> QED BY <1>1, <2>1, <2>2
<1>3. s \o t = p
  BY <1>1, <1>2, SeqEqual
<1> QED BY <1>3 DEF s, t, p

(* A sequence is what it begins with and the rest.                          *)
LEMMA TwoParts ==
  ASSUME NEW S, NEW s \in Seq(S), NEW n \in 0..Len(s)
  PROVE  SubSeq(s, 1, n) \o SubSeq(s, n + 1, Len(s)) = s
<1>1. /\ Len(s) \in Nat /\ 1 \in 1..(Len(s) + 1)
      /\ n \in (1 - 1)..Len(s) /\ Len(s) \in n..Len(s)
  BY LenProperties
<1>2. SubSeq(s, 1, n) \o SubSeq(s, n + 1, Len(s)) = SubSeq(s, 1, Len(s))
  BY <1>1, ConcatAdjacentSubSeq
<1> QED BY <1>2, SubSeqFull

-----------------------------------------------------------------------------
(* FlattenSeq                                                              *)

(* f computes what FlattenSeq(s) does, up to its first k elements.          *)
Flattens(f, s, k) ==
  f = [i \in 1..k |-> IF i = 1 THEN s[i] ELSE f[i - 1] \o s[i]]

(* Its value at each index.                                                *)
LEMMA FlattensAt ==
  ASSUME NEW f, NEW s, NEW k, Flattens(f, s, k)
  PROVE  \A i \in 1..k : f[i] = IF i = 1 THEN s[i] ELSE f[i - 1] \o s[i]
<1> DEFINE e(j) == IF j = 1 THEN s[j] ELSE f[j - 1] \o s[j]
<1>1. f = [j \in 1..k |-> e(j)]
  BY DEF Flattens
<1> HIDE DEF e
<1>2. \A i \in 1..k : f[i] = e(i)
  BY <1>1
<1> QED BY <1>2 DEF e

(* There is such a function,                                                *)
LEMMA FlattensExists ==
  ASSUME NEW s, NEW n \in Nat
  PROVE  \E f : Flattens(f, s, n)
<1> DEFINE T == {k \in 0..n : \E f : Flattens(f, s, k)}
<1>1. 0 \in T
  <2> DEFINE f == [i \in 1..0 |-> s[i]]
  <2>1. Flattens(f, s, 0)
    BY DEF Flattens
  <2> QED BY <2>1
<1>2. ASSUME NEW k \in 0..(n - 1), k \in T
      PROVE  k + 1 \in T
  <2>1. PICK f : Flattens(f, s, k)
    BY <1>2
  <2> DEFINE g == [i \in 1..(k + 1) |->
                     IF i <= k THEN f[i] ELSE IF i = 1 THEN s[i] ELSE f[i - 1] \o s[i]]
  <2>2. \A i \in 1..(k + 1) : g[i] = IF i = 1 THEN s[i] ELSE g[i - 1] \o s[i]
    <3> TAKE i \in 1..(k + 1)
    <3>1. CASE i <= k
      <4>1. g[i] = f[i] /\ (i # 1 => g[i - 1] = f[i - 1])
        BY <3>1
      <4>2. f[i] = IF i = 1 THEN s[i] ELSE f[i - 1] \o s[i]
        <5>1. i \in 1..k
          BY <3>1
        <5> QED BY <2>1, <5>1, FlattensAt
      <4> QED BY <4>1, <4>2
    <3>2. CASE i = k + 1
      <4>1. g[i] = IF i = 1 THEN s[i] ELSE f[i - 1] \o s[i]
        BY <3>2
      <4>2. i # 1 => g[i - 1] = f[i - 1]
        BY <3>2
      <4> QED BY <4>1, <4>2
    <3> QED BY <3>1, <3>2
  <2>3. Flattens(g, s, k + 1)
    BY <2>2 DEF Flattens
  <2> QED BY <2>3
<1> HIDE DEF T
<1>3. n \in T
  BY <1>1, <1>2, UpTo
<1> QED BY <1>3 DEF T

(* and FlattenSeq(s) is its last value.                                     *)
LEMMA FlattenSeqValue ==
  ASSUME NEW S, NEW s \in Seq(S), s # <<>>
  PROVE  \E f : Flattens(f, s, Len(s)) /\ FlattenSeq(s) = f[Len(s)]
<1> DEFINE F == CHOOSE f : Flattens(f, s, Len(s))
<1>1. Len(s) \in Nat /\ Len(s) # 0
  BY EmptySeq, LenProperties
<1>2. Flattens(F, s, Len(s))
  BY <1>1, FlattensExists
<1>3. FlattenSeq(s) = F[Len(s)]
  BY <1>1 DEF FlattenSeq, Flattens
<1> QED BY <1>2, <1>3

(* Two such functions agree as far as the sequences do.                     *)
LEMMA FlattensUnique ==
  ASSUME NEW f, NEW s, NEW k \in Nat, Flattens(f, s, k),
         NEW g, NEW t, NEW l \in Nat, Flattens(g, t, l),
         k <= l, \A i \in 1..k : s[i] = t[i]
  PROVE  \A i \in 1..k : f[i] = g[i]
<1> DEFINE T == {i \in 0..k : i = 0 \/ f[i] = g[i]}
<1>1. ASSUME NEW i \in 0..(k - 1), i \in T
      PROVE  i + 1 \in T
  <2>1. /\ f[i + 1] = IF i + 1 = 1 THEN s[i + 1] ELSE f[i] \o s[i + 1]
        /\ g[i + 1] = IF i + 1 = 1 THEN t[i + 1] ELSE g[i] \o t[i + 1]
        /\ s[i + 1] = t[i + 1]
    <3>1. i + 1 \in 1..k /\ i + 1 \in 1..l /\ (i + 1) - 1 = i
      OBVIOUS
    <3> QED BY <3>1, FlattensAt
  <2>2. i + 1 \in 0..k
    OBVIOUS
  <2> QED BY <1>1, <2>1, <2>2
<1>2. 0 \in T
  OBVIOUS
<1> HIDE DEF T
<1>3. \A i \in 0..k : i \in T
  BY <1>1, <1>2, UpTo
<1> QED BY <1>3 DEF T

(* Nothing is flattened to nothing.                                         *)
LEMMA FlattenEmpty == FlattenSeq(<<>>) = <<>>
BY DEF FlattenSeq

(* One sequence is flattened to itself.                                    *)
LEMMA FlattenOne ==
  ASSUME NEW x
  PROVE  FlattenSeq(<<x>>) = x
<1> DEFINE s == <<x>>
<1>1. s \in Seq({x}) /\ Len(s) = 1 /\ s[1] = x /\ s # <<>>
  OBVIOUS
<1> HIDE DEF s
<1>2. PICK f : Flattens(f, s, 1) /\ FlattenSeq(s) = f[1]
  BY <1>1, FlattenSeqValue
<1>3. f[1] = s[1]
  BY <1>2 DEF Flattens
<1> QED BY <1>1, <1>2, <1>3 DEF s

(* One more sequence comes last in what they are flattened to.              *)
LEMMA FlattenAppend ==
  ASSUME NEW S, NEW s \in Seq(Seq(S)), NEW x \in Seq(S)
  PROVE  FlattenSeq(Append(s, x)) = FlattenSeq(s) \o x
<1>1. CASE s = <<>>
  <2>1. Append(s, x) = <<x>> /\ <<>> \o x = x
    BY <1>1
  <2> QED BY <1>1, <2>1, FlattenEmpty, FlattenOne
<1>2. CASE s # <<>>
  <2> DEFINE t == Append(s, x)
  <2>1. /\ t \in Seq(Seq(S)) /\ Len(t) = Len(s) + 1 /\ t[Len(s) + 1] = x
        /\ \A i \in 1..Len(s) : t[i] = s[i]
    BY AppendProperties, LenProperties
  <2>2. Len(s) \in Nat /\ Len(s) # 0
    BY <1>2, EmptySeq, LenProperties
  <2>7. t # <<>>
    BY <2>1, <2>2
  <2>8. PICK n \in Nat : n = Len(s) + 1 /\ n \in 1..n /\ n # 1 /\ n - 1 = Len(s)
    BY <2>2
  <2> HIDE DEF t
  <2>3. PICK f : Flattens(f, s, Len(s)) /\ FlattenSeq(s) = f[Len(s)]
    BY <1>2, FlattenSeqValue
  <2>4. PICK g : Flattens(g, t, n) /\ FlattenSeq(t) = g[n]
    BY <2>1, <2>7, <2>8, FlattenSeqValue
  <2>5. g[n] = g[n - 1] \o t[n]
    <3>1. n \in 1..n /\ Flattens(g, t, n)
      BY <2>4, <2>8
    <3>2. g[n] = IF n = 1 THEN t[n] ELSE g[n - 1] \o t[n]
      BY <3>1, FlattensAt
    <3>3. n # 1
      BY <2>8
    <3> QED BY <3>2, <3>3
  <2>6. f[Len(s)] = g[Len(s)]
    <3>1. \A i \in 1..Len(s) : s[i] = t[i]
      BY <2>1
    <3>2. Len(s) <= n
      BY <2>2, <2>8
    <3>4. Flattens(f, s, Len(s)) /\ Flattens(g, t, n) /\ Len(s) \in Nat
      BY <2>2, <2>3, <2>4
    <3>3. \A i \in 1..Len(s) : f[i] = g[i]
      BY <3>4, <2>3, <2>4, <3>1, <3>2, FlattensUnique
    <3> QED BY <2>2, <3>3
  <2> QED BY <2>1, <2>3, <2>4, <2>5, <2>6, <2>8 DEF t
<1> QED BY <1>1, <1>2

(* Flattening s and t behind each other is flattening one after the other.  *)
Splits(s, t) == FlattenSeq(s \o t) = FlattenSeq(s) \o FlattenSeq(t)

(* If s and q are flattened one by one, so are s and q with one more;      *)
LEMMA FlattenBehind ==
  ASSUME NEW S, NEW s \in Seq(Seq(S)), NEW q \in Seq(Seq(S)), NEW x \in Seq(S),
         FlattenSeq(s) \in Seq(S), FlattenSeq(q) \in Seq(S), Splits(s, q)
  PROVE  FlattenSeq(Append(q, x)) \in Seq(S) /\ Splits(s, Append(q, x))
<1> DEFINE fs == FlattenSeq(s)  fq == FlattenSeq(q)
<1>1. FlattenSeq(Append(q, x)) = fq \o x
  BY FlattenAppend
<1>2. s \o q \in Seq(Seq(S)) /\ s \o Append(q, x) = Append(s \o q, x)
  BY AppendBehind
<1>3. FlattenSeq(s \o Append(q, x)) = (fs \o fq) \o x
  BY <1>2, FlattenAppend DEF Splits
<1>4. fs \in Seq(S) /\ fq \in Seq(S)
  OBVIOUS
<1> HIDE DEF fs, fq
<1>5. (fs \o fq) \o x = fs \o (fq \o x)
  BY <1>4, ConcatAssociative
<1>6. fq \o x \in Seq(S)
  BY <1>4, ConcatProperties
<1> USE DEF fs, fq
<1> QED BY <1>1, <1>3, <1>5, <1>6 DEF Splits

(* hence s and any t are, by induction on the length of t.                 *)
LEMMA FlattenSplits ==
  ASSUME NEW S, NEW s \in Seq(Seq(S)), NEW t \in Seq(Seq(S)),
         FlattenSeq(s) \in Seq(S)
  PROVE  FlattenSeq(t) \in Seq(S) /\ Splits(s, t)
<1> DEFINE Good(r) == FlattenSeq(r) \in Seq(S) /\ Splits(s, r)
           Of(n) == {r \in Seq(Seq(S)) : Len(r) = n}
           T == {n \in Nat : \A r \in Of(n) : Good(r)}
<1>1. 0 \in T
  <2> SUFFICES ASSUME NEW r \in Of(0)
               PROVE  Good(r)
    OBVIOUS
  <2>1. r = <<>>
    BY EmptySeq
  <2>2. s \o r = s /\ FlattenSeq(s) \o <<>> = FlattenSeq(s) /\ <<>> \in Seq(S)
    BY <2>1
  <2> QED BY <2>1, <2>2, FlattenEmpty DEF Splits
<1>2. ASSUME NEW n \in 0..(Len(t) - 1), n \in T
      PROVE  n + 1 \in T
  <2> SUFFICES ASSUME NEW r \in Of(n + 1)
               PROVE  Good(r)
    OBVIOUS
  <2>1. PICK q \in Seq(Seq(S)), x \in Seq(S) : r = Append(q, x) /\ Len(q) = n
    <3> DEFINE q == SubSeq(r, 1, n)
    <3>1. Len(r) = n + 1 /\ n \in Nat /\ r[n + 1] \in Seq(S)
      BY LenProperties
    <3>2. /\ q \in Seq(Seq(S)) /\ Len(q) = n
          /\ \A i \in 1..n : q[i] = r[i]
      BY <3>1, SubSeqProperties
    <3> HIDE DEF q
    <3>3. r = Append(q, r[n + 1])
      BY <3>1, <3>2
    <3> QED BY <3>1, <3>2, <3>3
  <2>2. Good(q)
    BY <1>2, <2>1
  <2> QED BY <2>1, <2>2, FlattenBehind
<1> HIDE DEF T
<1>3. Len(t) \in Nat /\ Len(t) \in T
  <2>1. Len(t) \in Nat
    BY LenProperties
  <2>2. \A n \in 0..(Len(t) - 1) : n \in T => n + 1 \in T
    BY <1>2
  <2>3. Len(t) \in 0..Len(t)
    BY <2>1
  <2> QED BY <1>1, <2>1, <2>2, <2>3, UpTo, Zenon
<1> QED BY <1>3 DEF T

(* Sequences of sequences behind each other are flattened to what each is  *)
(* flattened to, behind each other.                                        *)
LEMMA FlattenConcat ==
  ASSUME NEW S, NEW s \in Seq(Seq(S)), NEW t \in Seq(Seq(S))
  PROVE  FlattenSeq(s) \in Seq(S) /\ Splits(s, t)
<1>1. <<>> \in Seq(Seq(S)) /\ FlattenSeq(<<>>) \in Seq(S)
  <2>1. <<>> \in Seq(Seq(S)) /\ <<>> \in Seq(S)
    BY EmptySeq
  <2> QED BY <2>1, FlattenEmpty, Zenon
<1>2. FlattenSeq(s) \in Seq(S)
  BY <1>1, FlattenSplits
<1> QED BY <1>2, FlattenSplits

-----------------------------------------------------------------------------
(* What the entries of a history say                                       *)

(* The entries of s are records with a field says, a sequence.              *)
Sayings(s) == [i \in 1..Len(s) |-> s[i].says]

(* What entries say, one by one,                                           *)
LEMMA SayingsType ==
  ASSUME NEW S, NEW E, \A e \in E : e.says \in Seq(S), NEW s \in Seq(E)
  PROVE  Sayings(s) \in Seq(Seq(S)) /\ Len(Sayings(s)) = Len(s)
<1>1. Len(s) \in Nat /\ \A i \in 1..Len(s) : s[i] \in E
  BY LenProperties
<1>2. \A i \in 1..Len(s) : s[i].says \in Seq(S)
  BY <1>1
<1> QED BY <1>1, <1>2, IsASeq DEF Sayings

(* and behind each other.                                                  *)
LEMMA SayingsConcat ==
  ASSUME NEW S, NEW E, \A e \in E : e.says \in Seq(S),
         NEW s \in Seq(E), NEW t \in Seq(E)
  PROVE  Sayings(s \o t) = Sayings(s) \o Sayings(t)
<1> DEFINE a == Sayings(s)  b == Sayings(t)  c == Sayings(s \o t)
<1>1. /\ a \in Seq(Seq(S)) /\ Len(a) = Len(s) /\ Len(s) \in Nat
      /\ b \in Seq(Seq(S)) /\ Len(b) = Len(t) /\ Len(t) \in Nat
  BY SayingsType, LenProperties
<1>2. /\ s \o t \in Seq(E) /\ Len(s \o t) = Len(s) + Len(t)
      /\ \A i \in 1..Len(s) : (s \o t)[i] = s[i]
      /\ \A i \in 1..Len(t) : (s \o t)[Len(s) + i] = t[i]
  OBVIOUS
<1>3. c \in Seq(Seq(S)) /\ Len(c) = Len(s) + Len(t)
  BY <1>2, SayingsType
<1>4. /\ \A i \in 1..Len(s) : a[i] = s[i].says
      /\ \A i \in 1..Len(t) : b[i] = t[i].says
      /\ \A i \in 1..(Len(s) + Len(t)) : c[i] = (s \o t)[i].says
  BY <1>2 DEF Sayings
<1> HIDE DEF a, b, c
<1>5. a \o b \in Seq(Seq(S)) /\ Len(a \o b) = Len(s) + Len(t)
  <2> DEFINE T == Seq(S)
  <2>1. a \in Seq(T) /\ b \in Seq(T)
    BY <1>1
  <2> HIDE DEF T
  <2>2. a \o b \in Seq(T) /\ Len(a \o b) = Len(a) + Len(b)
    BY <2>1
  <2> QED BY <2>2, <1>1 DEF T
<1>6. \A i \in 1..(Len(s) + Len(t)) : c[i] = (a \o b)[i]
  <2>1. /\ \A i \in 1..Len(s) : (a \o b)[i] = a[i]
        /\ \A i \in 1..Len(t) : (a \o b)[Len(s) + i] = b[i]
    <3> DEFINE T == Seq(S)
    <3>1. a \in Seq(T) /\ b \in Seq(T)
      BY <1>1
    <3> HIDE DEF T
    <3> QED BY <1>1, <3>1
  <2> TAKE i \in 1..(Len(s) + Len(t))
  <2>2. CASE i \in 1..Len(s)
    BY <2>1, <2>2, <1>2, <1>4
  <2>3. CASE i - Len(s) \in 1..Len(t)
    <3>1. PICK j \in 1..Len(t) : i = Len(s) + j
      <4>1. i = Len(s) + (i - Len(s))
        BY <1>1
      <4> QED BY <2>3, <4>1
    <3> QED BY <2>1, <3>1, <1>2, <1>4
  <2> QED BY <1>1, <2>2, <2>3
<1>7. c = a \o b
  BY <1>3, <1>5, <1>6, SeqEqual
<1> QED BY <1>7 DEF a, b, c

(* What s and t say behind each other is what each says, in turn.           *)
InTurn(s, t) ==
  FlattenSeq(Sayings(s \o t)) = FlattenSeq(Sayings(s)) \o FlattenSeq(Sayings(t))

(* Any two sequences of such entries do.                                    *)
LEMMA SayConcat ==
  ASSUME NEW S, NEW E, \A e \in E : e.says \in Seq(S),
         NEW s \in Seq(E), NEW t \in Seq(E)
  PROVE  /\ FlattenSeq(Sayings(s)) \in Seq(S)
         /\ InTurn(s, t)
<1> DEFINE a == Sayings(s)  b == Sayings(t)
<1>1. a \in Seq(Seq(S)) /\ b \in Seq(Seq(S)) /\ Sayings(s \o t) = a \o b
  BY SayingsType, SayingsConcat
<1> HIDE DEF a, b
<1>2. FlattenSeq(a) \in Seq(S) /\ FlattenSeq(a \o b) = FlattenSeq(a) \o FlattenSeq(b)
  BY <1>1, FlattenConcat DEF Splits
<1> QED BY <1>1, <1>2 DEF a, b, InTurn

(* No entries say nothing,                                                 *)
LEMMA SayNothing == FlattenSeq(Sayings(<<>>)) = <<>>
<1>1. Sayings(<<>>) = <<>>
  BY DEF Sayings
<1> QED BY <1>1, FlattenEmpty

(* and one says what is in it.                                             *)
LEMMA SayOne ==
  ASSUME NEW e
  PROVE  FlattenSeq(Sayings(<<e>>)) = e.says
<1>1. Sayings(<<e>>) = <<e.says>>
  BY DEF Sayings
<1> QED BY <1>1, FlattenOne
=============================================================================
