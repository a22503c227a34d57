---------------------------- MODULE DataInduction ----------------------------
(***************************************************************************)
(* Induction over data, for the proofs of the other modules: that any      *)
(* numbers have a least one gives induction for a set of numbers, and with *)
(* it what the recursive FlattenSeq of the community modules makes of a    *)
(* sequence of any length.                                                 *)
(***************************************************************************)
EXTENDS SequencesExt, SequenceTheorems, WellFoundedInduction, TLAPS

-----------------------------------------------------------------------------
(* Numbers. *)

(* Of any numbers there is a least one.                                    *)
LEMMA Least ==
  ASSUME NEW T, T \subseteq Nat, T # {}
  PROVE  \E n \in T : \A m \in T : n <= m
<1> DEFINE R == {ss \in Nat \X Nat : ss[1] < ss[2]}
<1>1. IsWellFoundedOn(R, Nat)
  BY NatLessThanWellFounded DEF OpToRel
<1> HIDE DEF R
<1>2. PICK n \in T : \A m \in T : ~ (<<m, n>> \in R)
  BY <1>1, WFMin
<1>3. \A m \in T : ~ (m < n)
  BY <1>2 DEF R
<1> QED BY <1>3

(* Induction, for a set: the proofs below give the set of the numbers that *)
(* have what they show.                                                    *)
LEMMA InductionOnNat ==
  ASSUME NEW T, 0 \in T, \A n \in Nat : n \in T => n + 1 \in T
  PROVE  Nat \subseteq T
<1> SUFFICES ASSUME Nat \ T # {} PROVE FALSE
  OBVIOUS
<1>1. PICK n \in Nat \ T : \A m \in Nat \ T : n <= m
  BY Least
<1> QED BY <1>1

-----------------------------------------------------------------------------
(* FlattenSeq, whose definition is recursive. *)

(* f holds what the first i of the sequences s make together.              *)
Gathers(f, s, n) ==
  f = [i \in 1..n |-> IF i = 1 THEN s[i] ELSE f[i - 1] \o s[i]]

LEMMA GathersExists ==
  ASSUME NEW s, NEW n \in Nat
  PROVE  \E f : Gathers(f, s, n)
<1> DEFINE T == {k \in Nat : \E f : Gathers(f, s, k)}
<1>1. 0 \in T
  <2>1. Gathers([i \in 1..0 |-> <<>>], s, 0)
    BY DEF Gathers
  <2> QED BY <2>1
<1>2. ASSUME NEW k \in Nat, k \in T PROVE k + 1 \in T
  <2>1. PICK f : Gathers(f, s, k)
    BY <1>2
  <2> DEFINE g == [i \in 1..(k + 1) |->
                     IF i <= k THEN f[i] ELSE IF i = 1 THEN s[i] ELSE f[k] \o s[i]]
  <2>2. ASSUME NEW i \in 1..(k + 1)
        PROVE  g[i] = IF i = 1 THEN s[i] ELSE g[i - 1] \o s[i]
    <3>1. CASE i <= k
      <4>1. i \in 1..k /\ g[i] = f[i] /\ (i # 1 => i - 1 \in 1..(k + 1) /\ g[i - 1] = f[i - 1])
        BY <3>1
      <4>2. f[i] = IF i = 1 THEN s[i] ELSE f[i - 1] \o s[i]
        BY <2>1, <4>1 DEF Gathers
      <4> QED BY <4>1, <4>2
    <3>2. CASE ~(i <= k) /\ i # 1
      <4>1. i = k + 1 /\ k \in 1..(k + 1) /\ k <= k /\ i - 1 = k
        BY <3>2
      <4> QED BY <3>2, <4>1
    <3>3. CASE ~(i <= k) /\ i = 1
      BY <3>3
    <3> QED BY <3>1, <3>2, <3>3
  <2>3. g = [i \in 1..(k + 1) |-> g[i]]
    OBVIOUS
  <2> HIDE DEF g
  <2>4. [i \in 1..(k + 1) |-> g[i]]
          = [i \in 1..(k + 1) |-> IF i = 1 THEN s[i] ELSE g[i - 1] \o s[i]]
    BY <2>2
  <2>5. Gathers(g, s, k + 1)
    BY <2>3, <2>4, Zenon DEF Gathers
  <2> QED BY <2>5
<1> HIDE DEF T
<1>3. n \in T
  BY <1>1, <1>2, InductionOnNat
<1> QED BY <1>3 DEF T

Agree(u, s, m) == \A i \in 1..m : u[i] = s[i]

(* There is one way only, so that a longer one goes on from a shorter.     *)
LEMMA GathersUnique ==
  ASSUME NEW s, NEW u, NEW n \in Nat, NEW m \in 0..n, NEW f, NEW g,
         Agree(u, s, m), Gathers(f, s, n), Gathers(g, u, m)
  PROVE  Agree(g, f, m)
<1> DEFINE T == {k \in Nat : k + 1 <= m => f[k + 1] = g[k + 1]}
<1>1. ASSUME NEW i \in 1..m
      PROVE  /\ f[i] = IF i = 1 THEN s[i] ELSE f[i - 1] \o s[i]
             /\ g[i] = IF i = 1 THEN s[i] ELSE g[i - 1] \o s[i]
  <2>1. i \in 1..n /\ u[i] = s[i]
    BY DEF Agree
  <2>2. f[i] = IF i = 1 THEN s[i] ELSE f[i - 1] \o s[i]
    BY <2>1 DEF Gathers
  <2>3. g[i] = IF i = 1 THEN u[i] ELSE g[i - 1] \o u[i]
    BY DEF Gathers
  <2> QED BY <2>1, <2>2, <2>3
<1>2. 0 \in T
  <2>1. 0 + 1 <= m => 1 \in 1..m
    OBVIOUS
  <2> QED BY <1>1, <2>1
<1>3. ASSUME NEW k \in Nat, k \in T PROVE k + 1 \in T
  <2> SUFFICES ASSUME (k + 1) + 1 <= m PROVE f[(k + 1) + 1] = g[(k + 1) + 1]
    OBVIOUS
  <2> DEFINE j == (k + 1) + 1
  <2>1. j \in 1..m /\ j # 1 /\ j - 1 = k + 1 /\ k + 1 <= m
    OBVIOUS
  <2>2. f[k + 1] = g[k + 1]
    BY <1>3, <2>1
  <2>3. f[j] = f[j - 1] \o s[j] /\ g[j] = g[j - 1] \o s[j]
    BY <1>1, <2>1
  <2> QED BY <2>1, <2>2, <2>3
<1> HIDE DEF T
<1>4. Nat \subseteq T
  BY <1>2, <1>3, InductionOnNat
<1>5. ASSUME NEW i \in 1..m PROVE g[i] = f[i]
  <2>1. i - 1 \in Nat /\ (i - 1) + 1 = i /\ i <= m
    OBVIOUS
  <2> QED BY <1>4, <2>1 DEF T
<1> QED BY <1>5 DEF Agree

LEMMA FlattenIs ==
  ASSUME NEW S, NEW s \in Seq(S), Len(s) > 0
  PROVE  \E f : Gathers(f, s, Len(s)) /\ FlattenSeq(s) = f[Len(s)]
<1> DEFINE f == CHOOSE f : Gathers(f, s, Len(s))
<1>1. Len(s) \in Nat
  BY LenProperties
<1>2. Gathers(f, s, Len(s))
  BY <1>1, GathersExists
<1>3. FlattenSeq(s) = f[Len(s)]
  <2>1. Len(s) # 0
    BY <1>1
  <2> QED BY <2>1 DEF FlattenSeq, Gathers
<1> QED BY <1>2, <1>3

(* The first n of the sequences s, and one more.                           *)
LEMMA Beginning ==
  ASSUME NEW S, NEW s \in Seq(S), NEW n \in 0..Len(s)
  PROVE  /\ SubSeq(s, 1, n) \in Seq(S)
         /\ Len(SubSeq(s, 1, n)) = n
         /\ \A i \in 1..n : SubSeq(s, 1, n)[i] = s[i]
<1>1. \A i \in 1..n : s[i] \in S
  BY ElementOfSeq
<1>2. Len(s) \in Nat
  BY LenProperties
<1> QED BY <1>1, <1>2, SubSeqProperties

LEMMA FlattenNone == ASSUME NEW s PROVE FlattenSeq(SubSeq(s, 1, 0)) = <<>>
<1>1. SubSeq(s, 1, 0) = <<>>
  BY SubSeqEmpty
<1> QED BY <1>1 DEF FlattenSeq

LEMMA FlattenOneMore ==
  ASSUME NEW S, NEW s \in Seq(Seq(S)), NEW n \in 0..(Len(s) - 1)
  PROVE  FlattenSeq(SubSeq(s, 1, n + 1)) = FlattenSeq(SubSeq(s, 1, n)) \o s[n + 1]
<1> DEFINE u == SubSeq(s, 1, n + 1)
           v == SubSeq(s, 1, n)
<1>1. Len(s) \in Nat /\ n \in Nat /\ n \in 0..Len(s) /\ n + 1 \in 0..Len(s) /\ n + 1 \in 1..Len(s)
  BY LenProperties
<1>2. u \in Seq(Seq(S)) /\ Len(u) = n + 1 /\ \A i \in 1..(n + 1) : u[i] = s[i]
  BY <1>1, Beginning
<1>3. v \in Seq(Seq(S)) /\ Len(v) = n /\ \A i \in 1..n : v[i] = s[i]
  BY <1>1, Beginning
<1>4. s[n + 1] \in Seq(S)
  BY <1>1, ElementOfSeq
<1> HIDE DEF u, v
<1>5. PICK f : Gathers(f, u, n + 1) /\ FlattenSeq(u) = f[n + 1]
  <2>1. Len(u) > 0
    BY <1>1, <1>2
  <2> QED BY <1>2, <2>1, FlattenIs
<1>6. f[n + 1] = IF n + 1 = 1 THEN u[n + 1] ELSE f[(n + 1) - 1] \o u[n + 1]
  <2>1. n + 1 \in 1..(n + 1)
    BY <1>1
  <2> QED BY <1>5, <2>1 DEF Gathers
<1>7. CASE n = 0
  <2>1. FlattenSeq(v) = <<>>
    BY <1>7, FlattenNone DEF v
  <2>2. FlattenSeq(u) = s[n + 1]
    BY <1>2, <1>5, <1>6, <1>7, <1>1
  <2> QED BY <1>4, <2>1, <2>2, ConcatEmptySeq DEF u, v
<1>8. CASE n # 0
  <2>1. PICK g : Gathers(g, v, n) /\ FlattenSeq(v) = g[n]
    <3>1. Len(v) > 0
      BY <1>1, <1>3, <1>8
    <3> QED BY <1>3, <3>1, FlattenIs
  <2>2. Agree(v, u, n)
    <3>1. \A i \in 1..n : i \in 1..(n + 1)
      BY <1>1
    <3> QED BY <3>1, <1>2, <1>3 DEF Agree
  <2>3. f[n] = g[n]
    <3>1. n \in 0..(n + 1) /\ n \in 1..n /\ n + 1 \in Nat
      BY <1>1, <1>8
    <3>2. Agree(g, f, n)
      <4>1. PICK k \in Nat : k = n + 1
        BY <3>1
      <4>2. n \in 0..k /\ Gathers(f, u, k) /\ Gathers(g, v, n)
        BY <1>5, <2>1, <3>1, <4>1
      <4> QED BY <2>2, <4>2, GathersUnique
    <3> QED BY <3>1, <3>2 DEF Agree
  <2>4. (n + 1) - 1 = n /\ n + 1 # 1 /\ n + 1 \in 1..(n + 1)
    <3>1. n \in Nat
      BY <1>1
    <3> QED BY <1>8, <3>1
  <2>5. u[n + 1] = s[n + 1]
    BY <1>2, <2>4
  <2> QED BY <1>5, <1>6, <2>1, <2>3, <2>4, <2>5 DEF u, v
<1> QED BY <1>7, <1>8

LEMMA FlattenType ==
  ASSUME NEW S, NEW s \in Seq(Seq(S)), NEW n \in 0..Len(s)
  PROVE  FlattenSeq(SubSeq(s, 1, n)) \in Seq(S)
<1> DEFINE T == {k \in Nat : k <= Len(s) => FlattenSeq(SubSeq(s, 1, k)) \in Seq(S)}
<1>1. 0 \in T
  <2>1. <<>> \in Seq(S)
    BY EmptySeq
  <2> QED BY <2>1, FlattenNone
<1>2. ASSUME NEW k \in Nat, k \in T PROVE k + 1 \in T
  <2> SUFFICES ASSUME k + 1 <= Len(s) PROVE FlattenSeq(SubSeq(s, 1, k + 1)) \in Seq(S)
    OBVIOUS
  <2>1. Len(s) \in Nat
    BY LenProperties
  <2>2. k \in 0..(Len(s) - 1) /\ k <= Len(s) /\ k + 1 \in 1..Len(s)
    BY <2>1
  <2>3. FlattenSeq(SubSeq(s, 1, k)) \in Seq(S)
    BY <1>2, <2>2
  <2>4. s[k + 1] \in Seq(S)
    BY <2>2, ElementOfSeq
  <2>5. FlattenSeq(SubSeq(s, 1, k + 1)) = FlattenSeq(SubSeq(s, 1, k)) \o s[k + 1]
    BY <2>2, FlattenOneMore
  <2>6. FlattenSeq(SubSeq(s, 1, k)) \o s[k + 1] \in Seq(S)
    BY <2>3, <2>4, ConcatProperties
  <2> QED BY <2>5, <2>6
<1> HIDE DEF T
<1>3. Nat \subseteq T
  BY <1>1, <1>2, InductionOnNat
<1> QED BY <1>3 DEF T

(* What the first sequences make together begins what all make.            *)
LEMMA FlattenBegins ==
  ASSUME NEW S, NEW s \in Seq(Seq(S)), NEW n \in 0..Len(s)
  PROVE  IsPrefix(FlattenSeq(SubSeq(s, 1, n)), FlattenSeq(s))
<1> DEFINE F(k) == FlattenSeq(SubSeq(s, 1, k))
           T == {d \in Nat : n + d <= Len(s) => IsPrefix(F(n), F(n + d))}
<1>1. Len(s) \in Nat /\ n \in Nat
  BY LenProperties
<1>2. 0 \in T
  BY <1>1 DEF IsPrefix
<1>3. ASSUME NEW d \in Nat, d \in T PROVE d + 1 \in T
  <2> SUFFICES ASSUME n + (d + 1) <= Len(s) PROVE IsPrefix(F(n), F(n + (d + 1)))
    OBVIOUS
  <2>1. n + d \in 0..(Len(s) - 1) /\ n + d \in 0..Len(s) /\ (n + d) + 1 = n + (d + 1)
        /\ (n + d) + 1 \in 1..Len(s) /\ n + d <= Len(s)
    BY <1>1
  <2>2. IsPrefix(F(n), F(n + d))
    BY <1>3, <2>1
  <2>3. F(n) \in Seq(S) /\ F(n + d) \in Seq(S)
    BY <2>1, FlattenType
  <2>4. s[(n + d) + 1] \in Seq(S)
    BY <2>1, ElementOfSeq
  <2>5. F(n + (d + 1)) = F(n + d) \o s[(n + d) + 1]
    BY <2>1, FlattenOneMore
  <2> HIDE DEF F
  <2>6. PICK a, b, c : /\ a = F(n) /\ b = F(n + d) /\ c = s[(n + d) + 1]
                       /\ a \in Seq(S) /\ b \in Seq(S) /\ c \in Seq(S)
    BY <2>3, <2>4
  <2>7. Len(a) <= Len(b) /\ SubSeq(a, 1, Len(a)) = SubSeq(b, 1, Len(a))
    BY <2>2, <2>6 DEF IsPrefix
  <2>8. Len(a) \in 0..Len(b) /\ Len(b) \in Nat /\ Len(c) \in Nat
    BY <2>6, <2>7, LenProperties
  <2> DEFINE x == SubSeq(b, 1, Len(a))
             y == SubSeq(b \o c, 1, Len(a))
  <2>9. /\ b \o c \in Seq(S) /\ Len(b \o c) = Len(b) + Len(c)
        /\ \A i \in 1..(Len(b) + Len(c)) : (b \o c)[i] = IF i <= Len(b) THEN b[i] ELSE c[i - Len(b)]
    <3>1. b \in Seq(S) /\ c \in Seq(S)
      BY <2>6
    <3> QED BY <3>1, ConcatProperties
  <2>10. Len(a) \in 0..Len(b \o c)
    BY <2>8, <2>9
  <2>11. x \in Seq(S) /\ Len(x) = Len(a) /\ \A i \in 1..Len(a) : x[i] = b[i]
    BY <2>6, <2>8, Beginning
  <2>12. y \in Seq(S) /\ Len(y) = Len(a) /\ \A i \in 1..Len(a) : y[i] = (b \o c)[i]
    BY <2>9, <2>10, Beginning
  <2> HIDE DEF x, y
  <2>13. \A i \in 1..Len(a) : x[i] = y[i]
    BY <2>8, <2>9, <2>11, <2>12
  <2>14. x = y
    BY <2>11, <2>12, <2>13, SeqEqual
  <2>15. IsPrefix(a, b \o c)
    BY <2>7, <2>8, <2>9, <2>14 DEF IsPrefix, x, y
  <2> QED BY <2>5, <2>6, <2>15
<1> HIDE DEF T
<1>4. Nat \subseteq T
  BY <1>2, <1>3, InductionOnNat
<1>5. Len(s) - n \in Nat /\ n + (Len(s) - n) = Len(s)
  BY <1>1
<1>6. IsPrefix(F(n), F(Len(s)))
  <2>1. PICK d \in Nat : d = Len(s) - n
    BY <1>5
  <2>2. n + d <= Len(s) /\ n + d = Len(s)
    BY <1>1, <1>5, <2>1
  <2>3. d \in T
    BY <1>4
  <2>4. IsPrefix(F(n), F(n + d))
    BY <2>2, <2>3 DEF T
  <2> QED BY <2>2, <2>4
<1>7. SubSeq(s, 1, Len(s)) = s
  BY SubSeqFull
<1> QED BY <1>6, <1>7

LEMMA FlattenAll ==
  ASSUME NEW S, NEW s \in Seq(Seq(S))
  PROVE  FlattenSeq(s) \in Seq(S)
<1>1. Len(s) \in 0..Len(s) /\ SubSeq(s, 1, Len(s)) = s
  BY LenProperties, SubSeqFull
<1> QED BY <1>1, FlattenType

LEMMA FlattenLast ==
  ASSUME NEW S, NEW s \in Seq(Seq(S)), NEW n \in Nat, Len(s) = n + 1
  PROVE  /\ FlattenSeq(s) = FlattenSeq(SubSeq(s, 1, n)) \o s[n + 1]
         /\ FlattenSeq(SubSeq(s, 1, n)) \in Seq(S) /\ s[n + 1] \in Seq(S)
<1>1. n \in 0..(Len(s) - 1) /\ n \in 0..Len(s) /\ n + 1 \in 1..Len(s)
  OBVIOUS
<1>2. SubSeq(s, 1, n + 1) = s
  BY SubSeqFull
<1>3. FlattenSeq(SubSeq(s, 1, n + 1)) = FlattenSeq(SubSeq(s, 1, n)) \o s[n + 1]
  BY <1>1, FlattenOneMore
<1>4. FlattenSeq(SubSeq(s, 1, n)) \in Seq(S) /\ s[n + 1] \in Seq(S)
  BY <1>1, FlattenType, ElementOfSeq
<1> QED BY <1>2, <1>3, <1>4

(* What begins alike is alike.                                             *)
LEMMA SameBeginning ==
  ASSUME NEW S, NEW s \in Seq(S), NEW t \in Seq(S), NEW n \in 0..Len(s), n \in 0..Len(t),
         \A i \in 1..n : s[i] = t[i]
  PROVE  SubSeq(s, 1, n) = SubSeq(t, 1, n)
<1> DEFINE u == SubSeq(s, 1, n)
           v == SubSeq(t, 1, n)
<1>1. u \in Seq(S) /\ Len(u) = n /\ \A i \in 1..n : u[i] = s[i]
  BY Beginning
<1>2. v \in Seq(S) /\ Len(v) = n /\ \A i \in 1..n : v[i] = t[i]
  BY Beginning
<1> HIDE DEF u, v
<1>3. u = v
  BY <1>1, <1>2, SeqEqual
<1> QED BY <1>3 DEF u, v

(* One more piece, and a last piece that grows.                            *)
LEMMA FlattenAppend ==
  ASSUME NEW S, NEW s \in Seq(Seq(S)), NEW d \in Seq(S)
  PROVE  FlattenSeq(Append(s, d)) = FlattenSeq(s) \o d
<1> DEFINE t == Append(s, d)
<1>1. PICK n \in Nat : n = Len(s)
  BY LenProperties
<1>2. t \in Seq(Seq(S)) /\ Len(t) = n + 1 /\ t[n + 1] = d /\ \A i \in 1..n : t[i] = s[i]
  BY <1>1, AppendProperties
<1> HIDE DEF t
<1>3. n \in 0..Len(t) /\ n \in 0..Len(s)
  BY <1>1, <1>2
<1>4. SubSeq(t, 1, n) = s
  <2>1. SubSeq(t, 1, n) = SubSeq(s, 1, n)
    BY <1>2, <1>3, SameBeginning
  <2> QED BY <1>1, <2>1, SubSeqFull
<1>5. FlattenSeq(t) = FlattenSeq(SubSeq(t, 1, n)) \o t[n + 1]
  BY <1>2, FlattenLast
<1> QED BY <1>2, <1>4, <1>5 DEF t

LEMMA FlattenGrow ==
  ASSUME NEW S, NEW s \in Seq(Seq(S)), NEW t \in Seq(Seq(S)), NEW n \in Nat, NEW d \in Seq(S),
         Len(s) = n + 1, Len(t) = n + 1, \A i \in 1..n : t[i] = s[i],
         t[n + 1] = s[n + 1] \o d
  PROVE  FlattenSeq(t) = FlattenSeq(s) \o d
<1>1. n \in 0..Len(t) /\ n \in 0..Len(s)
  OBVIOUS
<1>2. PICK a \in Seq(S) : a = FlattenSeq(SubSeq(s, 1, n))
  BY FlattenLast
<1>3. FlattenSeq(SubSeq(t, 1, n)) = a
  BY <1>1, <1>2, SameBeginning
<1>4. PICK c \in Seq(S) : c = s[n + 1]
  BY FlattenLast
<1>5. FlattenSeq(t) = a \o (c \o d)
  BY <1>3, <1>4, FlattenLast
<1>6. FlattenSeq(s) = a \o c
  BY <1>2, <1>4, FlattenLast
<1>7. (a \o c) \o d = a \o (c \o d)
  <2>1. a \in Seq(S) /\ c \in Seq(S) /\ d \in Seq(S)
    OBVIOUS
  <2> QED BY ONLY <2>1, ConcatAssociative
<1> QED BY <1>5, <1>6, <1>7

LEMMA FlattenOfOne ==
  ASSUME NEW S, NEW d \in Seq(S)
  PROVE  FlattenSeq(<<d>>) = d
<1>1. <<>> \in Seq(Seq(S)) /\ FlattenSeq(<<>>) = <<>>
  BY EmptySeq DEF FlattenSeq
<1>2. Append(<<>>, d) = <<d>>
  OBVIOUS
<1>3. FlattenSeq(Append(<<>>, d)) = <<>> \o d
  BY <1>1, FlattenAppend
<1> QED BY <1>2, <1>3, ConcatEmptySeq
=============================================================================
