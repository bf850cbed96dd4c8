--------------------------- MODULE SequenceLemmas ---------------------------
(***************************************************************************)
(* Lemmas that the proofs about the chain source, the service and routing  *)
(* share: induction over the naturals and over sequences, stated with the  *)
(* set of what has the property; the existence of a function defined by    *)
(* recursion over 0..m; and what Select keeps.                             *)
(***************************************************************************)
EXTENDS Selection, SequencesExt, SequenceTheorems, WellFoundedInduction, TLAPS

(* a set of naturals has a least member *)
LEMMA LeastNatural ==
    ASSUME NEW T \in SUBSET Nat, T # {}
    PROVE  \E x \in T : \A y \in T : x <= y
<1> DEFINE R == OpToRel(<, Nat)
<1>1. IsWellFoundedOn(R, Nat)
  BY NatLessThanWellFounded
<1>2. PICK x \in T : \A y \in T : ~ (<<y, x>> \in R)
  <2> HIDE DEF R
  <2> QED BY <1>1, WFMin
<1>3. \A y \in T : ~(y < x)
  BY <1>2 DEF OpToRel
<1> QED BY <1>3

(* A set that has 0, and n + 1 with every n, has every natural number. *)
LEMMA Induction ==
    ASSUME NEW S, 0 \in S, \A n \in Nat : n \in S => n + 1 \in S
    PROVE  Nat \subseteq S
<1> SUFFICES ASSUME Nat \ S # {} PROVE FALSE
  OBVIOUS
<1>1. PICK x \in Nat \ S : \A y \in Nat \ S : x <= y
  BY LeastNatural
<1>2. x # 0 /\ x - 1 \in Nat /\ x - 1 < x
  BY <1>1
<1>3. x - 1 \in S
  BY <1>1, <1>2
<1>4. (x - 1) + 1 \in S
  BY <1>2, <1>3
<1> QED BY <1>1, <1>4

(* The same up to a bound. *)
LEMMA BoundedInduction ==
    ASSUME NEW S, NEW m \in Nat, 0 \in S, \A n \in 1..m : n - 1 \in S => n \in S
    PROVE  0..m \subseteq S
<1> DEFINE T == {n \in Nat : n <= m => n \in S}
<1>1. 0 \in T
  OBVIOUS
<1>2. ASSUME NEW n \in Nat, n \in T PROVE n + 1 \in T
  <2>1. CASE n + 1 <= m
    <3>1. n + 1 \in 1..m /\ (n + 1) - 1 = n /\ n \in S
      BY <1>2, <2>1
    <3> QED BY <3>1
  <2> QED BY <2>1
<1>3. Nat \subseteq T
  <2> HIDE DEF T
  <2> QED BY <1>1, <1>2, Induction
<1> QED BY <1>3

(* What is empty or longer by one element of something that has it. *)
LEMMA SequenceInduction ==
    ASSUME NEW S, NEW P, <<>> \in P,
           \A s \in Seq(S), e \in S : s \in P => Append(s, e) \in P
    PROVE  Seq(S) \subseteq P
<1> DEFINE T == {n \in Nat : \A s \in Seq(S) : Len(s) = n => s \in P}
<1>1. 0 \in T
  <2>1. ASSUME NEW s \in Seq(S), Len(s) = 0 PROVE s = <<>>
    BY <2>1, EmptySeq
  <2> QED BY <2>1
<1>2. ASSUME NEW n \in Nat, n \in T PROVE n + 1 \in T
  <2> SUFFICES ASSUME NEW s \in Seq(S), Len(s) = n + 1 PROVE s \in P
    OBVIOUS
  <2> DEFINE front == [i \in 1..n |-> s[i]]
  <2>1. s[n + 1] \in S
    OBVIOUS
  <2>2. front \in Seq(S) /\ Len(front) = n
    OBVIOUS
  <2>3. s = Append(front, s[n + 1])
    OBVIOUS
  <2>4. front \in P
    BY <1>2, <2>2
  <2> HIDE DEF front
  <2> QED BY <2>1, <2>2, <2>3, <2>4
<1>3. Nat \subseteq T
  <2> HIDE DEF T
  <2> QED BY <1>1, <1>2, Induction
<1> QED BY <1>3

(* There is a function that starts with c and goes on with g.  The two      *)
(* operators keep the quantifiers out of the provers' sight.                *)
IsRecursion(X, c, m, g) == c \in X /\ m \in Nat /\ g \in [1..m -> [X -> X]]

HasValue(X, c, m, g) ==
    \E f \in [0..m -> X] : f[0] = c /\ \A n \in 1..m : f[n] = g[n][f[n - 1]]

(* a function defined by recursion over 0..m exists and is what it says *)
LEMMA Recursion ==
    ASSUME NEW X, NEW c, NEW m, NEW g, IsRecursion(X, c, m, g)
    PROVE  HasValue(X, c, m, g)
<1> USE DEF IsRecursion
<1> DEFINE Good(n, f) == f[0] = c /\ \A i \in 1..n : f[i] = g[i][f[i - 1]]
           S == {n \in 0..m : \E f \in [0..n -> X] : Good(n, f)}
<1>1. 0 \in S
  <2>1. [i \in 0..0 |-> c] \in [0..0 -> X] /\ Good(0, [i \in 0..0 |-> c])
    OBVIOUS
  <2>2. 0 \in 0..m
    OBVIOUS
  <2> HIDE DEF Good
  <2> QED BY <2>1, <2>2
<1>2. ASSUME NEW n \in 1..m, n - 1 \in S PROVE n \in S
  <2>1. PICK f \in [0..(n - 1) -> X] : Good(n - 1, f)
    BY <1>2
  <2> DEFINE h == [i \in 0..n |-> IF i = n THEN g[n][f[n - 1]] ELSE f[i]]
  <2>2. n - 1 \in 0..(n - 1) /\ f[n - 1] \in X /\ g[n] \in [X -> X]
    BY <2>1
  <2>3. g[n][f[n - 1]] \in X
    BY <2>2
  <2>4. h \in [0..n -> X]
    BY <2>3
  <2>5. h[0] = c
    BY <2>1
  <2>6. ASSUME NEW i \in 1..n PROVE h[i] = g[i][h[i - 1]]
    <3>1. i - 1 \in 0..(n - 1) /\ i - 1 # n /\ h[i - 1] = f[i - 1]
      OBVIOUS
    <3>2. CASE i = n
      BY <3>1, <3>2
    <3>3. CASE i # n
      <4>1. i \in 1..(n - 1) /\ h[i] = f[i]
        BY <3>3
      <4> QED BY <2>1, <3>1, <4>1
    <3> QED BY <3>2, <3>3
  <2>7. Good(n, h)
    <3> HIDE DEF h
    <3> QED BY <2>5, <2>6
  <2> HIDE DEF h, Good
  <2> QED BY <2>4, <2>7
<1>3. m \in S
  <2> HIDE DEF S
  <2>1. 0..m \subseteq S
    BY <1>1, <1>2, BoundedInduction
  <2> QED BY <2>1
<1> QED
  BY <1>3 DEF HasValue

(* the members of a longer sequence *)
LEMMA ToSetAppend ==
    ASSUME NEW S, NEW s \in Seq(S), NEW e
    PROVE  ToSet(Append(s, e)) = ToSet(s) \cup {e}
<1>1. DOMAIN Append(s, e) = 1..(Len(s) + 1) /\ DOMAIN s = 1..Len(s) /\ Len(s) \in Nat
  OBVIOUS
<1>2. Append(s, e)[Len(s) + 1] = e /\ \A i \in 1..Len(s) : Append(s, e)[i] = s[i]
  OBVIOUS
<1>3. 1..(Len(s) + 1) = 1..Len(s) \cup {Len(s) + 1}
  BY <1>1
<1> DEFINE t == Append(s, e)
<1> HIDE DEF t
<1> QED BY <1>1, <1>2, <1>3 DEF ToSet, t

(* appending to a concatenation *)
LEMMA ConcatAppend ==
    ASSUME NEW S, NEW s \in Seq(S), NEW t \in Seq(S), NEW e \in S
    PROVE  s \o Append(t, e) = Append(s \o t, e)
OBVIOUS

-----------------------------------------------------------------------------
(* Select *)

(* f is the recursion that defines Select, as a function with a type *)
KeptBy(f, S, s, T) ==
    /\ f \in [0..Len(s) -> Seq(S \cap T)]
    /\ f[0] = <<>>
    /\ \A n \in 1..Len(s) :
          f[n] = IF s[n] \in T THEN Append(f[n - 1], s[n]) ELSE f[n - 1]
    /\ Select(s, T) = f[Len(s)]

(* the function that Select is defined by exists *)
LEMMA SelectRecursion ==
    ASSUME NEW S, NEW s \in Seq(S), NEW T
    PROVE  \E f : KeptBy(f, S, s, T)
<1> DEFINE X == Seq(S \cap T)
           m == Len(s)
           Is(f) == f = [n \in 0..m |->
                IF n = 0 THEN <<>>
                ELSE IF s[n] \in T THEN Append(f[n - 1], s[n]) ELSE f[n - 1]]
           g == [n \in 1..m |-> [x \in X |-> IF s[n] \in T THEN Append(x, s[n]) ELSE x]]
           Good(f) == /\ f[0] = <<>>
                      /\ \A n \in 1..m :
                            f[n] = IF s[n] \in T THEN Append(f[n - 1], s[n]) ELSE f[n - 1]
<1>1. m \in Nat /\ <<>> \in X /\ g \in [1..m -> [X -> X]]
  OBVIOUS
<1>2. \A n \in 1..m : n \in 0..m /\ n - 1 \in 0..m /\ n # 0
  BY <1>1
<1>3. 0 \in 0..m /\ \A n \in 0..m : n = 0 \/ n \in 1..m
  BY <1>1
<1>4. PICK f \in [0..m -> X] : f[0] = <<>> /\ \A n \in 1..m : f[n] = g[n][f[n - 1]]
  <2>1. IsRecursion(X, <<>>, m, g)
    BY <1>1 DEF IsRecursion
  <2> HIDE DEF g, X, m
  <2>2. HasValue(X, <<>>, m, g)
    BY <2>1, Recursion
  <2> QED BY <2>2 DEF HasValue
<1>5. Good(f)
  <2> SUFFICES ASSUME NEW n \in 1..m
               PROVE  f[n] = IF s[n] \in T THEN Append(f[n - 1], s[n]) ELSE f[n - 1]
    BY <1>4
  <2>1. f[n - 1] \in X
    <3> HIDE DEF X, m
    <3> QED BY <1>2, <1>4
  <2>2. g[n][f[n - 1]] = IF s[n] \in T THEN Append(f[n - 1], s[n]) ELSE f[n - 1]
    <3> HIDE DEF X, m
    <3> QED BY <2>1
  <2> QED BY <1>4, <2>2
<1>6. Is(f)
  <2> HIDE DEF X, m
  <2> QED BY <1>3, <1>4, <1>5
<1>7. Is(CHOOSE e : Is(e))
  <2> HIDE DEF Is
  <2> QED BY <1>6
<1> DEFINE h == CHOOSE e : Is(e)
<1>8. Select(s, T) = h[m]
  BY DEF Select
<1> HIDE DEF h
<1>9. DOMAIN h = 0..m /\ Good(h)
  <2>1. Is(h)
    BY <1>7 DEF h
  <2> HIDE DEF m
  <2> QED BY <1>2, <1>3, <2>1
<1>10. h \in [0..m -> X]
  <2> DEFINE P == {n \in 0..m : h[n] \in X}
  <2>1. 0 \in P
    BY <1>1, <1>3, <1>9
  <2>2. ASSUME NEW n \in 1..m, n - 1 \in P PROVE n \in P
    <3>1. h[n - 1] \in X /\ s[n] \in S
      BY <1>2, <2>2
    <3>2. h[n] \in X
      <4>1. CASE s[n] \in T
        <5>1. h[n] = Append(h[n - 1], s[n])
          BY <1>9, <4>1
        <5> QED BY <3>1, <4>1, <5>1
      <4> QED BY <1>9, <3>1, <4>1
    <3> QED BY <1>2, <3>2
  <2>3. 0..m \subseteq P
    <3> HIDE DEF P, m
    <3> QED BY <1>1, <2>1, <2>2, BoundedInduction
  <2>4. h = [n \in 0..m |-> h[n]]
    <3> HIDE DEF m
    <3>1. PICK e : h = [n \in 0..m |-> e[n]]
      BY <1>3, <1>7 DEF h
    <3> QED BY <3>1
  <2> QED BY <2>3, <2>4
<1>11. KeptBy(h, S, s, T)
  BY <1>8, <1>9, <1>10 DEF KeptBy
<1> QED BY <1>11

(* what is selected is in the set *)
LEMMA SelectType ==
    ASSUME NEW S, NEW s \in Seq(S), NEW T
    PROVE  Select(s, T) \in Seq(S \cap T)
<1>1. PICK f : KeptBy(f, S, s, T)
  BY SelectRecursion
<1>2. Len(s) \in 0..Len(s)
  OBVIOUS
<1> QED BY <1>1, <1>2 DEF KeptBy

(* nothing is selected from nothing *)
LEMMA SelectEmpty ==
    ASSUME NEW T
    PROVE  Select(<<>>, T) = <<>>
<1>1. <<>> \in Seq({}) /\ Len(<<>>) = 0
  OBVIOUS
<1>2. PICK f : KeptBy(f, {}, <<>>, T)
  BY <1>1, SelectRecursion
<1> QED BY <1>1, <1>2 DEF KeptBy

(* a last element is selected last *)
LEMMA SelectAppend ==
    ASSUME NEW S, NEW s \in Seq(S), NEW e \in S, NEW T
    PROVE  Select(Append(s, e), T) =
               IF e \in T THEN Append(Select(s, T), e) ELSE Select(s, T)
<1> DEFINE m == Len(s)
           t == Append(s, e)
<1>1. t \in Seq(S) /\ Len(t) = m + 1 /\ t[m + 1] = e /\ \A n \in 1..m : t[n] = s[n]
  OBVIOUS
<1>2. /\ m \in Nat /\ (m + 1) - 1 = m /\ m + 1 \in 1..(m + 1) /\ m \in 0..m
      /\ 1..m \subseteq 1..(m + 1) /\ 1..m \subseteq 0..m /\ 0 \in 0..m
  OBVIOUS
<1>3. PICK f : KeptBy(f, S, s, T)
  BY SelectRecursion
<1>4. PICK h : KeptBy(h, S, t, T)
  <2> HIDE DEF t
  <2> QED BY <1>1, SelectRecursion
<1> HIDE DEF t
<1>5. h[m] = f[m]
  <2> DEFINE P == {n \in 0..m : h[n] = f[n]}
  <2>1. 0 \in P
    BY <1>2, <1>3, <1>4 DEF KeptBy
  <2>2. ASSUME NEW n \in 1..m, n - 1 \in P PROVE n \in P
    <3>1. t[n] = s[n] /\ h[n - 1] = f[n - 1] /\ n \in 0..m
      BY <1>1, <1>2, <2>2
    <3>2. h[n] = IF t[n] \in T THEN Append(h[n - 1], t[n]) ELSE h[n - 1]
      BY <1>1, <1>2, <1>4 DEF KeptBy
    <3>3. f[n] = IF s[n] \in T THEN Append(f[n - 1], s[n]) ELSE f[n - 1]
      BY <1>3 DEF KeptBy
    <3>4. h[n] = f[n]
      BY <3>1, <3>2, <3>3
    <3> QED BY <3>1, <3>4
  <2>3. 0..m \subseteq P
    <3> HIDE DEF P, m
    <3> QED BY <1>2, <2>1, <2>2, BoundedInduction
  <2> QED BY <1>2, <2>3
<1>6. h[m + 1] = IF t[m + 1] \in T THEN Append(h[(m + 1) - 1], t[m + 1]) ELSE h[(m + 1) - 1]
  BY <1>1, <1>2, <1>4 DEF KeptBy
<1>7. Select(t, T) = h[m + 1] /\ Select(s, T) = f[m]
  BY <1>1, <1>3, <1>4 DEF KeptBy
<1>8. Select(t, T) = IF e \in T THEN Append(Select(s, T), e) ELSE Select(s, T)
  BY <1>1, <1>2, <1>5, <1>6, <1>7
<1> QED BY <1>8 DEF t

(* Select goes through a concatenation *)
LEMMA SelectConcat ==
    ASSUME NEW S, NEW s \in Seq(S), NEW t \in Seq(S), NEW T
    PROVE  Select(s \o t, T) = Select(s, T) \o Select(t, T)
<1> DEFINE P == {u \in Seq(S) : Select(s \o u, T) = Select(s, T) \o Select(u, T)}
<1>1. <<>> \in P
  <2>1. Select(s, T) \in Seq(S \cap T) /\ Select(<<>>, T) = <<>>
    BY SelectType, SelectEmpty
  <2>2. s \o <<>> = s /\ Select(s, T) \o <<>> = Select(s, T)
    BY <2>1
  <2> QED BY <2>1, <2>2
<1>2. ASSUME NEW u \in Seq(S), NEW e \in S, u \in P PROVE Append(u, e) \in P
  <2> DEFINE a == Select(s, T)
             b == Select(u, T)
  <2>1. a \in Seq(S \cap T) /\ b \in Seq(S \cap T)
    BY SelectType
  <2>2. s \o u \in Seq(S) /\ s \o Append(u, e) = Append(s \o u, e)
    BY ConcatAppend
  <2>3. Select(s \o Append(u, e), T) = IF e \in T THEN Append(a \o b, e) ELSE a \o b
    <3> DEFINE v == s \o u
    <3>1. v \in Seq(S) /\ Select(v, T) = a \o b
      BY <1>2, <2>2
    <3>2. s \o Append(u, e) = Append(v, e)
      BY <2>2
    <3> HIDE DEF v, a, b
    <3>3. Select(Append(v, e), T) = IF e \in T THEN Append(Select(v, T), e) ELSE Select(v, T)
      BY <3>1, SelectAppend
    <3> QED BY <3>1, <3>2, <3>3
  <2>4. Select(Append(u, e), T) = IF e \in T THEN Append(b, e) ELSE b
    BY SelectAppend
  <2> HIDE DEF a, b
  <2>5. Append(a \o b, e) = a \o Append(b, e)
    <3>1. a \in Seq(S) /\ b \in Seq(S)
      BY <2>1, SeqMonotonic
    <3>2. a \o b \in Seq(S) /\ <<e>> \in Seq(S)
      BY <3>1
    <3>3. Append(a \o b, e) = (a \o b) \o <<e>>
      BY <3>2, AppendIsConcat
    <3>4. Append(b, e) = b \o <<e>>
      BY <3>1, AppendIsConcat
    <3>5. (a \o b) \o <<e>> = a \o (b \o <<e>>)
      BY <3>1, <3>2, ConcatAssociative
    <3> QED BY <3>3, <3>4, <3>5
  <2>6. Select(s \o Append(u, e), T) = a \o Select(Append(u, e), T)
    BY <2>3, <2>4, <2>5
  <2> QED BY <2>6 DEF a
<1>3. Seq(S) \subseteq P
  <2> HIDE DEF P
  <2> QED BY <1>1, <1>2, SequenceInduction
<1> QED BY <1>3

(* one element is selected or not *)
LEMMA SelectOne ==
    ASSUME NEW e, NEW T
    PROVE  Select(<<e>>, T) = IF e \in T THEN <<e>> ELSE <<>>
<1>1. <<>> \in Seq({e}) /\ e \in {e} /\ Append(<<>>, e) = <<e>>
  OBVIOUS
<1>2. Select(Append(<<>>, e), T) = IF e \in T THEN Append(Select(<<>>, T), e) ELSE Select(<<>>, T)
  BY <1>1, SelectAppend
<1> QED BY <1>1, <1>2, SelectEmpty

(* a first element is selected first *)
LEMMA SelectHead ==
    ASSUME NEW S, NEW s \in Seq(S), s # <<>>, NEW T
    PROVE  Select(s, T) = (IF Head(s) \in T THEN <<Head(s)>> ELSE <<>>) \o Select(Tail(s), T)
<1>1. Head(s) \in S /\ <<Head(s)>> \in Seq(S) /\ Tail(s) \in Seq(S)
  OBVIOUS
<1>2. s = <<Head(s)>> \o Tail(s)
  OBVIOUS
<1> DEFINE h == <<Head(s)>>
           r == Tail(s)
<1>3. Select(h, T) = IF Head(s) \in T THEN <<Head(s)>> ELSE <<>>
  BY SelectOne
<1>4. Select(h \o r, T) = Select(h, T) \o Select(r, T)
  <2>1. h \in Seq(S) /\ r \in Seq(S)
    BY <1>1
  <2> HIDE DEF h, r
  <2> QED BY <2>1, SelectConcat
<1> QED BY <1>2, <1>3, <1>4

(* Select keeps what is wanted and nothing else. *)
LEMMA SelectMembers ==
    ASSUME NEW S, NEW s \in Seq(S), NEW T
    PROVE  ToSet(Select(s, T)) = ToSet(s) \cap T
<1> DEFINE P == {u \in Seq(S) : ToSet(Select(u, T)) = ToSet(u) \cap T}
<1>1. <<>> \in P
  BY SelectEmpty DEF ToSet
<1>2. ASSUME NEW u \in Seq(S), NEW e \in S, u \in P PROVE Append(u, e) \in P
  <2> DEFINE b == Select(u, T)
  <2>1. b \in Seq(S \cap T)
    BY SelectType
  <2>2. Select(Append(u, e), T) = IF e \in T THEN Append(b, e) ELSE b
    BY SelectAppend
  <2> HIDE DEF b
  <2>3. ToSet(Append(u, e)) = ToSet(u) \cup {e}
    BY ToSetAppend
  <2>4. ToSet(Append(b, e)) = ToSet(b) \cup {e}
    BY <2>1, ToSetAppend
  <2>5. ToSet(b) = ToSet(u) \cap T
    BY <1>2 DEF b
  <2>6. ToSet(Select(Append(u, e), T)) = ToSet(Append(u, e)) \cap T
    <3>1. CASE e \in T
      <4>1. Select(Append(u, e), T) = Append(b, e)
        BY <2>2, <3>1
      <4> QED BY <2>3, <2>4, <2>5, <3>1, <4>1
    <3>2. CASE e \notin T
      BY <2>2, <2>3, <2>5, <3>2
    <3> QED BY <3>1, <3>2
  <2>7. Append(u, e) \in Seq(S)
    OBVIOUS
  <2> QED BY <2>6, <2>7
<1>3. Seq(S) \subseteq P
  <2> HIDE DEF P
  <2> QED BY <1>1, <1>2, SequenceInduction
<1> QED BY <1>3

-----------------------------------------------------------------------------
(* FlattenSeq *)

(* f is the recursion that defines FlattenSeq, as a function with a type *)
FlattenedBy(f, S, seqs) ==
    /\ f \in [1..Len(seqs) -> Seq(S)]
    /\ f[1] = seqs[1]
    /\ \A n \in 2..Len(seqs) : f[n] = f[n - 1] \o seqs[n]
    /\ FlattenSeq(seqs) = f[Len(seqs)]

(* the function that FlattenSeq is defined by exists *)
LEMMA FlattenRecursion ==
    ASSUME NEW S, NEW seqs \in Seq(Seq(S)), seqs # <<>>
    PROVE  \E f : FlattenedBy(f, S, seqs)
<1> DEFINE X == Seq(S)
           m == Len(seqs)
           k == m - 1
           Is(f) == f = [n \in 1..m |-> IF n = 1 THEN seqs[n] ELSE f[n - 1] \o seqs[n]]
           g == [n \in 1..k |-> [x \in X |-> x \o seqs[n + 1]]]
<1>1. m \in Nat \ {0} /\ DOMAIN seqs = 1..m /\ \A n \in 1..m : seqs[n] \in X
  BY EmptySeq
<1> HIDE DEF m
<1>2. k \in Nat /\ 1 \in 1..m /\ m \in 1..m /\ \A n \in 1..k : n + 1 \in 1..m
  BY <1>1
<1>3. \A n \in 2..m : n \in 1..m /\ n - 1 \in 1..m /\ n # 1 /\ n - 1 \in 1..k /\ (n - 1) + 1 = n
  BY <1>1
<1>4. \A n \in 1..m : (n = 1 \/ n \in 2..m) /\ n - 1 \in 0..k
  BY <1>1
<1>5. PICK e \in [0..k -> X] : e[0] = seqs[1] /\ \A n \in 1..k : e[n] = g[n][e[n - 1]]
  <2>1. g \in [1..k -> [X -> X]]
    BY <1>1, <1>2
  <2>2. IsRecursion(X, seqs[1], k, g)
    BY <1>1, <1>2, <2>1 DEF IsRecursion
  <2> HIDE DEF g, X, k
  <2>3. HasValue(X, seqs[1], k, g)
    BY <2>2, Recursion
  <2> QED BY <2>3 DEF HasValue
<1> DEFINE f == [n \in 1..m |-> e[n - 1]]
<1>6. \A n \in 2..m : f[n] = f[n - 1] \o seqs[n]
  <2> SUFFICES ASSUME NEW n \in 2..m PROVE f[n] = f[n - 1] \o seqs[n]
    OBVIOUS
  <2>1. f[n] = e[n - 1] /\ f[n - 1] = e[(n - 1) - 1] /\ n - 1 \in 1..k
    BY <1>3
  <2>2. e[(n - 1) - 1] \in X
    <3>1. (n - 1) - 1 \in 0..k
      BY <1>2, <2>1
    <3> HIDE DEF X, k
    <3> QED BY <1>5, <3>1
  <2>3. e[n - 1] = g[n - 1][e[(n - 1) - 1]]
    BY <1>5, <2>1
  <2>4. g[n - 1][e[(n - 1) - 1]] = e[(n - 1) - 1] \o seqs[(n - 1) + 1]
    <3> HIDE DEF X, k
    <3> QED BY <2>1, <2>2
  <2> QED BY <1>3, <2>1, <2>3, <2>4
<1>7. f \in [1..m -> X] /\ f[1] = seqs[1]
  <2>1. \A n \in 1..m : e[n - 1] \in X
    <3> HIDE DEF X, k
    <3> QED BY <1>4, <1>5
  <2> QED BY <1>2, <1>5, <2>1
<1>8. Is(f)
  <2> HIDE DEF X
  <2>1. f = [n \in 1..m |-> f[n]]
    OBVIOUS
  <2>2. \A n \in 1..m : f[n] = IF n = 1 THEN seqs[n] ELSE f[n - 1] \o seqs[n]
    <3> HIDE DEF f
    <3> QED BY <1>3, <1>4, <1>6, <1>7
  <2> HIDE DEF f
  <2> QED BY <2>1, <2>2
<1>9. Is(CHOOSE u : Is(u))
  <2> HIDE DEF Is
  <2> QED BY <1>8
<1> DEFINE h == CHOOSE u : Is(u)
<1>10. FlattenSeq(seqs) = h[m]
  BY <1>1 DEF FlattenSeq, m
<1> HIDE DEF h
<1>11. /\ DOMAIN h = 1..m /\ h[1] = seqs[1]
       /\ \A n \in 2..m : h[n] = h[n - 1] \o seqs[n]
  <2>1. Is(h)
    BY <1>9 DEF h
  <2> QED BY <1>2, <1>3, <2>1
<1>12. h \in [1..m -> X]
  <2> DEFINE P == {n \in 0..k : h[n + 1] \in X}
  <2>1. 0 \in P
    BY <1>1, <1>2, <1>11
  <2>2. ASSUME NEW n \in 1..k, n - 1 \in P PROVE n \in P
    <3>1. (n - 1) + 1 = n /\ n + 1 \in 2..m /\ (n + 1) - 1 = n /\ n \in 0..k
      BY <1>2
    <3>2. h[n] \in X
      BY <2>2, <3>1
    <3>3. h[n + 1] = h[n] \o seqs[n + 1] /\ seqs[n + 1] \in X
      BY <1>1, <1>2, <1>11, <3>1
    <3>4. h[n + 1] \in X
      BY <3>2, <3>3, ConcatProperties
    <3> QED BY <3>1, <3>4
  <2>3. 0..k \subseteq P
    <3> HIDE DEF P, k
    <3> QED BY <1>2, <2>1, <2>2, BoundedInduction
  <2>4. \A n \in 1..m : h[n] \in X
    <3> SUFFICES ASSUME NEW n \in 1..m PROVE h[n] \in X
      OBVIOUS
    <3>1. n - 1 \in P /\ (n - 1) + 1 = n
      BY <1>4, <2>3
    <3> QED BY <3>1
  <2>5. PICK u : h = [n \in 1..m |-> u[n]]
    <3>1. Is(h)
      BY <1>9 DEF h
    <3>2. h = [n \in 1..m |-> h[n]]
      BY <3>1
    <3> QED BY <3>2
  <2> QED BY <2>4, <2>5
<1>13. FlattenedBy(h, S, seqs)
  BY <1>10, <1>11, <1>12 DEF FlattenedBy, m
<1> QED BY <1>13

(* a flattened sequence has the type of its parts *)
LEMMA FlattenType ==
    ASSUME NEW S, NEW seqs \in Seq(Seq(S))
    PROVE  FlattenSeq(seqs) \in Seq(S)
<1>1. CASE seqs = <<>>
  BY <1>1 DEF FlattenSeq
<1>2. CASE seqs # <<>>
  <2>1. PICK f : FlattenedBy(f, S, seqs)
    BY <1>2, FlattenRecursion
  <2>2. Len(seqs) \in 1..Len(seqs)
    BY <1>2, EmptySeq
  <2> QED BY <2>1, <2>2 DEF FlattenedBy
<1> QED BY <1>1, <1>2

(* one part flattened is that part *)
LEMMA FlattenOne ==
    ASSUME NEW S, NEW s \in Seq(S)
    PROVE  FlattenSeq(<<s>>) = s
<1>1. <<s>> \in Seq(Seq(S)) /\ <<s>> # <<>> /\ Len(<<s>>) = 1 /\ <<s>>[1] = s
  OBVIOUS
<1> DEFINE t == <<s>>
<1>2. t \in Seq(Seq(S)) /\ t # <<>> /\ Len(t) = 1 /\ t[1] = s
  BY <1>1
<1> HIDE DEF t
<1>3. PICK f : FlattenedBy(f, S, t)
  BY <1>2, FlattenRecursion
<1>4. FlattenSeq(t) = s
  BY <1>2, <1>3 DEF FlattenedBy
<1> QED BY <1>4 DEF t

(* and the first of several begins the whole *)
LEMMA FlattenHead ==
    ASSUME NEW S, NEW seqs \in Seq(Seq(S)), seqs # <<>>, seqs[1] # <<>>
    PROVE  FlattenSeq(seqs) # <<>> /\ Head(FlattenSeq(seqs)) = Head(seqs[1])
<1> DEFINE m == Len(seqs)
           k == m - 1
<1>1. m \in Nat \ {0} /\ \A n \in 1..m : seqs[n] \in Seq(S)
  BY EmptySeq
<1>2. PICK f : FlattenedBy(f, S, seqs)
  BY FlattenRecursion
<1>3. /\ f \in [1..m -> Seq(S)] /\ f[1] = seqs[1] /\ FlattenSeq(seqs) = f[m]
      /\ \A n \in 2..m : f[n] = f[n - 1] \o seqs[n]
  BY <1>2 DEF FlattenedBy
<1> HIDE DEF m
<1> DEFINE P == {n \in 0..k : f[n + 1] # <<>> /\ Head(f[n + 1]) = Head(seqs[1])}
<1>4. 0 \in P /\ k \in Nat
  BY <1>1, <1>3
<1>5. ASSUME NEW n \in 1..k, n - 1 \in P PROVE n \in P
  <2>1. (n - 1) + 1 = n /\ n + 1 \in 2..m /\ (n + 1) - 1 = n /\ n \in 0..k /\ n \in 1..m /\ n + 1 \in 1..m
    BY <1>1
  <2> DEFINE a == f[n]
             b == seqs[n + 1]
  <2>2. a \in Seq(S) /\ b \in Seq(S) /\ a # <<>> /\ Head(a) = Head(seqs[1])
    BY <1>1, <1>3, <1>5, <2>1
  <2>3. f[n + 1] = a \o b
    BY <1>3, <2>1
  <2> HIDE DEF a, b
  <2>4. a \o b # <<>> /\ Head(a \o b) = Head(a)
    BY <2>2
  <2> QED BY <2>1, <2>2, <2>3, <2>4
<1>6. k \in P
  <2>1. 0..k \subseteq P
    <3> HIDE DEF P, k
    <3> QED BY <1>4, <1>5, BoundedInduction
  <2> QED BY <1>4, <2>1
<1>7. k + 1 = m
  BY <1>1
<1> QED BY <1>3, <1>6, <1>7
=============================================================================
