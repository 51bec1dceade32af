------------------------ MODULE SequenceFilterProofs ------------------------
(***************************************************************************)
(* What SelectIn does to a sequence, and the inductions it takes.  The     *)
(* provers cannot instantiate an induction theorem that takes a predicate; *)
(* the ones here take the set of the values that satisfy it.               *)
(***************************************************************************)
EXTENDS SequenceFilter, SequencesExt, SequenceTheorems, WellFoundedInduction, TLAPS

-----------------------------------------------------------------------------
\* Induction on a natural number.
LEMMA NatInductionOnSet ==
  ASSUME NEW T, 0 \in T, \A n \in Nat : n \in T => n + 1 \in T
  PROVE  Nat \subseteq T
<1> DEFINE U == Nat \ T
<1> SUFFICES ASSUME U # {} PROVE FALSE
  OBVIOUS
<1>1. PICK n \in U : \A k \in U : ~ (<<k, n>> \in OpToRel(<, Nat))
  BY NatLessThanWellFounded, WFMin
<1>2. \A k \in Nat : k < n => k \in T
  BY <1>1 DEF OpToRel
<1>3. n \in Nat /\ n # 0
  BY <1>1
<1>4. n - 1 \in Nat /\ n - 1 < n /\ (n - 1) + 1 = n
  BY <1>3
<1> QED
  BY <1>1, <1>2, <1>4

\* Induction on a sequence, from its end.
LEMMA SeqInductionOnSet ==
  ASSUME NEW S, NEW T, <<>> \in T,
         \A s \in Seq(S), e \in S : s \in T => Append(s, e) \in T
  PROVE  Seq(S) \subseteq T
<1> DEFINE N == {n \in Nat : \A s \in Seq(S) : Len(s) = n => s \in T}
<1>1. 0 \in N
  BY EmptySeq
<1>2. ASSUME NEW n \in Nat, n \in N PROVE n + 1 \in N
  <2> SUFFICES ASSUME NEW s \in Seq(S), Len(s) = n + 1 PROVE s \in T
    OBVIOUS
  <2>1. s # <<>>
    BY EmptySeq
  <2>2. PICK t \in Seq(S), e \in S : s = Append(t, e)
    BY <2>1, SequenceEmptyOrAppend
  <2>3. Len(t) = n
    BY <2>2, AppendProperties
  <2> QED
    BY <1>2, <2>2, <2>3
<1>3. Nat \subseteq N
  BY <1>1, <1>2, NatInductionOnSet
<1> QED
  BY <1>3, LenProperties

-----------------------------------------------------------------------------
\* The recursion of SelectIn, up to n.
Filters(f, s, K, n) ==
  f = [i \in 0 .. n |-> IF i = 0 THEN <<>>
                        ELSE IF s[i] \in K THEN Append(f[i - 1], s[i]) ELSE f[i - 1]]

\* There is such a function, and only one: sequences that agree up to n have
\* the same.
LEMMA FilterExists ==
  ASSUME NEW s, NEW K, NEW n \in Nat
  PROVE  \E f : Filters(f, s, K, n)
<1> DEFINE T == {k \in Nat : \E f : Filters(f, s, K, k)}
<1>1. 0 \in T
  <2> DEFINE f == [i \in 0 .. 0 |-> <<>>]
  <2>1. Filters(f, s, K, 0)
    BY DEF Filters
  <2> QED
    BY <2>1
<1>2. ASSUME NEW k \in Nat, k \in T PROVE k + 1 \in T
  <2>1. PICK f : Filters(f, s, K, k)
    BY <1>2
  <2> DEFINE x == IF s[k + 1] \in K THEN Append(f[k], s[k + 1]) ELSE f[k]
             g == [i \in 0 .. k + 1 |-> IF i <= k THEN f[i] ELSE x]
  <2>2. \A i \in 0 .. k : f[i] = IF i = 0 THEN <<>>
                        ELSE IF s[i] \in K THEN Append(f[i - 1], s[i]) ELSE f[i - 1]
    BY <2>1 DEF Filters
  <2>3. \A i \in 0 .. k + 1 : g[i] = IF i = 0 THEN <<>>
                        ELSE IF s[i] \in K THEN Append(g[i - 1], s[i]) ELSE g[i - 1]
    <3> SUFFICES ASSUME NEW i \in 0 .. k + 1
                 PROVE  g[i] = IF i = 0 THEN <<>>
                        ELSE IF s[i] \in K THEN Append(g[i - 1], s[i]) ELSE g[i - 1]
      OBVIOUS
    <3>1. CASE i = 0
      BY <2>2, <3>1
    <3>2. CASE i # 0 /\ i <= k
      <4>1. g[i] = f[i] /\ g[i - 1] = f[i - 1] /\ i \in 0 .. k
        BY <3>2
      <4> QED
        BY <2>2, <3>2, <4>1
    <3>3. CASE i = k + 1
      <4>1. g[i] = x /\ g[i - 1] = f[k] /\ i # 0
        BY <3>3
      <4> QED
        BY <3>3, <4>1
    <3> QED
      BY <3>1, <3>2, <3>3
  <2>4. Filters(g, s, K, k + 1)
    BY <2>3 DEF Filters
  <2> QED
    BY <2>4
<1>3. Nat \subseteq T
  BY <1>1, <1>2, NatInductionOnSet
<1> QED
  BY <1>3

\* Two filterings of sequences that agree on a prefix agree there.
LEMMA FilterUnique ==
  ASSUME NEW K, NEW n \in Nat, NEW s, NEW t, \A i \in 1 .. n : s[i] = t[i],
         NEW m \in Nat, m >= n, NEW f, Filters(f, s, K, n), NEW g, Filters(g, t, K, m)
  PROVE  f[n] = g[n]
<1> DEFINE T == {k \in Nat : k <= n => f[k] = g[k]}
<1>1. 0 \in T
  BY DEF Filters
<1>2. ASSUME NEW k \in Nat, k \in T PROVE k + 1 \in T
  <2> SUFFICES ASSUME k + 1 <= n PROVE f[k + 1] = g[k + 1]
    OBVIOUS
  <2>1. k + 1 \in 0 .. n /\ k + 1 \in 0 .. m /\ k + 1 # 0 /\ (k + 1) - 1 = k
        /\ s[k + 1] = t[k + 1] /\ f[k] = g[k]
    BY <1>2
  <2>2. f[k + 1] = IF s[k + 1] \in K THEN Append(f[k], s[k + 1]) ELSE f[k]
    BY <2>1 DEF Filters
  <2>3. g[k + 1] = IF t[k + 1] \in K THEN Append(g[k], t[k + 1]) ELSE g[k]
    BY <2>1 DEF Filters
  <2> QED
    BY <2>1, <2>2, <2>3
<1>3. Nat \subseteq T
  BY <1>1, <1>2, NatInductionOnSet
<1> QED
  BY <1>3

\* The last value of the function is what SelectIn returns.
LEMMA FilterIsSelectIn ==
  ASSUME NEW s, NEW K, Len(s) \in Nat, NEW f, Filters(f, s, K, Len(s))
  PROVE  SelectIn(s, K) = f[Len(s)]
<1> DEFINE kept == CHOOSE g : g = [i \in 0 .. Len(s) |-> IF i = 0 THEN <<>>
                        ELSE IF s[i] \in K THEN Append(g[i - 1], s[i]) ELSE g[i - 1]]
<1>1. SelectIn(s, K) = kept[Len(s)]
  BY DEF SelectIn
<1>2. Filters(kept, s, K, Len(s))
  BY DEF Filters
<1> HIDE DEF kept
<1> QED
  BY <1>1, <1>2, FilterUnique

-----------------------------------------------------------------------------
\* SelectIn, one element at a time.
LEMMA SelectInEmpty ==
  ASSUME NEW K
  PROVE  SelectIn(<<>>, K) = <<>>
<1>1. PICK f : Filters(f, <<>>, K, 0)
  BY FilterExists
<1>2. f[0] = <<>>
  BY <1>1 DEF Filters
<1>3. Len(<<>>) = 0
  OBVIOUS
<1> QED
  BY <1>1, <1>2, <1>3, FilterIsSelectIn

\* What is appended is kept if it is in K.
LEMMA SelectInAppend ==
  ASSUME NEW S, NEW s \in Seq(S), NEW e \in S, NEW K
  PROVE  SelectIn(Append(s, e), K) = IF e \in K THEN Append(SelectIn(s, K), e)
                                                ELSE SelectIn(s, K)
<1> DEFINE t == Append(s, e)
           n == Len(s)
<1>1. n \in Nat /\ Len(t) = n + 1 /\ t[n + 1] = e /\ \A i \in 1 .. n : s[i] = t[i]
  BY AppendProperties, LenProperties
<1> HIDE DEF t, n
<1>2. PICK f : Filters(f, s, K, n)
  BY <1>1, FilterExists
<1>3. PICK g : Filters(g, t, K, n + 1)
  <2>1. n + 1 \in Nat
    BY <1>1
  <2> QED
    BY <2>1, FilterExists
<1>4. f[n] = g[n]
  BY <1>1, <1>2, <1>3, FilterUnique
<1>5. g[n + 1] = IF t[n + 1] \in K THEN Append(g[n], t[n + 1]) ELSE g[n]
  <2>1. n + 1 \in 0 .. n + 1 /\ n + 1 # 0 /\ (n + 1) - 1 = n
    BY <1>1
  <2> QED
    BY <1>3, <2>1 DEF Filters
<1>6. SelectIn(s, K) = f[n]
  BY <1>1, <1>2, FilterIsSelectIn DEF n
<1>7. SelectIn(t, K) = g[n + 1]
  BY <1>1, <1>3, FilterIsSelectIn
<1> QED
  BY <1>1, <1>4, <1>5, <1>6, <1>7 DEF t

\* It returns a sequence of the same elements, those in K.
LEMMA SelectInType ==
  ASSUME NEW S, NEW s \in Seq(S), NEW K
  PROVE  SelectIn(s, K) \in Seq(S)
<1> DEFINE T == {t \in Seq(S) : SelectIn(t, K) \in Seq(S)}
<1>1. <<>> \in T
  BY SelectInEmpty, EmptySeq
<1>2. ASSUME NEW t \in Seq(S), NEW e \in S, t \in T PROVE Append(t, e) \in T
  <2>1. SelectIn(t, K) \in Seq(S)
    BY <1>2
  <2>2. SelectIn(Append(t, e), K) \in {Append(SelectIn(t, K), e), SelectIn(t, K)}
    BY SelectInAppend
  <2>3. Append(t, e) \in Seq(S) /\ Append(SelectIn(t, K), e) \in Seq(S)
    BY <2>1, AppendProperties
  <2> QED
    BY <2>1, <2>2, <2>3
<1> QED
  BY <1>1, <1>2, SeqInductionOnSet

\* The elements of a sequence with one more.
LEMMA ToSetAppend ==
  ASSUME NEW S, NEW s \in Seq(S), NEW e \in S
  PROVE  ToSet(Append(s, e)) = ToSet(s) \cup {e}
<1>1. /\ DOMAIN Append(s, e) = 1 .. Len(s) + 1 /\ DOMAIN s = 1 .. Len(s) /\ Len(s) \in Nat
      /\ Append(s, e)[Len(s) + 1] = e
      /\ \A i \in 1 .. Len(s) : Append(s, e)[i] = s[i]
  BY AppendProperties, LenProperties
<1> QED
  BY <1>1 DEF ToSet

\* SelectIn keeps the elements that are in K.
LEMMA SelectInToSet ==
  ASSUME NEW S, NEW s \in Seq(S), NEW K
  PROVE  ToSet(SelectIn(s, K)) = ToSet(s) \cap K
<1> DEFINE T == {t \in Seq(S) : ToSet(SelectIn(t, K)) = ToSet(t) \cap K}
<1>1. <<>> \in T
  BY SelectInEmpty, EmptySeq DEF ToSet
<1>2. ASSUME NEW t \in Seq(S), NEW e \in S, t \in T PROVE Append(t, e) \in T
  <2>1. ToSet(SelectIn(t, K)) = ToSet(t) \cap K /\ SelectIn(t, K) \in Seq(S)
    BY <1>2, SelectInType
  <2>2. ToSet(Append(t, e)) = ToSet(t) \cup {e} /\ Append(t, e) \in Seq(S)
    BY ToSetAppend, AppendProperties
  <2>3. ToSet(Append(SelectIn(t, K), e)) = ToSet(SelectIn(t, K)) \cup {e}
    BY <2>1, ToSetAppend
  <2>4. SelectIn(Append(t, e), K) = IF e \in K THEN Append(SelectIn(t, K), e) ELSE SelectIn(t, K)
    BY SelectInAppend
  <2> QED
    BY <2>1, <2>2, <2>3, <2>4
<1> QED
  BY <1>1, <1>2, SeqInductionOnSet

\* No element is twice in a sequence that a new one is appended to.
LEMMA InjectiveAppend ==
  ASSUME NEW S, NEW s \in Seq(S), NEW e \in S
  PROVE  IsInjective(Append(s, e)) <=> IsInjective(s) /\ e \notin ToSet(s)
<1>1. /\ Len(Append(s, e)) = Len(s) + 1 /\ Len(s) \in Nat /\ DOMAIN s = 1 .. Len(s)
      /\ Append(s, e)[Len(s) + 1] = e
      /\ \A i \in 1 .. Len(s) : Append(s, e)[i] = s[i]
  BY AppendProperties, LenProperties
<1>2. e \in ToSet(s) <=> \E i \in 1 .. Len(s) : s[i] = e
  BY <1>1 DEF ToSet
<1>3. CASE e \in ToSet(s)
  <2>1. PICK i \in 1 .. Len(s) : s[i] = e
    BY <1>2, <1>3
  <2>2. i \in 1 .. Len(s) + 1 /\ Len(s) + 1 \in 1 .. Len(s) + 1 /\ i # Len(s) + 1
    BY <1>1
  <2> QED
    BY <1>1, <1>3, <2>1, <2>2 DEF IsInjective, ToSet
<1>4. CASE e \notin ToSet(s)
  BY <1>1, <1>2, <1>4 DEF IsInjective, ToSet
<1> QED
  BY <1>3, <1>4

\* Nothing is twice in what is selected of a sequence where nothing is.
LEMMA SelectInInjective ==
  ASSUME NEW S, NEW s \in Seq(S), NEW K, IsInjective(s)
  PROVE  IsInjective(SelectIn(s, K))
<1> DEFINE T == {t \in Seq(S) : IsInjective(t) => IsInjective(SelectIn(t, K))}
<1>1. <<>> \in T
  BY SelectInEmpty, EmptySeq
<1>2. ASSUME NEW t \in Seq(S), NEW e \in S, t \in T PROVE Append(t, e) \in T
  <2> SUFFICES ASSUME IsInjective(Append(t, e))
               PROVE  IsInjective(SelectIn(Append(t, e), K))
    BY AppendProperties
  <2>1. IsInjective(t) /\ e \notin ToSet(t)
    BY InjectiveAppend
  <2>2. SelectIn(t, K) \in Seq(S) /\ IsInjective(SelectIn(t, K))
        /\ e \notin ToSet(SelectIn(t, K))
    BY <1>2, <2>1, SelectInType, SelectInToSet
  <2>3. IsInjective(Append(SelectIn(t, K), e))
    BY <2>2, InjectiveAppend
  <2> QED
    BY <2>2, <2>3, SelectInAppend
<1> QED
  BY <1>1, <1>2, SeqInductionOnSet

-----------------------------------------------------------------------------
\* The elements of a concatenation.
LEMMA ToSetConcat ==
  ASSUME NEW S, NEW s \in Seq(S), NEW t \in Seq(S)
  PROVE  ToSet(s \o t) = ToSet(s) \cup ToSet(t)
<1> DEFINE u == s \o t
<1>1. /\ u \in Seq(S) /\ Len(u) = Len(s) + Len(t) /\ Len(s) \in Nat /\ Len(t) \in Nat
      /\ DOMAIN u = 1 .. Len(u) /\ DOMAIN s = 1 .. Len(s) /\ DOMAIN t = 1 .. Len(t)
  BY ConcatProperties, LenProperties
<1>2. \A i \in 1 .. Len(s) : u[i] = s[i]
  BY <1>1, ConcatProperties
<1>3. \A i \in 1 .. Len(t) : u[Len(s) + i] = t[i]
  BY <1>1, ConcatProperties
<1>4. \A i \in 1 .. Len(u) : i \in 1 .. Len(s) \/ \E j \in 1 .. Len(t) : i = Len(s) + j
  <2> TAKE i \in 1 .. Len(u)
  <2>1. CASE i > Len(s)
    <3>1. i - Len(s) \in 1 .. Len(t) /\ i = Len(s) + (i - Len(s))
      BY <1>1, <2>1
    <3> QED
      BY <3>1
  <2> QED
    BY <1>1, <2>1
<1>5. \A j \in 1 .. Len(t) : Len(s) + j \in 1 .. Len(u)
  BY <1>1
<1>6. \A i \in 1 .. Len(s) : i \in 1 .. Len(u)
  BY <1>1
<1> HIDE DEF u
<1>7. ToSet(u) = {u[i] : i \in 1 .. Len(u)} /\ ToSet(s) = {s[i] : i \in 1 .. Len(s)}
      /\ ToSet(t) = {t[i] : i \in 1 .. Len(t)}
  BY <1>1 DEF ToSet
<1>8. ASSUME NEW x, x \in ToSet(u) PROVE x \in ToSet(s) \cup ToSet(t)
  <2>1. PICK i \in 1 .. Len(u) : x = u[i]
    BY <1>7, <1>8
  <2>2. CASE i \in 1 .. Len(s)
    BY <1>2, <1>7, <2>1, <2>2
  <2>3. CASE \E j \in 1 .. Len(t) : i = Len(s) + j
    BY <1>3, <1>7, <2>1, <2>3
  <2> QED
    BY <1>4, <2>2, <2>3
<1>9. ASSUME NEW x, x \in ToSet(s) \cup ToSet(t) PROVE x \in ToSet(u)
  <2>1. CASE x \in ToSet(s)
    BY <1>2, <1>6, <1>7, <2>1
  <2>2. CASE x \in ToSet(t)
    <3>1. PICK j \in 1 .. Len(t) : x = t[j]
      BY <1>7, <2>2
    <3>2. x = u[Len(s) + j] /\ Len(s) + j \in 1 .. Len(u)
      BY <1>3, <1>5, <3>1
    <3> QED
      BY <1>7, <3>2
  <2> QED
    BY <1>9, <2>1, <2>2
<1> QED
  BY <1>8, <1>9 DEF u

\* No element is twice in a concatenation of sequences that have none in common.
LEMMA InjectiveConcat ==
  ASSUME NEW S, NEW s \in Seq(S), NEW t \in Seq(S)
  PROVE  IsInjective(s \o t) <=>
           IsInjective(s) /\ IsInjective(t) /\ ToSet(s) \cap ToSet(t) = {}
<1> DEFINE u == s \o t
<1>1. /\ u \in Seq(S) /\ Len(u) = Len(s) + Len(t) /\ Len(s) \in Nat /\ Len(t) \in Nat
      /\ DOMAIN u = 1 .. Len(u) /\ DOMAIN s = 1 .. Len(s) /\ DOMAIN t = 1 .. Len(t)
  BY ConcatProperties, LenProperties
<1>2. \A i \in 1 .. Len(s) : u[i] = s[i]
  BY <1>1, ConcatProperties
<1>3. \A i \in 1 .. Len(t) : u[Len(s) + i] = t[i]
  BY <1>1, ConcatProperties
<1> HIDE DEF u
<1>4. ASSUME IsInjective(u) PROVE IsInjective(s) /\ IsInjective(t) /\ ToSet(s) \cap ToSet(t) = {}
  <2>1. IsInjective(s)
    BY <1>1, <1>2, <1>4 DEF IsInjective
  <2>2. IsInjective(t)
    <3> SUFFICES ASSUME NEW i \in 1 .. Len(t), NEW j \in 1 .. Len(t), t[i] = t[j] PROVE i = j
      BY <1>1 DEF IsInjective
    <3>1. Len(s) + i \in DOMAIN u /\ Len(s) + j \in DOMAIN u
      BY <1>1
    <3>2. u[Len(s) + i] = u[Len(s) + j]
      BY <1>3
    <3>3. Len(s) + i = Len(s) + j
      BY <1>4, <3>1, <3>2 DEF IsInjective
    <3> QED
      BY <1>1, <3>3
  <2>3. ASSUME NEW i \in 1 .. Len(s), NEW j \in 1 .. Len(t) PROVE s[i] # t[j]
    <3>1. i \in DOMAIN u /\ Len(s) + j \in DOMAIN u /\ i # Len(s) + j
      BY <1>1
    <3> QED
      BY <1>2, <1>3, <1>4, <3>1 DEF IsInjective
  <2> QED
    BY <1>1, <2>1, <2>2, <2>3 DEF ToSet
<1>5. ASSUME IsInjective(s), IsInjective(t), ToSet(s) \cap ToSet(t) = {} PROVE IsInjective(u)
  <2> SUFFICES ASSUME NEW i \in 1 .. Len(u), NEW j \in 1 .. Len(u), u[i] = u[j] PROVE i = j
    BY <1>1 DEF IsInjective
  <2>1. \A k \in 1 .. Len(u) : k > Len(s) => k - Len(s) \in 1 .. Len(t) /\ u[k] = t[k - Len(s)]
    <3> TAKE k \in 1 .. Len(u)
    <3> HAVE k > Len(s)
    <3>1. k - Len(s) \in 1 .. Len(t) /\ k = Len(s) + (k - Len(s))
      BY <1>1
    <3> QED
      BY <1>3, <3>1
  <2>2. \A k \in 1 .. Len(u) : k <= Len(s) => k \in 1 .. Len(s) /\ u[k] = s[k]
    BY <1>1, <1>2
  <2>3. CASE i <= Len(s) /\ j <= Len(s)
    BY <1>1, <1>5, <2>2, <2>3 DEF IsInjective
  <2>4. CASE i > Len(s) /\ j > Len(s)
    <3>1. i - Len(s) = j - Len(s)
      BY <1>1, <1>5, <2>1, <2>4 DEF IsInjective
    <3> QED
      BY <1>1, <3>1
  <2>5. CASE i <= Len(s) /\ j > Len(s)
    BY <1>1, <1>5, <2>1, <2>2, <2>5 DEF ToSet
  <2>6. CASE i > Len(s) /\ j <= Len(s)
    BY <1>1, <1>5, <2>1, <2>2, <2>6 DEF ToSet
  <2> QED
    BY <1>1, <2>3, <2>4, <2>5, <2>6
<1> QED
  BY <1>4, <1>5 DEF u

\* A sequence cut at one of its elements.
LEMMA CutAt ==
  ASSUME NEW S, NEW s \in Seq(S), NEW n \in 1 .. Len(s)
  PROVE  /\ SubSeq(s, 1, n - 1) \in Seq(S) /\ SubSeq(s, n + 1, Len(s)) \in Seq(S)
         /\ s[n] \in S
         /\ s = SubSeq(s, 1, n - 1) \o (<<s[n]>> \o SubSeq(s, n + 1, Len(s)))
<1>1. Len(s) \in Nat /\ \A i \in 1 .. Len(s) : s[i] \in S
  BY LenProperties, ElementOfSeq
<1>2. SubSeq(s, 1, n - 1) \in Seq(S) /\ SubSeq(s, n + 1, Len(s)) \in Seq(S)
  <2>1. n - 1 \in Int /\ n + 1 \in Int /\ 1 \in Int /\ Len(s) \in Int
    BY <1>1
  <2>2. \A i \in 1 .. n - 1 : s[i] \in S
    BY <1>1
  <2>3. \A i \in n + 1 .. Len(s) : s[i] \in S
    BY <1>1
  <2> QED
    BY <2>1, <2>2, <2>3, SubSeqProperties
<1>3. <<s[n]>> \o SubSeq(s, n + 1, Len(s)) = SubSeq(s, n, Len(s))
  <2>1. Len(s) \in n .. Len(s)
    BY <1>1
  <2> QED
    BY <2>1, SubSeqRecursiveFirst
<1>4. SubSeq(s, 1, n - 1) \o SubSeq(s, n, Len(s)) = SubSeq(s, 1, Len(s))
  <2> DEFINE k == n - 1
  <2>1. k \in 1 - 1 .. Len(s) /\ Len(s) \in k .. Len(s) /\ 1 \in 1 .. Len(s) + 1 /\ n = k + 1
    BY <1>1
  <2> HIDE DEF k
  <2>2. SubSeq(s, 1, k) \o SubSeq(s, k + 1, Len(s)) = SubSeq(s, 1, Len(s))
    BY <2>1, ConcatAdjacentSubSeq
  <2> QED
    BY <2>1, <2>2 DEF k
<1> QED
  BY <1>1, <1>2, <1>3, <1>4, SubSeqFull

\* Append and concatenation, in either order.
LEMMA ConcatAppend ==
  ASSUME NEW S, NEW s \in Seq(S), NEW t \in Seq(S), NEW e \in S
  PROVE  s \o Append(t, e) = Append(s \o t, e)
<1>1. Append(t, e) = t \o <<e>> /\ Append(s \o t, e) = (s \o t) \o <<e>>
  BY ConcatProperties, AppendIsConcat
<1>2. <<e>> \in Seq(S)
  OBVIOUS
<1> QED
  BY <1>1, <1>2, ConcatAssociative

\* What is selected of a concatenation.
LEMMA SelectInConcat ==
  ASSUME NEW S, NEW s \in Seq(S), NEW t \in Seq(S), NEW K
  PROVE  SelectIn(s \o t, K) = SelectIn(s, K) \o SelectIn(t, K)
<1> DEFINE T == {u \in Seq(S) : SelectIn(s \o u, K) = SelectIn(s, K) \o SelectIn(u, K)}
<1>1. <<>> \in T
  BY SelectInEmpty, SelectInType, ConcatEmptySeq, EmptySeq
<1>2. ASSUME NEW u \in Seq(S), NEW e \in S, u \in T PROVE Append(u, e) \in T
  <2> DEFINE a == SelectIn(s, K)
             b == SelectIn(u, K)
             v == s \o u
  <2>1. SelectIn(v, K) = a \o b /\ v \in Seq(S) /\ a \in Seq(S) /\ b \in Seq(S)
        /\ Append(u, e) \in Seq(S)
    BY <1>2, ConcatProperties, SelectInType, AppendProperties
  <2>2. s \o Append(u, e) = Append(v, e)
    BY ConcatAppend
  <2>3. SelectIn(Append(u, e), K) = IF e \in K THEN Append(b, e) ELSE b
    BY SelectInAppend
  <2>4. SelectIn(Append(v, e), K) = IF e \in K THEN Append(a \o b, e) ELSE a \o b
    <3>1. PICK w \in Seq(S) : w = v
      BY <2>1
    <3>2. SelectIn(Append(w, e), K)
            = IF e \in K THEN Append(SelectIn(w, K), e) ELSE SelectIn(w, K)
      BY SelectInAppend
    <3> HIDE DEF a, b, v
    <3> QED
      BY <2>1, <3>1, <3>2
  <2>5. a \o Append(b, e) = Append(a \o b, e)
    BY <2>1, ConcatAppend
  <2> HIDE DEF a, b, v
  <2>6. SelectIn(s \o Append(u, e), K) = a \o SelectIn(Append(u, e), K)
    BY <2>2, <2>3, <2>4, <2>5
  <2> QED
    BY <2>1, <2>6 DEF a
<1>3. Seq(S) \subseteq T
  <2> HIDE DEF T
  <2> QED
    BY <1>1, <1>2, SeqInductionOnSet
<1> QED
  BY <1>3

\* Only the elements that are there matter.
LEMMA SelectInSame ==
  ASSUME NEW S, NEW s \in Seq(S), NEW K, NEW M, ToSet(s) \cap K = ToSet(s) \cap M
  PROVE  SelectIn(s, K) = SelectIn(s, M)
<1> DEFINE T == {u \in Seq(S) : ToSet(u) \cap K = ToSet(u) \cap M => SelectIn(u, K) = SelectIn(u, M)}
<1>1. <<>> \in T
  BY SelectInEmpty, EmptySeq
<1>2. ASSUME NEW u \in Seq(S), NEW e \in S, u \in T PROVE Append(u, e) \in T
  <2>1. Append(u, e) \in Seq(S) /\ ToSet(Append(u, e)) = ToSet(u) \cup {e}
    BY AppendProperties, ToSetAppend
  <2>2. SelectIn(Append(u, e), K) = IF e \in K THEN Append(SelectIn(u, K), e) ELSE SelectIn(u, K)
    BY SelectInAppend
  <2>3. SelectIn(Append(u, e), M) = IF e \in M THEN Append(SelectIn(u, M), e) ELSE SelectIn(u, M)
    BY SelectInAppend
  <2>4. ASSUME ToSet(Append(u, e)) \cap K = ToSet(Append(u, e)) \cap M
        PROVE  SelectIn(Append(u, e), K) = SelectIn(Append(u, e), M)
    <3>1. e \in K <=> e \in M
      BY <2>1, <2>4
    <3>2. ToSet(u) \cap K = ToSet(u) \cap M
      BY <2>1, <2>4
    <3>3. SelectIn(u, K) = SelectIn(u, M)
      BY <1>2, <3>2
    <3> QED
      BY <2>2, <2>3, <3>1, <3>3
  <2> QED
    BY <2>1, <2>4
<1>3. Seq(S) \subseteq T
  <2> HIDE DEF T
  <2> QED
    BY <1>1, <1>2, SeqInductionOnSet
<1> QED
  BY <1>3

\* Nothing is selected of a sequence that has nothing in K.
LEMMA SelectInNone ==
  ASSUME NEW S, NEW s \in Seq(S), NEW K, ToSet(s) \cap K = {}
  PROVE  SelectIn(s, K) = <<>>
<1> DEFINE t == SelectIn(s, K)
<1>1. ToSet(t) = {} /\ t \in Seq(S)
  BY SelectInToSet, SelectInType
<1> HIDE DEF t
<1>2. Len(t) \in Nat /\ DOMAIN t = 1 .. Len(t)
  BY <1>1, LenProperties
<1>3. \A i \in DOMAIN t : t[i] \in ToSet(t)
  BY DEF ToSet
<1>4. Len(t) = 0
  <2> SUFFICES ASSUME Len(t) # 0 PROVE FALSE
    OBVIOUS
  <2>1. 1 \in DOMAIN t
    BY <1>2
  <2> QED
    BY <1>1, <1>3, <2>1
<1>5. t = <<>>
  BY <1>1, <1>4, EmptySeq
<1> QED
  BY <1>5 DEF t

\* Selecting twice.
LEMMA SelectInTwice ==
  ASSUME NEW S, NEW s \in Seq(S), NEW K, NEW M
  PROVE  SelectIn(SelectIn(s, K), M) = SelectIn(s, K \cap M)
<1> DEFINE T == {u \in Seq(S) : SelectIn(SelectIn(u, K), M) = SelectIn(u, K \cap M)}
<1>1. <<>> \in T
  BY SelectInEmpty, EmptySeq
<1>2. ASSUME NEW u \in Seq(S), NEW e \in S, u \in T PROVE Append(u, e) \in T
  <2> DEFINE a == SelectIn(u, K)
             b == SelectIn(u, K \cap M)
  <2>1. Append(u, e) \in Seq(S) /\ a \in Seq(S) /\ SelectIn(a, M) = b
    BY <1>2, AppendProperties, SelectInType
  <2>2. SelectIn(Append(u, e), K) = IF e \in K THEN Append(a, e) ELSE a
    BY SelectInAppend
  <2>3. SelectIn(Append(u, e), K \cap M) = IF e \in K \cap M THEN Append(b, e) ELSE b
    BY SelectInAppend
  <2>4. SelectIn(Append(a, e), M) = IF e \in M THEN Append(SelectIn(a, M), e) ELSE SelectIn(a, M)
    <3>1. PICK w \in Seq(S) : w = a
      BY <2>1
    <3>2. SelectIn(Append(w, e), M) = IF e \in M THEN Append(SelectIn(w, M), e) ELSE SelectIn(w, M)
      BY SelectInAppend
    <3> HIDE DEF a
    <3> QED
      BY <3>1, <3>2
  <2> HIDE DEF a, b
  <2>5. SelectIn(SelectIn(Append(u, e), K), M) = SelectIn(Append(u, e), K \cap M)
    BY <2>1, <2>2, <2>3, <2>4
  <2> QED
    BY <2>1, <2>5
<1>3. Seq(S) \subseteq T
  <2> HIDE DEF T
  <2> QED
    BY <1>1, <1>2, SeqInductionOnSet
<1> QED
  BY <1>3

\* Reverse turns a sequence around.
LEMMA ReverseAppend ==
  ASSUME NEW S, NEW s \in Seq(S), NEW e \in S
  PROVE  Reverse(Append(s, e)) = Cons(e, Reverse(s)) /\ Reverse(s) \in Seq(S)
<1> DEFINE n == Len(s)
<1>1. n \in Nat /\ DOMAIN s = 1 .. n /\ \A i \in 1 .. n : s[i] \in S
  BY LenProperties, ElementOfSeq
<1>2. /\ Append(s, e) \in Seq(S) /\ Len(Append(s, e)) = n + 1 /\ Append(s, e)[n + 1] = e
      /\ \A i \in 1 .. n : Append(s, e)[i] = s[i]
  BY AppendProperties
<1>3. Reverse(s) = [i \in 1 .. n |-> s[(n - i) + 1]]
  BY DEF Reverse
<1>4. \A i \in 1 .. n : (n - i) + 1 \in 1 .. n
  BY <1>1
<1>5. Reverse(s) \in Seq(S)
  BY <1>1, <1>3, <1>4
<1>6. Reverse(Append(s, e)) = [i \in 1 .. n + 1 |-> Append(s, e)[((n + 1) - i) + 1]]
  BY <1>2 DEF Reverse
<1>7. Len(Reverse(s)) = n
  BY <1>1, <1>3
<1>8. <<e>> \in Seq(S) /\ Len(<<e>>) = 1 /\ <<e>>[1] = e
  OBVIOUS
<1> DEFINE u == <<e>> \o Reverse(s)
           v == Reverse(Append(s, e))
<1>9. /\ u \in Seq(S) /\ Len(u) = n + 1
      /\ u[1] = e /\ \A i \in 2 .. n + 1 : u[i] = Reverse(s)[i - 1]
  <2>1. u \in Seq(S) /\ Len(u) = Len(<<e>>) + Len(Reverse(s))
    BY <1>5, <1>8, ConcatProperties
  <2>2. \A i \in 1 .. Len(<<e>>) + Len(Reverse(s)) :
          u[i] = IF i <= Len(<<e>>) THEN <<e>>[i] ELSE Reverse(s)[i - Len(<<e>>)]
    BY <1>5, <1>8, ConcatProperties
  <2> HIDE DEF u
  <2>3. \A i \in 1 .. 1 + n : u[i] = IF i <= 1 THEN <<e>>[i] ELSE Reverse(s)[i - 1]
    BY <2>2, <1>7, <1>8
  <2> QED
    BY <1>1, <1>7, <1>8, <2>1, <2>3
<1>10. v \in Seq(S) /\ Len(v) = n + 1
  <2>1. \A i \in 1 .. n + 1 : ((n + 1) - i) + 1 \in 1 .. n + 1
    BY <1>1
  <2>2. \A i \in 1 .. n + 1 : Append(s, e)[i] \in S
    BY <1>2, ElementOfSeq
  <2> QED
    BY <1>1, <1>6, <2>1, <2>2
<1>11. \A i \in 1 .. n + 1 : v[i] = u[i]
  <2> SUFFICES ASSUME NEW i \in 1 .. n + 1 PROVE v[i] = u[i]
    OBVIOUS
  <2>1. v[i] = Append(s, e)[((n + 1) - i) + 1]
    BY <1>6
  <2> HIDE DEF u, v
  <2>2. CASE i = 1
    BY <1>1, <1>2, <1>9, <2>1, <2>2
  <2>3. CASE i # 1
    <3>1. i \in 2 .. n + 1 /\ i - 1 \in 1 .. n /\ ((n + 1) - i) + 1 \in 1 .. n
      BY <1>1, <2>3
    <3>2. u[i] = s[(n - (i - 1)) + 1]
      BY <1>3, <1>9, <3>1
    <3>3. (n - (i - 1)) + 1 = ((n + 1) - i) + 1
      BY <1>1
    <3> QED
      BY <1>2, <2>1, <3>1, <3>2, <3>3
  <2> QED
    BY <2>2, <2>3
<1> HIDE DEF u, v
<1>12. u = v
  BY <1>9, <1>10, <1>11, SeqEqual
<1> QED
  BY <1>5, <1>12 DEF u, v, Cons

\* What is selected of one element.
LEMMA SelectInOne ==
  ASSUME NEW S, NEW e \in S, NEW K
  PROVE  SelectIn(<<e>>, K) = IF e \in K THEN <<e>> ELSE <<>>
<1>1. Append(<<>>, e) = <<e>> /\ <<>> \in Seq(S)
  OBVIOUS
<1>2. SelectIn(Append(<<>>, e), K) = IF e \in K THEN Append(SelectIn(<<>>, K), e)
                                                ELSE SelectIn(<<>>, K)
  BY <1>1, SelectInAppend
<1> QED
  BY <1>1, <1>2, SelectInEmpty

\* A sequence with one more element at its front.
LEMMA ConsKeeps ==
  ASSUME NEW S, NEW e \in S, NEW s \in Seq(S)
  PROVE  /\ Cons(e, s) \in Seq(S)
         /\ ToSet(Cons(e, s)) = {e} \cup ToSet(s)
         /\ IsInjective(Cons(e, s)) <=> IsInjective(s) /\ e \notin ToSet(s)
<1> DEFINE f == <<e>>
<1>1. f \in Seq(S) /\ IsInjective(f) /\ ToSet(f) = {e}
  <2>1. <<e>> \in Seq(S) /\ DOMAIN <<e>> = {1} /\ <<e>>[1] = e
    OBVIOUS
  <2> QED
    BY <2>1 DEF ToSet, IsInjective
<1>2. Cons(e, s) = f \o s
  BY DEF Cons
<1> HIDE DEF f
<1> QED
  BY <1>1, <1>2, ConcatProperties, ToSetConcat, InjectiveConcat

\* What is selected of it.
LEMMA SelectInCons ==
  ASSUME NEW S, NEW e \in S, NEW s \in Seq(S), NEW K
  PROVE  SelectIn(Cons(e, s), K) = IF e \in K THEN Cons(e, SelectIn(s, K)) ELSE SelectIn(s, K)
<1> DEFINE t == SelectIn(s, K)
<1>0. PICK f : f = <<e>>
  OBVIOUS
<1>1. f \in Seq(S) /\ t \in Seq(S) /\ Cons(e, s) = f \o s /\ Cons(e, t) = f \o t
      /\ SelectIn(f, K) = IF e \in K THEN f ELSE <<>>
  BY <1>0, SelectInType, SelectInOne DEF Cons
<1>2. SelectIn(f \o s, K) = SelectIn(f, K) \o t
  <2>1. f \in Seq(S)
    BY <1>1
  <2>2. SelectIn(f \o s, K) = SelectIn(f, K) \o SelectIn(s, K)
    BY <2>1, SelectInConcat
  <2> QED
    BY <2>2
<1>3. <<>> \o t = t
  BY <1>1, ConcatEmptySeq
<1> HIDE DEF t
<1>4. SelectIn(Cons(e, s), K) = IF e \in K THEN Cons(e, t) ELSE t
  BY <1>1, <1>2, <1>3
<1> QED
  BY <1>4 DEF t

\* Append and Cons, in either order.
LEMMA AppendCons ==
  ASSUME NEW S, NEW e \in S, NEW s \in Seq(S), NEW a \in S
  PROVE  Append(Cons(e, s), a) = Cons(e, Append(s, a))
<1>0. PICK f : f = <<e>>
  OBVIOUS
<1>1. f \in Seq(S) /\ Cons(e, s) = f \o s /\ Cons(e, Append(s, a)) = f \o Append(s, a)
  BY <1>0 DEF Cons
<1>2. f \in Seq(S)
  BY <1>1
<1>3. f \o Append(s, a) = Append(f \o s, a)
  BY <1>2, ConcatAppend
<1> QED
  BY <1>1, <1>3

\* Nothing, turned around.
LEMMA ReverseEmpty == Reverse(<<>>) = <<>>
BY DEF Reverse

\* Turned around, its front is the end.
LEMMA ReverseCons ==
  ASSUME NEW S, NEW e \in S, NEW s \in Seq(S)
  PROVE  Reverse(Cons(e, s)) = Append(Reverse(s), e)
<1> DEFINE T == {u \in Seq(S) : Reverse(Cons(e, u)) = Append(Reverse(u), e)}
<1>1. <<>> \in T
  <2>1. Cons(e, <<>>) = Append(<<>>, e) /\ <<>> \in Seq(S)
    BY ConcatEmptySeq DEF Cons
  <2>2. Reverse(Append(<<>>, e)) = Cons(e, Reverse(<<>>))
    BY <2>1, ReverseAppend
  <2>3. Reverse(Cons(e, <<>>)) = Append(Reverse(<<>>), e)
    BY <2>1, <2>2, ReverseEmpty
  <2> QED
    BY <2>1, <2>3
<1>2. ASSUME NEW u \in Seq(S), NEW a \in S, u \in T PROVE Append(u, a) \in T
  <2>1. Append(u, a) \in Seq(S) /\ Cons(e, u) \in Seq(S)
    BY AppendProperties, ConsKeeps
  <2>2. Reverse(Append(u, a)) = Cons(a, Reverse(u)) /\ Reverse(u) \in Seq(S)
    BY ReverseAppend
  <2>3. Cons(e, Append(u, a)) = Append(Cons(e, u), a)
    BY AppendCons
  <2>4. Reverse(Append(Cons(e, u), a)) = Cons(a, Reverse(Cons(e, u)))
    BY <2>1, ReverseAppend
  <2>5. Reverse(Cons(e, u)) = Append(Reverse(u), e)
    BY <1>2
  <2>6. Append(Cons(a, Reverse(u)), e) = Cons(a, Append(Reverse(u), e))
    BY <2>2, AppendCons
  <2>7. Reverse(Cons(e, Append(u, a))) = Append(Reverse(Append(u, a)), e)
    BY <2>2, <2>3, <2>4, <2>5, <2>6
  <2> QED
    BY <2>1, <2>7
<1>3. Seq(S) \subseteq T
  <2> HIDE DEF T
  <2> QED
    BY <1>1, <1>2, SeqInductionOnSet
<1> QED
  BY <1>3

\* A sequence turned around has the same elements, and what is selected of it
\* is what is selected of the sequence, turned around.
LEMMA ReverseKeeps ==
  ASSUME NEW S, NEW s \in Seq(S), NEW K
  PROVE  /\ Reverse(s) \in Seq(S)
         /\ ToSet(Reverse(s)) = ToSet(s)
         /\ SelectIn(Reverse(s), K) = Reverse(SelectIn(s, K))
<1> DEFINE P(u) == /\ Reverse(u) \in Seq(S)
                   /\ ToSet(Reverse(u)) = ToSet(u)
                   /\ SelectIn(Reverse(u), K) = Reverse(SelectIn(u, K))
           T == {u \in Seq(S) : P(u)}
<1>1. <<>> \in T
  BY ReverseEmpty, SelectInEmpty, EmptySeq
<1>2. ASSUME NEW u \in Seq(S), NEW e \in S, u \in T PROVE Append(u, e) \in T
  <2> DEFINE r == Reverse(u)
             a == SelectIn(u, K)
  <2>1. r \in Seq(S) /\ ToSet(r) = ToSet(u) /\ SelectIn(r, K) = Reverse(a)
    BY <1>2
  <2>2. Append(u, e) \in Seq(S) /\ ToSet(Append(u, e)) = ToSet(u) \cup {e} /\ a \in Seq(S)
    BY AppendProperties, ToSetAppend, SelectInType
  <2>3. Reverse(Append(u, e)) = Cons(e, r)
    BY ReverseAppend
  <2>4. SelectIn(Append(u, e), K) = IF e \in K THEN Append(a, e) ELSE a
    BY SelectInAppend
  <2>5. Reverse(Append(a, e)) = Cons(e, Reverse(a))
    BY <2>2, ReverseAppend
  <2> HIDE DEF r, a
  <2>6. SelectIn(Cons(e, r), K) = IF e \in K THEN Cons(e, SelectIn(r, K)) ELSE SelectIn(r, K)
    BY <2>1, SelectInCons
  <2>7. Cons(e, r) \in Seq(S) /\ ToSet(Cons(e, r)) = {e} \cup ToSet(r)
    BY <2>1, ConsKeeps
  <2>8. SelectIn(Cons(e, r), K) = Reverse(SelectIn(Append(u, e), K))
    BY <2>1, <2>4, <2>5, <2>6
  <2>9. P(Append(u, e))
    BY <2>1, <2>2, <2>3, <2>7, <2>8
  <2> QED
    BY <2>2, <2>9
<1>3. Seq(S) \subseteq T
  <2> HIDE DEF T
  <2> QED
    BY <1>1, <1>2, SeqInductionOnSet
<1> QED
  BY <1>3

-----------------------------------------------------------------------------
\* s does not descend in the values f gives its elements.
Ascends(s, f) == \A i, j \in DOMAIN s : i < j => f[s[i]] <= f[s[j]]

\* One more element, at the end.
LEMMA AscendsAppend ==
  ASSUME NEW S, NEW s \in Seq(S), NEW e \in S, NEW f
  PROVE  Ascends(Append(s, e), f) <=> Ascends(s, f) /\ \A x \in ToSet(s) : f[x] <= f[e]
<1> DEFINE t == Append(s, e)
           n == Len(s)
<1>1. n \in Nat /\ DOMAIN s = 1 .. n /\ DOMAIN t = 1 .. n + 1
      /\ t[n + 1] = e /\ \A i \in 1 .. n : t[i] = s[i]
  BY AppendProperties, LenProperties
<1>2. ToSet(s) = {s[i] : i \in 1 .. n}
  BY <1>1 DEF ToSet
<1> HIDE DEF t, n
<1>3. ASSUME Ascends(t, f) PROVE Ascends(s, f) /\ \A x \in ToSet(s) : f[x] <= f[e]
  <2>1. \A i, j \in 1 .. n + 1 : i < j => f[t[i]] <= f[t[j]]
    BY <1>1, <1>3 DEF Ascends
  <2>2. \A i, j \in 1 .. n : i < j => f[s[i]] <= f[s[j]]
    <3> TAKE i, j \in 1 .. n
    <3>1. i \in 1 .. n + 1 /\ j \in 1 .. n + 1 /\ t[i] = s[i] /\ t[j] = s[j]
      BY <1>1
    <3> QED
      BY <2>1, <3>1
  <2>3. \A i \in 1 .. n : f[s[i]] <= f[e]
    <3> TAKE i \in 1 .. n
    <3>1. i \in 1 .. n + 1 /\ n + 1 \in 1 .. n + 1 /\ i < n + 1 /\ t[i] = s[i]
      BY <1>1
    <3> QED
      BY <1>1, <2>1, <3>1
  <2> QED
    BY <1>1, <1>2, <2>2, <2>3 DEF Ascends
<1>4. ASSUME Ascends(s, f), \A x \in ToSet(s) : f[x] <= f[e] PROVE Ascends(t, f)
  <2> SUFFICES ASSUME NEW i \in 1 .. n + 1, NEW j \in 1 .. n + 1, i < j
               PROVE  f[t[i]] <= f[t[j]]
    BY <1>1 DEF Ascends
  <2>1. i \in 1 .. n /\ t[i] = s[i]
    BY <1>1
  <2>2. CASE j = n + 1
    BY <1>1, <1>2, <1>4, <2>1, <2>2
  <2>3. CASE j # n + 1
    <3>1. j \in 1 .. n /\ t[j] = s[j]
      BY <1>1, <2>3
    <3> QED
      BY <1>1, <1>4, <2>1, <3>1 DEF Ascends
  <2> QED
    BY <2>2, <2>3
<1> QED
  BY <1>3, <1>4 DEF t

\* What is selected of a sequence that ascends does.
LEMMA AscendsSelectIn ==
  ASSUME NEW S, NEW s \in Seq(S), NEW f, Ascends(s, f), NEW K
  PROVE  Ascends(SelectIn(s, K), f)
<1> DEFINE T == {u \in Seq(S) : Ascends(u, f) => Ascends(SelectIn(u, K), f)}
<1>1. <<>> \in T
  BY SelectInEmpty, EmptySeq
<1>2. ASSUME NEW u \in Seq(S), NEW e \in S, u \in T PROVE Append(u, e) \in T
  <2> DEFINE a == SelectIn(u, K)
  <2>1. Append(u, e) \in Seq(S) /\ a \in Seq(S) /\ ToSet(a) \subseteq ToSet(u)
    BY AppendProperties, SelectInType, SelectInToSet
  <2>2. SelectIn(Append(u, e), K) = IF e \in K THEN Append(a, e) ELSE a
    BY SelectInAppend
  <2>3. Ascends(u, f) => Ascends(a, f)
    BY <1>2
  <2>4. Ascends(Append(u, e), f) <=> Ascends(u, f) /\ \A x \in ToSet(u) : f[x] <= f[e]
    BY AscendsAppend
  <2> HIDE DEF a
  <2>5. Ascends(Append(a, e), f) <=> Ascends(a, f) /\ \A x \in ToSet(a) : f[x] <= f[e]
    BY <2>1, AscendsAppend
  <2>6. Ascends(Append(u, e), f) => Ascends(SelectIn(Append(u, e), K), f)
    BY <2>1, <2>2, <2>3, <2>4, <2>5
  <2> QED
    BY <2>1, <2>6
<1>3. Seq(S) \subseteq T
  <2> HIDE DEF T
  <2> QED
    BY <1>1, <1>2, SeqInductionOnSet
<1> QED
  BY <1>3

\* Two sequences that ascend do together when nothing of the second is below.
LEMMA AscendsConcat ==
  ASSUME NEW S, NEW s \in Seq(S), NEW t \in Seq(S), NEW f, Ascends(s, f), Ascends(t, f),
         \A x \in ToSet(s), y \in ToSet(t) : f[x] <= f[y]
  PROVE  Ascends(s \o t, f)
<1> DEFINE T == {u \in Seq(S) :
                   Ascends(u, f) /\ (\A x \in ToSet(s), y \in ToSet(u) : f[x] <= f[y])
                     => Ascends(s \o u, f)}
<1>1. <<>> \in T
  BY ConcatEmptySeq, EmptySeq
<1>2. ASSUME NEW u \in Seq(S), NEW e \in S, u \in T PROVE Append(u, e) \in T
  <2> DEFINE v == s \o u
  <2>1. Append(u, e) \in Seq(S) /\ v \in Seq(S) /\ ToSet(v) = ToSet(s) \cup ToSet(u)
        /\ ToSet(Append(u, e)) = ToSet(u) \cup {e}
    BY AppendProperties, ConcatProperties, ToSetConcat, ToSetAppend
  <2>2. s \o Append(u, e) = Append(v, e)
    BY ConcatAppend
  <2>3. Ascends(Append(u, e), f) <=> Ascends(u, f) /\ \A x \in ToSet(u) : f[x] <= f[e]
    BY AscendsAppend
  <2>4. Ascends(u, f) /\ (\A x \in ToSet(s), y \in ToSet(u) : f[x] <= f[y]) => Ascends(v, f)
    BY <1>2
  <2> HIDE DEF v
  <2>5. Ascends(Append(v, e), f) <=> Ascends(v, f) /\ \A x \in ToSet(v) : f[x] <= f[e]
    BY <2>1, AscendsAppend
  <2>6. Ascends(Append(u, e), f)
          /\ (\A x \in ToSet(s), y \in ToSet(Append(u, e)) : f[x] <= f[y])
        => Ascends(s \o Append(u, e), f)
    BY <2>1, <2>2, <2>3, <2>4, <2>5
  <2> QED
    BY <2>1, <2>6
<1>3. Seq(S) \subseteq T
  <2> HIDE DEF T
  <2> QED
    BY <1>1, <1>2, SeqInductionOnSet
<1> QED
  BY <1>3

=============================================================================
