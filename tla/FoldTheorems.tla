----------------------------- MODULE FoldTheorems -----------------------------
(***************************************************************************)
(* What the folds of the community modules compute.  A fold is a recursive *)
(* function on the subsets of a finite set; the facts about it are proved  *)
(* from a smallest subset at which they fail, which strict inclusion being *)
(* well founded on the finite sets provides.                               *)
(***************************************************************************)
EXTENDS Integers, FiniteSetsExt, SequencesExt, FiniteSetTheorems, SequenceTheorems,
        WellFoundedInduction, TLAPS

\* A set of finite sets that is not empty has a member none of whose proper subsets is one.
LEMMA SmallestSubset ==
  ASSUME NEW S, IsFiniteSet(S), NEW T \in SUBSET SUBSET S, T # {}
  PROVE  \E x \in T : \A y \in T : y \subseteq x => y = x
<1>1. \A x \in SUBSET S : IsFiniteSet(x)
  BY FS_Subset
<1>2. T \subseteq FiniteSubsetsOf(S)
  BY <1>1 DEF FiniteSubsetsOf
<1>3. IsWellFoundedOn(StrictSubsetOrdering(S), FiniteSubsetsOf(S))
  BY FS_StrictSubsetOrderingWellFounded
<1>4. \E x \in T : \A y \in T : ~ (<<y, x>> \in StrictSubsetOrdering(S))
  BY <1>2, <1>3, WFMin
<1> QED
  BY <1>4 DEF StrictSubsetOrdering

\* A set of naturals that is not empty has a least member.
LEMMA SmallestNumber ==
  ASSUME NEW N \in SUBSET Nat, N # {}
  PROVE  \E m \in N : \A n \in N : m <= n
<1>1. PICK b \in N : TRUE
  OBVIOUS
<1> DEFINE S == 1 .. b
           T == {1 .. n : n \in {n \in N : n <= b}}
<1>2. IsFiniteSet(S)
  BY FS_Interval
<1>3. T \in SUBSET SUBSET S /\ T # {}
  <2>1. 1 .. b \in T
    BY <1>1
  <2> QED
    BY <2>1
<1> HIDE DEF S, T
<1>4. PICK x \in T : \A y \in T : y \subseteq x => y = x
  BY <1>2, <1>3, SmallestSubset
<1>5. PICK m \in N : m <= b /\ x = 1 .. m
  <2>1. x \in T
    BY <1>4
  <2> QED
    BY <2>1 DEF T
<1>6. SUFFICES ASSUME NEW n \in N, n < m
               PROVE  FALSE
  BY <1>5
<1>7. 1 .. n \in T
  BY <1>1, <1>5, <1>6 DEF T
<1>8. 1 .. n \subseteq 1 .. m /\ m \in 1 .. m /\ m \notin 1 .. n
  BY <1>6
<1> QED
  BY <1>4, <1>5, <1>7, <1>8
--------------------------------------------------------------------------------
(* The recursion of MapThenFoldSet, with its choice and its step as functions. *)

Folds(h, u, base, c, g) ==
  \A s \in SUBSET u : h[s] = IF s = {} THEN base ELSE g[<<c[s], h[s \ {c[s]}]>>]

\* Two functions that satisfy one recursion agree on every finite set both are defined for.
LEMMA FoldUnique ==
  ASSUME NEW u, NEW w, NEW base, NEW c, NEW g, NEW h, NEW i,
         Folds(h, u, base, c, g), Folds(i, w, base, c, g),
         NEW s \in SUBSET (u \cap w), IsFiniteSet(s),
         \A t \in SUBSET s : t # {} => c[t] \in t
  PROVE  h[s] = i[s]
<1>1. SUFFICES ASSUME h[s] # i[s]
               PROVE  FALSE
  OBVIOUS
<1> DEFINE T == {t \in SUBSET s : h[t] # i[t]}
<1>2. PICK t \in T : \A y \in T : y \subseteq t => y = t
  <2>1. T # {} /\ T \in SUBSET SUBSET s
    BY <1>1
  <2> HIDE DEF T
  <2> QED
    BY <2>1, SmallestSubset
<1>3. h[t] = (IF t = {} THEN base ELSE g[<<c[t], h[t \ {c[t]}]>>])
  BY DEF Folds
<1>4. i[t] = (IF t = {} THEN base ELSE g[<<c[t], i[t \ {c[t]}]>>])
  BY DEF Folds
<1>5. t # {}
  BY <1>3, <1>4
<1>6. t \ {c[t]} # t /\ t \ {c[t]} \in SUBSET s
  BY <1>5
<1>7. h[t \ {c[t]}] = i[t \ {c[t]}]
  BY <1>2, <1>6
<1> QED
  BY <1>3, <1>4, <1>7

\* The recursion has a solution on the subsets of every finite set.
LEMMA FoldExists ==
  ASSUME NEW S, IsFiniteSet(S), NEW V, NEW base \in V,
         NEW c, \A s \in SUBSET S : s # {} => c[s] \in s,
         NEW g, \A x \in S : \A v \in V : g[<<x, v>>] \in V
  PROVE  \E h \in [SUBSET S -> V] : Folds(h, S, base, c, g)
<1> DEFINE Of(u) == {h \in [SUBSET u -> V] : Folds(h, u, base, c, g)}
           T == {u \in SUBSET S : Of(u) = {}}
<1>1. SUFFICES ASSUME S \in T
               PROVE  FALSE
  OBVIOUS
<1>2. PICK u \in T : \A y \in T : y \subseteq u => y = u
  <2>1. T \in SUBSET SUBSET S /\ T # {}
    BY <1>1
  <2> HIDE DEF T
  <2> QED
    BY <2>1, SmallestSubset
<1>3. u \in SUBSET S /\ Of(u) = {}
  OBVIOUS
<1>4. ASSUME NEW s \in SUBSET u, s # u
      PROVE  Of(s) # {}
  BY <1>2, <1>3, <1>4
<1> DEFINE Pick(s) == CHOOSE h \in Of(s) : TRUE
           h == [s \in SUBSET u |->
                   IF s = {} THEN base
                   ELSE g[<<c[s], Pick(s \ {c[s]})[s \ {c[s]}]>>]]
<1>5. ASSUME NEW s \in SUBSET u, s # u
      PROVE  Pick(s) \in [SUBSET s -> V] /\ Folds(Pick(s), s, base, c, g)
  BY <1>4, <1>5
<1>6. ASSUME NEW s \in SUBSET u, s # {}
      PROVE  /\ c[s] \in s /\ s \ {c[s]} \in SUBSET u /\ s \ {c[s]} # u /\ c[s] \in S
  BY <1>3, <1>6
<1> HIDE DEF Pick, Of, T
<1>7. h \in [SUBSET u -> V]
  <2>1. SUFFICES ASSUME NEW s \in SUBSET u, s # {}
                 PROVE  g[<<c[s], Pick(s \ {c[s]})[s \ {c[s]}]>>] \in V
    OBVIOUS
  <2> DEFINE t == s \ {c[s]}
  <2>2. t \in SUBSET u /\ t # u
    BY <1>6, <2>1
  <2>3. Pick(t)[t] \in V
    <3> HIDE DEF t
    <3>1. Pick(t) \in [SUBSET t -> V] /\ t \in SUBSET t
      BY <1>5, <2>2
    <3> QED
      BY <3>1
  <2> QED
    BY <1>6, <2>1, <2>3
<1>8. Folds(h, u, base, c, g)
  <2>1. SUFFICES ASSUME NEW s \in SUBSET u, s # {}
                 PROVE  h[s \ {c[s]}] = Pick(s \ {c[s]})[s \ {c[s]}]
    BY <2>1 DEF Folds
  <2> DEFINE t == s \ {c[s]}
  <2>2. t \in SUBSET u /\ t # u
    BY <1>6, <2>1
  <2>3. CASE t = {}
    <3>1. Folds(Pick(t), t, base, c, g)
      BY <1>5, <2>2
    <3>2. Pick(t)[t] = base
      BY <2>3, <3>1 DEF Folds
    <3> QED
      BY <2>2, <2>3, <3>2
  <2>4. CASE t # {}
    <3> DEFINE r == t \ {c[t]}
    <3>1. Pick(t)[t] = g[<<c[t], Pick(t)[r]>>]
      BY <1>5, <2>2, <2>4 DEF Folds
    <3>2. r \in SUBSET u /\ r # u /\ r \in SUBSET t
      BY <1>6, <2>2, <2>4
    <3>3. Folds(Pick(t), t, base, c, g) /\ Folds(Pick(r), r, base, c, g)
      BY <1>5, <2>2, <3>2
    <3>4. IsFiniteSet(r) /\ r \in SUBSET (t \cap r)
      BY <1>3, <3>2, FS_Subset
    <3>5. \A x \in SUBSET r : x # {} => c[x] \in x
      BY <1>3, <3>2
    <3> HIDE DEF r, t
    <3>6. Pick(t)[r] = Pick(r)[r]
      BY <3>3, <3>4, <3>5, FoldUnique
    <3>7. h[t] = g[<<c[t], Pick(r)[r]>>]
      BY <2>2, <2>4 DEF r
    <3> QED
      BY <3>1, <3>6, <3>7 DEF t
  <2> QED
    BY <2>3, <2>4
<1> QED
  BY <1>3, <1>7, <1>8 DEF Of
--------------------------------------------------------------------------------
(* Folds over a finite set, in the order that CHOOSE gives its subsets. *)

\* The element that the fold takes last of a set.
Chosen(s) == CHOOSE x \in s : TRUE

\* What holds of the base and survives each step of a fold holds of the whole set.
LEMMA FoldInduction ==
  ASSUME NEW S, IsFiniteSet(S), NEW it, NEW G, <<{}, it[{}]>> \in G,
         \A s \in SUBSET S :
           s # {} /\ <<s \ {Chosen(s)}, it[s \ {Chosen(s)}]>> \in G => <<s, it[s]>> \in G
  PROVE  <<S, it[S]>> \in G
<1> DEFINE T == {s \in SUBSET S : <<s, it[s]>> \notin G}
<1>1. SUFFICES ASSUME T # {}
               PROVE  FALSE
  OBVIOUS
<1>2. PICK s \in T : \A y \in T : y \subseteq s => y = s
  <2>1. T \in SUBSET SUBSET S
    OBVIOUS
  <2> HIDE DEF T
  <2> QED
    BY <1>1, <2>1, SmallestSubset
<1>3. s # {} /\ Chosen(s) \in s
  BY DEF Chosen
<1>4. s \in SUBSET S /\ <<s, it[s]>> \notin G
  BY DEF T
<1> DEFINE rest == s \ {Chosen(s)}
<1>5. rest \in SUBSET S /\ rest \subseteq s /\ rest # s
  BY <1>3, <1>4
<1>6. rest \notin T
  <2> HIDE DEF rest, T
  <2> QED
    BY <1>2, <1>5
<1>7. <<rest, it[rest]>> \in G
  BY <1>5, <1>6
<1> QED
  BY <1>3, <1>4, <1>7
--------------------------------------------------------------------------------
(* Folds over a sequence take the greatest index first. *)

\* A set of naturals with a bound has a greatest member, and Max is that member.
LEMMA GreatestNumber ==
  ASSUME NEW N \in SUBSET Nat, N # {}, NEW b \in Nat, \A n \in N : n <= b
  PROVE  /\ Max(N) \in N
         /\ \A n \in N : n <= Max(N)
<1> DEFINE M == {b - n : n \in N}
<1>1. M \in SUBSET Nat /\ M # {}
  <2>1. \A n \in N : b - n \in Nat
    OBVIOUS
  <2>2. M \in SUBSET Nat
    BY <2>1
  <2>3. PICK n \in N : TRUE
    OBVIOUS
  <2>4. b - n \in M
    OBVIOUS
  <2> QED
    BY <2>2, <2>4
<1> HIDE DEF M
<1>2. PICK d \in M : \A e \in M : d <= e
  BY <1>1, SmallestNumber
<1>3. PICK m \in N : d = b - m
  BY DEF M
<1>4. \A n \in N : m >= n
  <2>1. SUFFICES ASSUME NEW n \in N
                 PROVE  m >= n
    OBVIOUS
  <2>2. d <= b - n
    BY <1>2 DEF M
  <2> QED
    BY <1>3, <2>2
<1>5. \E x \in N : \A y \in N : x >= y
  BY <1>4
<1>6. Max(N) \in N /\ \A y \in N : Max(N) >= y
  BY <1>5 DEF Max
<1>7. \A n \in N : n <= Max(N)
  BY <1>6
<1> QED
  BY <1>6, <1>7

\* Max chooses from every set of indices of a sequence, and the last of them all.
LEMMA GreatestIndex ==
  ASSUME NEW n \in Nat
  PROVE  /\ \A t \in SUBSET (1 .. n) : t # {} => Max(t) \in t
         /\ n # 0 => Max(1 .. n) = n
<1>1. ASSUME NEW t \in SUBSET (1 .. n), t # {}
      PROVE  Max(t) \in t /\ \A i \in t : i <= Max(t)
  <2>1. t \in SUBSET Nat /\ \A i \in t : i <= n
    OBVIOUS
  <2> QED
    BY <1>1, <2>1, GreatestNumber
<1>2. ASSUME n # 0
      PROVE  Max(1 .. n) = n
  <2> DEFINE m == Max(1 .. n)
  <2>1. n \in 1 .. n /\ 1 .. n # {} /\ 1 .. n \in SUBSET (1 .. n)
    BY <1>2
  <2>2. m \in 1 .. n /\ n <= m
    BY <1>1, <2>1
  <2> HIDE DEF m
  <2>3. m = n
    BY <2>2
  <2> QED
    BY <2>3 DEF m
<1> QED
  BY <1>1, <1>2

\* The elements of a sequence that are not in a set.
Filtered(s, ks) == FoldLeft(LAMBDA kept, k : IF k \in ks THEN kept ELSE Append(kept, k), <<>>, s)

Stepwise(f, s, ks) ==
  /\ f[0] = <<>>
  /\ \A n \in 1 .. Len(s) : f[n] = IF s[n] \in ks THEN f[n - 1] ELSE Append(f[n - 1], s[n])
  /\ Filtered(s, ks) = f[Len(s)]

\* Filtered is what a walk along the sequence computes, index by index.
LEMMA FilteredStepwise ==
  ASSUME NEW S, NEW s \in Seq(S), NEW ks
  PROVE  \E f \in [0 .. Len(s) -> Seq(S)] : Stepwise(f, s, ks)
<1> DEFINE D == 1 .. Len(s)
           V == Seq(S)
           c == [t \in SUBSET D |-> Max(t)]
           step(i, v) == IF s[i] \in ks THEN v ELSE Append(v, s[i])
           g == [iv \in D \X V |-> step(iv[1], iv[2])]
           Recursion(it) == it = [t \in SUBSET D |-> IF t = {} THEN <<>>
                                                     ELSE step(Max(t), it[t \ {Max(t)}])]
           it == CHOOSE it : Recursion(it)
<1>1. Len(s) \in Nat /\ DOMAIN s = D /\ \A i \in D : s[i] \in S
  BY LenProperties, ElementOfSeq
<1>2. IsFiniteSet(D) /\ <<>> \in V
  BY <1>1, FS_Interval, EmptySeq
<1>3. \A t \in SUBSET D : t # {} => Max(t) \in t
  BY <1>1, GreatestIndex
<1>4. \A i \in D : \A v \in V : step(i, v) \in V
  BY <1>1, AppendProperties
<1>5. Filtered(s, ks) = it[D]
  BY <1>1 DEF Filtered, FoldLeft, MapThenFoldSet
<1> HIDE DEF D, V, step
<1>6. PICK h \in [SUBSET D -> V] : Folds(h, D, <<>>, c, g)
  <2>1. \A t \in SUBSET D : t # {} => c[t] \in t
    BY <1>3
  <2>2. \A i \in D : \A v \in V : g[<<i, v>>] \in V
    BY <1>4
  <2> HIDE DEF c, g
  <2> QED
    BY <1>2, <2>1, <2>2, FoldExists
<1>7. Recursion(h)
  <2>1. SUFFICES ASSUME NEW t \in SUBSET D
                 PROVE  h[t] = IF t = {} THEN <<>> ELSE step(Max(t), h[t \ {Max(t)}])
    BY <2>1
  <2>2. h[t] = IF t = {} THEN <<>> ELSE g[<<c[t], h[t \ {c[t]}]>>]
    BY <1>6 DEF Folds
  <2>3. CASE t # {}
    <3>1. c[t] = Max(t) /\ Max(t) \in D /\ h[t \ {Max(t)}] \in V
      BY <1>3, <2>3
    <3>2. g[<<Max(t), h[t \ {Max(t)}]>>] = step(Max(t), h[t \ {Max(t)}])
      BY <3>1
    <3> QED
      BY <2>2, <2>3, <3>1, <3>2
  <2> QED
    BY <2>2, <2>3
<1>8. Recursion(it)
  <2> HIDE DEF Recursion
  <2> QED
    BY <1>7
<1> DEFINE f == [n \in 0 .. Len(s) |-> it[1 .. n]]
<1>9. ASSUME NEW t \in SUBSET D
      PROVE  it[t] = IF t = {} THEN <<>> ELSE step(Max(t), it[t \ {Max(t)}])
  BY <1>8, <1>9
<1> HIDE DEF it
<1>10. \A n \in 1 .. Len(s) : f[n] = step(n, f[n - 1])
  <2>1. SUFFICES ASSUME NEW n \in 1 .. Len(s)
                 PROVE  it[1 .. n] = step(n, it[1 .. n - 1])
    BY <1>1, <2>1
  <2>2. 1 .. n \in SUBSET D /\ 1 .. n # {} /\ Max(1 .. n) = n
    <3>1. n \in Nat /\ n # 0
      BY <1>1
    <3>2. Max(1 .. n) = n
      BY <3>1, GreatestIndex
    <3> QED
      BY <1>1, <3>2 DEF D
  <2>3. (1 .. n) \ {n} = 1 .. n - 1
    BY <1>1
  <2>4. it[1 .. n] = step(Max(1 .. n), it[(1 .. n) \ {Max(1 .. n)}])
    <3> HIDE DEF step
    <3> QED
      BY <1>9, <2>2
  <2> QED
    BY <2>2, <2>3, <2>4
<1>11. f[0] = <<>>
  <2>1. it[{}] = <<>>
    BY <1>9
  <2>2. 1 .. 0 = {} /\ 0 \in 0 .. Len(s)
    BY <1>1
  <2> QED
    BY <2>1, <2>2
<1>12. f[Len(s)] = it[D]
  BY <1>1 DEF D
<1> HIDE DEF f
<1>13. \A n \in 0 .. Len(s) : f[n] \in V
  <2> DEFINE N == {n \in 0 .. Len(s) : f[n] \notin V}
  <2>1. SUFFICES ASSUME N # {}
                 PROVE  FALSE
    OBVIOUS
  <2>2. PICK m \in N : \A n \in N : m <= n
    <3>1. N \in SUBSET Nat
      BY <1>1
    <3> HIDE DEF N
    <3> QED
      BY <2>1, <3>1, SmallestNumber
  <2>3. m # 0
    BY <1>2, <1>11
  <2>4. m \in 1 .. Len(s) /\ m - 1 \in 0 .. Len(s) /\ m - 1 \notin N
    BY <1>1, <2>2, <2>3
  <2>5. f[m - 1] \in V
    BY <2>4
  <2> QED
    BY <1>4, <1>10, <2>4, <2>5 DEF D
<1>14. f \in [0 .. Len(s) -> V]
  BY <1>13 DEF f
<1>15. Stepwise(f, s, ks)
  BY <1>5, <1>10, <1>11, <1>12 DEF Stepwise, step
<1> QED
  BY <1>14, <1>15 DEF V

\* Filtered keeps the members outside ks, each as often as before and no more.
LEMMA FilteredProperties ==
  ASSUME NEW S, NEW s \in Seq(S), NEW ks
  PROVE  /\ Filtered(s, ks) \in Seq(S)
         /\ ToSet(Filtered(s, ks)) = ToSet(s) \ ks
         /\ IsInjective(s) => IsInjective(Filtered(s, ks))
<1>0. PICK f \in [0 .. Len(s) -> Seq(S)] : Stepwise(f, s, ks)
  BY FilteredStepwise
<1>1. /\ f[0] = <<>>
      /\ \A n \in 1 .. Len(s) :
           f[n] = IF s[n] \in ks THEN f[n - 1] ELSE Append(f[n - 1], s[n])
      /\ Filtered(s, ks) = f[Len(s)]
  BY <1>0 DEF Stepwise
<1>2. Len(s) \in Nat /\ DOMAIN s = 1 .. Len(s) /\ \A i \in 1 .. Len(s) : s[i] \in S
  BY LenProperties, ElementOfSeq
<1> DEFINE First(n) == {s[i] : i \in 1 .. n} \ ks
           Good(n) == /\ ToSet(f[n]) = First(n)
                      /\ IsInjective(s) => IsInjective(f[n])
           N == {n \in 0 .. Len(s) : ~Good(n)}
<1>3. N = {}
  <2>1. SUFFICES ASSUME N # {}
                 PROVE  FALSE
    OBVIOUS
  <2>2. PICK m \in N : \A n \in N : m <= n
    <3>1. N \in SUBSET Nat
      BY <1>2
    <3> HIDE DEF N
    <3> QED
      BY <2>1, <3>1, SmallestNumber
  <2>3. m # 0
    <3>1. ToSet(<<>>) = {} /\ IsInjective(<<>>)
      BY DEF ToSet, IsInjective
    <3>2. First(0) = {}
      OBVIOUS
    <3>3. Good(0)
      BY <1>1, <3>1, <3>2
    <3> QED
      BY <2>2, <3>3
  <2>4. m \in 1 .. Len(s) /\ m - 1 \in 0 .. Len(s)
    BY <1>2, <2>2, <2>3
  <2>5. Good(m - 1) /\ ~Good(m)
    <3>1. m - 1 \notin N
      <4> HIDE DEF N
      <4> QED
        BY <2>2, <2>4
    <3> HIDE DEF Good
    <3> QED
      BY <2>2, <2>4, <3>1
  <2>6. First(m) = First(m - 1) \cup ({s[m]} \ ks)
    <3>1. 1 .. m = (1 .. m - 1) \cup {m}
      BY <1>2, <2>4
    <3> QED
      BY <3>1
  <2>7. f[m - 1] \in Seq(S) /\ s[m] \in S
    BY <1>2, <2>4
  <2>8. CASE s[m] \in ks
    <3>1. f[m] = f[m - 1] /\ First(m) = First(m - 1)
      BY <1>1, <2>4, <2>6, <2>8
    <3> QED
      BY <2>5, <3>1
  <2>9. CASE s[m] \notin ks
    <3> DEFINE r == f[m - 1]
               l == Len(r)
    <3>1. f[m] = Append(r, s[m])
      BY <1>1, <2>4, <2>9
    <3>2. /\ l \in Nat /\ DOMAIN r = 1 .. l
          /\ Append(r, s[m]) \in Seq(S) /\ Len(Append(r, s[m])) = l + 1
          /\ \A i \in 1 .. l : Append(r, s[m])[i] = r[i]
          /\ Append(r, s[m])[l + 1] = s[m]
      BY <2>7, AppendProperties, LenProperties
    <3>3. DOMAIN Append(r, s[m]) = 1 .. l + 1
      BY <3>2, LenProperties
    <3> HIDE DEF l
    <3>4. ToSet(Append(r, s[m])) = ToSet(r) \cup {s[m]}
      <4>1. 1 .. l + 1 = (1 .. l) \cup {l + 1}
        BY <3>2
      <4> QED
        BY <3>2, <3>3, <4>1 DEF ToSet
    <3>5. ASSUME IsInjective(s)
          PROVE  IsInjective(Append(r, s[m]))
      <4>1. s[m] \notin ToSet(r)
        <5>1. \A i \in 1 .. m - 1 : s[i] # s[m]
          BY <1>2, <2>4, <3>5 DEF IsInjective
        <5> QED
          BY <2>5, <5>1
      <4>2. \A i \in 1 .. l : r[i] # s[m]
        BY <3>2, <4>1 DEF ToSet
      <4>3. \A i, j \in 1 .. l : r[i] = r[j] => i = j
        BY <2>5, <3>2, <3>5 DEF IsInjective
      <4>4. SUFFICES ASSUME NEW i \in 1 .. l + 1, NEW j \in 1 .. l + 1,
                            Append(r, s[m])[i] = Append(r, s[m])[j]
                     PROVE  i = j
        BY <3>3 DEF IsInjective
      <4>5. (i \in 1 .. l \/ i = l + 1) /\ (j \in 1 .. l \/ j = l + 1)
        BY <3>2
      <4> QED
        BY <3>2, <4>2, <4>3, <4>4, <4>5
    <3>6. ToSet(f[m]) = First(m)
      BY <2>5, <2>6, <2>9, <3>1, <3>4
    <3> QED
      BY <2>5, <3>1, <3>5, <3>6
  <2> QED
    BY <2>8, <2>9
<1>4. Good(Len(s))
  <2> HIDE DEF Good
  <2> QED
    BY <1>2, <1>3
<1>5. First(Len(s)) = ToSet(s) \ ks
  BY <1>2 DEF ToSet
<1>6. Filtered(s, ks) \in Seq(S)
  BY <1>1, <1>2
<1> QED
  BY <1>1, <1>4, <1>5, <1>6
================================================================================
