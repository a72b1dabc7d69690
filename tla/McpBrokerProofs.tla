---------------------------- MODULE McpBrokerProofs ----------------------------
(***************************************************************************)
(* Theorems about McpBroker and the tool cache under it, for any number of *)
(* operations, loads and keys, whatever the limits are: the counters that  *)
(* enforce them, the loads callers share, and the credential an answer was *)
(* listed with.                                                            *)
(***************************************************************************)
EXTENDS McpBroker, FoldTheorems
--------------------------------------------------------------------------------
(* The bytes of a set of entries. *)

Total(e, ks) == MapThenSumSet(LAMBDA k : e[k].bytes, ks)
Sized(e, ks) == \A k \in ks : e[k].bytes \in Nat
Some(s) == CHOOSE x \in s : TRUE

\* Total is a fold: the size of the chosen key and the total of the others.
LEMMA TotalStepwise ==
  ASSUME NEW e, NEW S, IsFiniteSet(S), Sized(e, S)
  PROVE  \E h \in [SUBSET S -> Nat] :
           /\ \A s \in SUBSET S : h[s] = IF s = {} THEN 0 ELSE e[Some(s)].bytes + h[s \ {Some(s)}]
           /\ Total(e, S) = h[S]
<1> DEFINE c == [s \in SUBSET S |-> Some(s)]
           g == [xv \in S \X Nat |-> e[xv[1]].bytes + xv[2]]
           Recursion(h) == h = [s \in SUBSET S |-> IF s = {} THEN 0
                                                   ELSE e[Some(s)].bytes + h[s \ {Some(s)}]]
           it == CHOOSE h : Recursion(h)
<1>1. \A s \in SUBSET S : s # {} => Some(s) \in s
  BY DEF Some
<1>2. \A x \in S : e[x].bytes \in Nat
  BY DEF Sized
<1>3. Total(e, S) = it[S]
  BY DEF Total, MapThenSumSet, MapThenFoldSet, Some
<1> HIDE DEF it
<1>4. PICK h \in [SUBSET S -> Nat] : Folds(h, S, 0, c, g)
  <2>1. \A s \in SUBSET S : s # {} => c[s] \in s
    BY <1>1
  <2>2. \A x \in S : \A v \in Nat : g[<<x, v>>] \in Nat
    BY <1>2
  <2> HIDE DEF c, g
  <2> QED
    BY <2>1, <2>2, FoldExists
<1>5. ASSUME NEW s \in SUBSET S
      PROVE  h[s] = IF s = {} THEN 0 ELSE e[Some(s)].bytes + h[s \ {Some(s)}]
  <2>1. h[s] = IF s = {} THEN 0 ELSE g[<<c[s], h[s \ {c[s]}]>>]
    BY <1>4 DEF Folds
  <2>2. CASE s # {}
    <3>1. c[s] = Some(s) /\ Some(s) \in S /\ h[s \ {Some(s)}] \in Nat
      BY <1>1, <2>2
    <3>2. g[<<Some(s), h[s \ {Some(s)}]>>] = e[Some(s)].bytes + h[s \ {Some(s)}]
      BY <3>1
    <3> QED
      BY <2>1, <2>2, <3>1, <3>2
  <2> QED
    BY <2>1, <2>2
<1>6. Recursion(h)
  BY <1>5
<1>7. Recursion(it)
  <2> HIDE DEF Recursion
  <2> QED
    BY <1>6 DEF it
<1>8. ASSUME NEW s \in SUBSET S
      PROVE  it[s] = IF s = {} THEN 0 ELSE e[Some(s)].bytes + it[s \ {Some(s)}]
  BY <1>7, <1>8
<1>9. it[S] = h[S]
  <2> DEFINE T == {s \in SUBSET S : it[s] # h[s]}
  <2>1. SUFFICES ASSUME T # {}
                 PROVE  FALSE
    BY <2>1
  <2>2. PICK s \in T : \A y \in T : y \subseteq s => y = s
    <3>1. T \in SUBSET SUBSET S
      OBVIOUS
    <3> HIDE DEF T
    <3> QED
      BY <2>1, <3>1, SmallestSubset
  <2>3. s # {} /\ s \ {Some(s)} # s /\ s \ {Some(s)} \in SUBSET S
    BY <1>1, <1>5, <1>8
  <2>4. it[s \ {Some(s)}] = h[s \ {Some(s)}]
    BY <2>2, <2>3
  <2> QED
    BY <1>5, <1>8, <2>3, <2>4
<1> QED
  BY <1>3, <1>5, <1>9

\* The same, of Total itself.
LEMMA TotalBegins ==
  ASSUME NEW e, NEW S, IsFiniteSet(S), Sized(e, S)
  PROVE  /\ Total(e, S) \in Nat
         /\ Total(e, S) = IF S = {} THEN 0 ELSE e[Some(S)].bytes + Total(e, S \ {Some(S)})
<1>1. PICK h \in [SUBSET S -> Nat] :
        /\ \A s \in SUBSET S : h[s] = IF s = {} THEN 0 ELSE e[Some(s)].bytes + h[s \ {Some(s)}]
        /\ Total(e, S) = h[S]
  BY TotalStepwise
<1>2. SUFFICES ASSUME S # {}
               PROVE  Total(e, S \ {Some(S)}) = h[S \ {Some(S)}]
  BY <1>1
<1> DEFINE R == S \ {Some(S)}
<1>3. IsFiniteSet(R) /\ Sized(e, R) /\ R \in SUBSET S
  BY FS_Subset DEF Sized
<1> HIDE DEF R
<1>4. PICK i \in [SUBSET R -> Nat] :
        /\ \A s \in SUBSET R : i[s] = IF s = {} THEN 0 ELSE e[Some(s)].bytes + i[s \ {Some(s)}]
        /\ Total(e, R) = i[R]
  BY <1>3, TotalStepwise
<1>5. i[R] = h[R]
  <2> DEFINE T == {s \in SUBSET R : i[s] # h[s]}
  <2>1. SUFFICES ASSUME T # {}
                 PROVE  FALSE
    BY <2>1
  <2>2. PICK s \in T : \A y \in T : y \subseteq s => y = s
    <3>1. T \in SUBSET SUBSET R
      OBVIOUS
    <3> HIDE DEF T
    <3> QED
      BY <1>3, <2>1, <3>1, SmallestSubset
  <2>3. /\ i[s] = IF s = {} THEN 0 ELSE e[Some(s)].bytes + i[s \ {Some(s)}]
        /\ h[s] = IF s = {} THEN 0 ELSE e[Some(s)].bytes + h[s \ {Some(s)}]
    BY <1>1, <1>3, <1>4
  <2>4. s # {} /\ Some(s) \in s
    BY <2>3 DEF Some
  <2>5. i[s \ {Some(s)}] = h[s \ {Some(s)}]
    BY <2>2, <2>4
  <2> QED
    BY <2>3, <2>4, <2>5
<1> QED
  BY <1>4, <1>5 DEF R

\* The order in which bytes are added does not matter.
LEMMA TotalWithout ==
  ASSUME NEW e, NEW S, IsFiniteSet(S), Sized(e, S), NEW x \in S
  PROVE  Total(e, S) = e[x].bytes + Total(e, S \ {x})
<1> DEFINE Fails(s) == \E y \in s : Total(e, s) # e[y].bytes + Total(e, s \ {y})
           T == {s \in SUBSET S : Fails(s)}
<1>1. SUFFICES ASSUME T # {}
               PROVE  FALSE
  BY <1>1
<1>2. PICK s \in T : \A u \in T : u \subseteq s => u = s
  <2>1. T \in SUBSET SUBSET S
    OBVIOUS
  <2> HIDE DEF T
  <2> QED
    BY <1>1, <2>1, SmallestSubset
<1>3. PICK y \in s : Total(e, s) # e[y].bytes + Total(e, s \ {y})
  OBVIOUS
<1>4. ASSUME NEW u \in SUBSET S
      PROVE  /\ Total(e, u) \in Nat
             /\ u # {} => Some(u) \in u /\ Total(e, u) = e[Some(u)].bytes + Total(e, u \ {Some(u)})
  <2>1. IsFiniteSet(u) /\ Sized(e, u)
    BY FS_Subset DEF Sized
  <2> QED
    BY <2>1, TotalBegins DEF Some
<1>5. ASSUME NEW u \in SUBSET s, u # s, NEW z \in u
      PROVE  Total(e, u) = e[z].bytes + Total(e, u \ {z})
  BY <1>2, <1>5
<1> DEFINE c == Some(s)
<1>6. s \in SUBSET S /\ s # {} /\ c \in s /\ Total(e, s) = e[c].bytes + Total(e, s \ {c})
  BY <1>4
<1> HIDE DEF c, T
<1>7. c # y
  BY <1>3, <1>6
<1>8. Total(e, s \ {c}) = e[y].bytes + Total(e, (s \ {c}) \ {y})
  BY <1>5, <1>6, <1>7
<1>9. Total(e, s \ {y}) = e[c].bytes + Total(e, (s \ {y}) \ {c})
  BY <1>5, <1>6, <1>7
<1>10. (s \ {c}) \ {y} = (s \ {y}) \ {c}
  OBVIOUS
<1> DEFINE r == Total(e, (s \ {c}) \ {y})
<1>11. r \in Nat /\ e[y].bytes \in Nat /\ e[c].bytes \in Nat
  BY <1>4, <1>6 DEF Sized
<1>12. Total(e, s) = e[c].bytes + (e[y].bytes + r) /\ Total(e, s \ {y}) = e[c].bytes + r
  BY <1>6, <1>8, <1>9, <1>10
<1> HIDE DEF r
<1>13. e[c].bytes + (e[y].bytes + r) = e[y].bytes + (e[c].bytes + r)
  BY <1>11
<1> QED
  BY <1>3, <1>12, <1>13

\* Nothing weighs nothing.
LEMMA TotalEmpty == ASSUME NEW e PROVE Total(e, {}) = 0
BY TotalBegins, FS_EmptySet DEF Sized

\* The total depends on the sizes only.
LEMMA TotalSame ==
  ASSUME NEW d, NEW e, NEW S, IsFiniteSet(S), Sized(e, S), \A k \in S : d[k].bytes = e[k].bytes
  PROVE  Total(d, S) = Total(e, S)
<1> DEFINE T == {s \in SUBSET S : Total(d, s) # Total(e, s)}
<1>1. SUFFICES ASSUME T # {}
               PROVE  FALSE
  BY <1>1
<1>2. PICK s \in T : \A u \in T : u \subseteq s => u = s
  <2>1. T \in SUBSET SUBSET S
    OBVIOUS
  <2> HIDE DEF T
  <2> QED
    BY <1>1, <2>1, SmallestSubset
<1>3. s \in SUBSET S /\ Total(d, s) # Total(e, s)
  OBVIOUS
<1>4. s # {}
  BY <1>3, TotalEmpty
<1>5. PICK x \in s : TRUE
  BY <1>4
<1>6. Total(d, s \ {x}) = Total(e, s \ {x})
  BY <1>2, <1>3, <1>5
<1>7. IsFiniteSet(s) /\ Sized(d, s) /\ Sized(e, s)
  BY <1>3, FS_Subset DEF Sized
<1>8. Total(d, s) = d[x].bytes + Total(d, s \ {x}) /\ Total(e, s) = e[x].bytes + Total(e, s \ {x})
  BY <1>5, <1>7, TotalWithout
<1> QED
  BY <1>3, <1>5, <1>6, <1>8

\* What is left when some keys are taken away weighs the difference.
LEMMA TotalSplit ==
  ASSUME NEW e, NEW S, IsFiniteSet(S), Sized(e, S), NEW R \in SUBSET S
  PROVE  Total(e, S \ R) = Total(e, S) - Total(e, R) /\ Total(e, R) <= Total(e, S)
<1> DEFINE T == {s \in SUBSET R : Total(e, S) # Total(e, S \ s) + Total(e, s)}
<1>1. IsFiniteSet(R)
  BY FS_Subset
<1>2. ASSUME NEW u \in SUBSET S
      PROVE  IsFiniteSet(u) /\ Sized(e, u) /\ Total(e, u) \in Nat
  BY FS_Subset, TotalBegins DEF Sized
<1>3. T = {}
  <2>1. SUFFICES ASSUME T # {}
                 PROVE  FALSE
    OBVIOUS
  <2>2. PICK s \in T : \A u \in T : u \subseteq s => u = s
    <3>1. T \in SUBSET SUBSET R
      OBVIOUS
    <3> HIDE DEF T
    <3> QED
      BY <1>1, <2>1, <3>1, SmallestSubset
  <2>3. s \in SUBSET R /\ Total(e, S) # Total(e, S \ s) + Total(e, s)
    OBVIOUS
  <2>4. s # {}
    <3>1. SUFFICES ASSUME s = {}
                   PROVE  FALSE
      OBVIOUS
    <3>2. S \ s = S /\ Total(e, s) = 0
      BY <3>1, TotalEmpty
    <3>3. Total(e, S) \in Nat
      BY <1>2
    <3> QED
      BY <2>3, <3>2, <3>3
  <2>5. PICK x \in s : TRUE
    BY <2>4
  <2> DEFINE t == s \ {x}
  <2>6. Total(e, S) = Total(e, S \ t) + Total(e, t)
    BY <2>2, <2>3, <2>5
  <2>7. Total(e, s) = e[x].bytes + Total(e, t)
    BY <1>2, <2>3, <2>5, TotalWithout
  <2>8. Total(e, S \ t) = e[x].bytes + Total(e, S \ s)
    <3>1. x \in S \ t /\ (S \ t) \ {x} = S \ s /\ S \ t \in SUBSET S
      BY <2>3, <2>5
    <3> QED
      BY <1>2, <3>1, TotalWithout
  <2>9. Total(e, t) \in Nat /\ Total(e, S \ s) \in Nat /\ e[x].bytes \in Nat
    BY <1>2, <2>3, <2>5 DEF Sized
  <2> QED
    BY <2>3, <2>6, <2>7, <2>8, <2>9
<1>4. Total(e, S) = Total(e, S \ R) + Total(e, R)
  BY <1>3
<1>5. Total(e, S) \in Nat /\ Total(e, S \ R) \in Nat /\ Total(e, R) \in Nat
  BY <1>2
<1> QED
  BY <1>4, <1>5
--------------------------------------------------------------------------------
(* The invariant. *)

\* The store: no key twice, and the bytes those of its entries.
StoreInv ==
  /\ order \in Seq(Keys) /\ entry \in [Keys -> Entry]
  /\ IsInjective(order) /\ Len(order) <= MaxEntries
  /\ bytes = Total(entry, Stored) /\ bytes <= MaxBytes

\* The loads: what can be joined is running for its key and not abandoned, and a key
\* somebody loads is not stored.
Loading == {l \in Loads : Running(l)}

FlightsInv ==
  /\ flights \in [Keys -> Loads \cup {None}] /\ load \in [Loads -> Load]
  /\ \A k \in Keys : flights[k] # None =>
       /\ Running(flights[k]) /\ load[flights[k]].key = k /\ ~load[flights[k]].abandoned
  /\ \A l \in Loads : load[l].pc # "none" => load[l].key \in Keys
  /\ \A l \in Loads : load[l].pc = "loading" /\ ~load[l].abandoned =>
       /\ flights[load[l].key] = l /\ load[l].key \notin Stored
  /\ IsFiniteSet(Loading) /\ inFlight = Cardinality(Loading) /\ inFlight <= MaxInFlight

\* The callers of a load are those it counts.
Joined(l) == {c \in Callers : caller[c].pc # "idle" /\ caller[c].load = l}

CallersInv ==
  /\ caller \in [Callers -> Caller]
  /\ \A c \in Callers : caller[c].pc # "idle" =>
       caller[c].load \in Loads /\ load[caller[c].load].pc # "none"
  /\ \A l \in Loads : IsFiniteSet(Joined(l)) /\ load[l].waiters = Cardinality(Joined(l))
  /\ NoOneAbandoned

CacheInv == StoreInv /\ FlightsInv /\ CallersInv
--------------------------------------------------------------------------------
(* The store. *)

\* The limits are positive, and None is neither a load nor a key.
LEMMA Numbers ==
  /\ MaxEntries \in Nat \ {0} /\ MaxBytes \in Nat \ {0} /\ MaxInFlight \in Nat \ {0}
  /\ \A size \in Sizes : size \in Nat \ {0}
  /\ None \notin Loads /\ None \notin Keys
BY BoundsArePositive, SizesArePositive, NoneIsNew

\* A sequence without repetition is as long as the set of its members is large.
LEMMA LengthOfDistinct ==
  ASSUME NEW S, NEW s \in Seq(S), IsInjective(s)
  PROVE  IsFiniteSet(ToSet(s)) /\ Cardinality(ToSet(s)) = Len(s) /\ ToSet(s) \subseteq S
<1>1. Len(s) \in Nat /\ DOMAIN s = 1 .. Len(s) /\ \A i \in 1 .. Len(s) : s[i] \in S
  BY LenProperties, ElementOfSeq
<1>2. s \in [1 .. Len(s) -> ToSet(s)] /\ \A t \in ToSet(s) : \E i \in 1 .. Len(s) : s[i] = t
  <2>1. s = [i \in 1 .. Len(s) |-> s[i]]
    BY <1>1, LenProperties
  <2> QED
    BY <1>1, <2>1 DEF ToSet
<1>3. s \in Bijection(1 .. Len(s), ToSet(s))
  BY <1>1, <1>2 DEF Bijection, Injection, Surjection, IsInjective
<1>4. ExistsBijection(1 .. Len(s), ToSet(s))
  BY <1>3 DEF ExistsBijection
<1>5. IsFiniteSet(1 .. Len(s)) /\ Cardinality(1 .. Len(s)) = Len(s)
  <2>1. \A n \in Nat : IsFiniteSet(1 .. n) /\ Cardinality(1 .. n) = n
    <3>1. ASSUME NEW n \in Nat
          PROVE  IsFiniteSet(1 .. n) /\ Cardinality(1 .. n) = IF 1 > n THEN 0 ELSE n - 1 + 1
      BY FS_Interval
    <3> QED
      BY <3>1
  <2> QED
    BY <1>1, <2>1
<1> QED
  BY <1>1, <1>4, <1>5, FS_Bijection DEF ToSet

\* Every entry has a size.
LEMMA EntriesAreSized ==
  ASSUME NEW e \in [Keys -> Entry], NEW ks \in SUBSET Keys
  PROVE  Sized(e, ks)
<1>1. \A x \in Entry : x.bytes \in Sizes \cup {0}
  BY DEF Entry
<1>2. \A n \in Sizes \cup {0} : n \in Nat
  BY Numbers
<1> QED
  BY <1>1, <1>2 DEF Sized

\* The stored keys are finitely many, and SizeOf is their total.
LEMMA StoredIsSized ==
  ASSUME order \in Seq(Keys), IsInjective(order), entry \in [Keys -> Entry]
  PROVE  /\ IsFiniteSet(Stored) /\ Cardinality(Stored) = Len(order) /\ Len(order) \in Nat
         /\ Stored \in SUBSET Keys /\ \A ks \in SUBSET Keys : Sized(entry, ks)
         /\ \A ks : SizeOf(ks) = Total(entry, ks)
<1>1. IsFiniteSet(Stored) /\ Cardinality(Stored) = Len(order) /\ Stored \subseteq Keys
  BY LengthOfDistinct DEF Stored
<1>2. \A ks \in SUBSET Keys : Sized(entry, ks)
  BY EntriesAreSized
<1>3. \A ks : SizeOf(ks) = Total(entry, ks)
  BY DEF SizeOf, Total
<1> QED
  BY <1>1, <1>2, <1>3, LenProperties

\* What Removed leaves of the order of the keys.
LEMMA Kept ==
  ASSUME order \in Seq(Keys), IsInjective(order), entry \in [Keys -> Entry], NEW ks \in SUBSET Stored
  PROVE  /\ Removed(ks) \in Seq(Keys) /\ IsInjective(Removed(ks))
         /\ ToSet(Removed(ks)) = Stored \ ks
         /\ IsFiniteSet(ks) /\ Len(Removed(ks)) = Len(order) - Cardinality(ks)
         /\ Len(Removed(ks)) \in Nat /\ Cardinality(ks) \in Nat
<1>1. Removed(ks) = Filtered(order, ks)
  BY DEF Removed, Filtered
<1>2. Removed(ks) \in Seq(Keys) /\ IsInjective(Removed(ks)) /\ ToSet(Removed(ks)) = Stored \ ks
  BY <1>1, FilteredProperties DEF Stored
<1>3. IsFiniteSet(Stored) /\ Cardinality(Stored) = Len(order)
  BY StoredIsSized
<1>4. IsFiniteSet(ks) /\ Cardinality(ks) \in Nat
  BY <1>3, FS_Subset, FS_CardinalityType
<1>5. Cardinality(Stored \ ks) = Cardinality(Stored) - Cardinality(Stored \cap ks)
  BY <1>3, FS_Difference
<1>6. Stored \cap ks = ks
  OBVIOUS
<1>7. Cardinality(ToSet(Removed(ks))) = Len(Removed(ks)) /\ Len(Removed(ks)) \in Nat
  BY <1>2, LengthOfDistinct, LenProperties
<1> QED
  BY <1>2, <1>3, <1>4, <1>5, <1>6, <1>7

\* A key appended to an order that does not have it.
LEMMA Added ==
  ASSUME NEW s \in Seq(Keys), IsInjective(s), NEW k \in Keys, k \notin ToSet(s)
  PROVE  /\ Append(s, k) \in Seq(Keys) /\ IsInjective(Append(s, k))
         /\ ToSet(Append(s, k)) = ToSet(s) \cup {k}
         /\ Len(Append(s, k)) = Len(s) + 1
<1> DEFINE l == Len(s)
<1>1. /\ l \in Nat /\ DOMAIN s = 1 .. l
      /\ Append(s, k) \in Seq(Keys) /\ Len(Append(s, k)) = l + 1
      /\ \A i \in 1 .. l : Append(s, k)[i] = s[i]
      /\ Append(s, k)[l + 1] = k
  BY AppendProperties, LenProperties
<1>2. DOMAIN Append(s, k) = 1 .. l + 1
  BY <1>1, LenProperties
<1> HIDE DEF l
<1>3. 1 .. l + 1 = (1 .. l) \cup {l + 1}
  BY <1>1
<1>4. ToSet(Append(s, k)) = ToSet(s) \cup {k}
  BY <1>1, <1>2, <1>3 DEF ToSet
<1>5. \A i \in 1 .. l : s[i] # k
  BY <1>1 DEF ToSet
<1>6. \A i, j \in 1 .. l : s[i] = s[j] => i = j
  BY <1>1 DEF IsInjective
<1>7. IsInjective(Append(s, k))
  <2>1. SUFFICES ASSUME NEW i \in 1 .. l + 1, NEW j \in 1 .. l + 1,
                        Append(s, k)[i] = Append(s, k)[j]
                 PROVE  i = j
    BY <1>2 DEF IsInjective
  <2>2. (i \in 1 .. l \/ i = l + 1) /\ (j \in 1 .. l \/ j = l + 1)
    BY <1>3
  <2> QED
    BY <1>1, <1>5, <1>6, <2>1, <2>2
<1> QED
  BY <1>1, <1>4, <1>7 DEF l

\* The bytes of what stays are those that were counted less those that went.
LEMMA BytesKept ==
  ASSUME StoreInv, NEW ks \in SUBSET Stored, NEW e \in [Keys -> Entry],
         \A k \in Stored \ ks : e[k] = entry[k]
  PROVE  /\ Total(e, Stored \ ks) = bytes - SizeOf(ks)
         /\ bytes - SizeOf(ks) \in Nat /\ bytes \in Nat /\ SizeOf(ks) \in Nat
<1>1. /\ IsFiniteSet(Stored) /\ Stored \in SUBSET Keys
      /\ \A s \in SUBSET Keys : Sized(entry, s)
      /\ SizeOf(ks) = Total(entry, ks)
  BY StoredIsSized DEF StoreInv
<1>2. Sized(entry, Stored) /\ Sized(entry, Stored \ ks) /\ Sized(entry, ks)
  BY <1>1 DEF Sized
<1>3. IsFiniteSet(Stored \ ks) /\ IsFiniteSet(ks)
  BY <1>1, FS_Subset
<1>4. Total(e, Stored \ ks) = Total(entry, Stored \ ks)
  BY <1>2, <1>3, TotalSame
<1>5. Total(entry, Stored \ ks) = Total(entry, Stored) - Total(entry, ks)
  BY <1>1, <1>2, TotalSplit
<1>6. Total(entry, Stored) \in Nat /\ Total(entry, ks) \in Nat /\ Total(entry, Stored \ ks) \in Nat
  BY <1>1, <1>2, <1>3, TotalBegins
<1> QED
  BY <1>1, <1>4, <1>5, <1>6 DEF StoreInv
--------------------------------------------------------------------------------
(* The steps of the cache. *)

\* The empty entry is well typed.
LEMMA NoEntryFits == NoEntry \in Entry
BY DEF NoEntry, Entry

\* A call may move its key to the end or drop what has expired, and the bytes follow.
LEMMA CallKeepsStore ==
  ASSUME StoreInv, NEW c \in Callers, NEW k \in Keys, Call(c, k)
  PROVE  StoreInv' /\ Stored' \subseteq Stored /\ (k \in Stored' \/ order' = Removed(Stored \ Stored'))
<1> DEFINE expired == {j \in Stored : entry[j].expired}
<1>1. entry' = Gone(expired) /\ bytes' = bytes - SizeOf(expired) /\ expired \in SUBSET Stored
  BY DEF Call
<1>2. \/ k \in Stored \ expired /\ order' = Append(Removed(expired \cup {k}), k)
      \/ order' = Removed(expired)
  BY DEF Call
<1> HIDE DEF expired
<1>3. Gone(expired) \in [Keys -> Entry] /\ \A j \in Stored \ expired : Gone(expired)[j] = entry[j]
  BY NoEntryFits, StoredIsSized DEF Gone, StoreInv
<1>4. /\ IsFiniteSet(Stored) /\ Cardinality(Stored) = Len(order) /\ Len(order) \in Nat
      /\ Stored \in SUBSET Keys
  BY StoredIsSized DEF StoreInv
<1>5. /\ Total(entry', Stored \ expired) = bytes - SizeOf(expired)
      /\ bytes - SizeOf(expired) \in Nat /\ bytes \in Nat /\ SizeOf(expired) \in Nat
  BY <1>1, <1>3, BytesKept
<1>6. MaxBytes \in Nat /\ MaxEntries \in Nat /\ bytes <= MaxBytes /\ Len(order) <= MaxEntries
  BY Numbers DEF StoreInv
<1>7. bytes' <= MaxBytes /\ entry' \in [Keys -> Entry]
  BY <1>1, <1>3, <1>5, <1>6
<1>8. SUFFICES /\ order' \in Seq(Keys) /\ IsInjective(order') /\ Len(order') <= MaxEntries
               /\ Stored' = Stored \ expired
               /\ k \in Stored' \/ order' = Removed(expired)
  <2>1. Stored' = Stored \ expired => Stored \ Stored' = expired
    BY <1>1
  <2> QED
    BY <1>1, <1>5, <1>7, <2>1 DEF StoreInv
<1>9. CASE order' = Removed(expired)
  <2>1. /\ Removed(expired) \in Seq(Keys) /\ IsInjective(Removed(expired))
        /\ ToSet(Removed(expired)) = Stored \ expired
        /\ Len(Removed(expired)) = Len(order) - Cardinality(expired)
        /\ Cardinality(expired) \in Nat
    BY <1>1, Kept DEF StoreInv
  <2> QED
    BY <1>4, <1>6, <1>9, <2>1 DEF Stored
<1>10. CASE k \in Stored \ expired /\ order' = Append(Removed(expired \cup {k}), k)
  <2> DEFINE out == expired \cup {k}
  <2>1. out \in SUBSET Stored
    BY <1>1, <1>10
  <2> HIDE DEF out
  <2>2. /\ Removed(out) \in Seq(Keys) /\ IsInjective(Removed(out))
        /\ ToSet(Removed(out)) = Stored \ out
        /\ Len(Removed(out)) = Len(order) - Cardinality(out)
        /\ IsFiniteSet(out) /\ Cardinality(out) \in Nat
    BY <2>1, Kept DEF StoreInv
  <2>3. k \in out /\ k \notin Stored \ out
    BY DEF out
  <2>4. /\ Append(Removed(out), k) \in Seq(Keys) /\ IsInjective(Append(Removed(out), k))
        /\ ToSet(Append(Removed(out), k)) = (Stored \ out) \cup {k}
        /\ Len(Append(Removed(out), k)) = Len(Removed(out)) + 1
    BY <2>2, <2>3, Added
  <2>5. Cardinality(out) # 0
    BY <2>2, <2>3, FS_EmptySet
  <2>6. (Stored \ out) \cup {k} = Stored \ expired
    BY <1>10 DEF out
  <2>7. order' = Append(Removed(out), k)
    BY <1>10 DEF out
  <2>8. Len(order') <= MaxEntries
    BY <1>4, <1>6, <2>2, <2>4, <2>5, <2>7
  <2> QED
    BY <2>4, <2>6, <2>7, <2>8, <1>10 DEF Stored
<1> QED
  BY <1>2, <1>9, <1>10

\* What callers, counters and keys of the loads need of a step that begins and ends none.
LEMMA FlightsGoOn ==
  ASSUME FlightsInv, load' \in [Loads -> Load], UNCHANGED <<flights, inFlight>>,
         \A l \in Loads : /\ load'[l].pc = load[l].pc /\ load'[l].key = load[l].key
                          /\ load'[l].abandoned = load[l].abandoned,
         Stored' \subseteq Stored
  PROVE  FlightsInv'
<1>1. Loading' = Loading
  BY DEF Loading, Running
<1>2. \A k \in Keys : flights[k] # None => flights[k] \in Loads
  BY DEF FlightsInv
<1> QED
  BY <1>1, <1>2 DEF FlightsInv, Running

\* The fields of a load.
LEMMA LoadFields ==
  ASSUME NEW x \in Load
  PROVE  /\ x.pc \in {"none", "loading", "settling", "settled"} /\ x.key \in Keys \cup {None}
         /\ x.waiters \in Nat /\ x.abandoned \in BOOLEAN /\ x.timedOut \in BOOLEAN
         /\ \A n \in Nat : /\ [x EXCEPT !.waiters = n] \in Load
                           /\ [x EXCEPT !.waiters = n].pc = x.pc
                           /\ [x EXCEPT !.waiters = n].key = x.key
                           /\ [x EXCEPT !.waiters = n].abandoned = x.abandoned
                           /\ [x EXCEPT !.waiters = n].waiters = n
BY DEF Load

Begun(k) == [NoLoad EXCEPT !.pc = "loading", !.key = k, !.waiters = 1]

\* A load that has begun runs for its key with one waiter.
LEMMA BegunFields ==
  ASSUME NEW k \in Keys
  PROVE  /\ Begun(k) \in Load
         /\ Begun(k).pc = "loading" /\ Begun(k).key = k /\ Begun(k).waiters = 1
         /\ Begun(k).abandoned = FALSE
BY DEF Begun, NoLoad, Load

\* A call is answered or refused at once, joins the flight of its key, or begins one.
LEMMA CallMoves ==
  ASSUME CacheInv, NEW c \in Callers, NEW k \in Keys, Call(c, k)
  PROVE  /\ caller[c].pc = "idle"
         /\ \/ UNCHANGED <<inFlight, flights, load, caller>>
            \/ /\ k \notin Stored' /\ flights[k] # None /\ flights[k] \in Loads
               /\ load' = [load EXCEPT ![flights[k]].waiters = load[flights[k]].waiters + 1]
               /\ caller' = [caller EXCEPT ![c] = [pc |-> "waiting", load |-> flights[k]]]
               /\ UNCHANGED <<inFlight, flights>>
            \/ /\ k \notin Stored' /\ flights[k] = None /\ inFlight < MaxInFlight
               /\ inFlight' = inFlight + 1
               /\ \E l \in {l \in Loads : Free(l)} :
                    /\ load' = [load EXCEPT ![l] = Begun(k)]
                    /\ flights' = [flights EXCEPT ![k] = l]
                    /\ caller' = [caller EXCEPT ![c] = [pc |-> "waiting", load |-> l]]
<1> DEFINE expired == {j \in Stored : entry[j].expired}
<1>1. StoreInv
  BY DEF CacheInv
<1>2. flights[k] # None => flights[k] \in Loads
  BY DEF CacheInv, FlightsInv
<1>4. order' = Removed(expired) => Stored' = Stored \ expired
  <2>1. expired \in SUBSET Stored
    OBVIOUS
  <2> HIDE DEF expired
  <2>2. ToSet(Removed(expired)) = Stored \ expired
    BY <1>1, <2>1, Kept DEF StoreInv
  <2> QED
    BY <2>2 DEF Stored
<1>5. k \notin Stored \ expired /\ order' = Removed(expired) => k \notin Stored'
  BY <1>4
<1> QED
  BY <1>2, <1>5 DEF Call, Begun

\* A call keeps the cache's invariant.
LEMMA CallStep ==
  ASSUME CacheInv, NEW c \in Callers, NEW k \in Keys, Call(c, k)
  PROVE  CacheInv'
<1>1. StoreInv' /\ Stored' \subseteq Stored
  BY CallKeepsStore DEF CacheInv
<1>2. CASE UNCHANGED <<inFlight, flights, load, caller>>
  <2>1. FlightsInv'
    BY <1>1, <1>2, FlightsGoOn DEF CacheInv, FlightsInv
  <2>2. CallersInv'
    BY <1>2 DEF CacheInv, CallersInv, Joined, NoOneAbandoned
  <2> QED
    BY <1>1, <2>1, <2>2 DEF CacheInv
<1>3. ASSUME flights[k] # None, flights[k] \in Loads, caller[c].pc = "idle",
             load' = [load EXCEPT ![flights[k]].waiters = load[flights[k]].waiters + 1],
             caller' = [caller EXCEPT ![c] = [pc |-> "waiting", load |-> flights[k]]],
             UNCHANGED <<inFlight, flights>>
      PROVE  CacheInv'
  <2> DEFINE j == flights[k]
  <2>1. load \in [Loads -> Load] /\ load[j] \in Load /\ Running(j) /\ ~load[j].abandoned
    BY <1>3 DEF CacheInv, FlightsInv
  <2>2. load[j].waiters + 1 \in Nat
    BY <2>1, LoadFields
  <2>3. /\ load' \in [Loads -> Load] /\ load'[j].waiters = load[j].waiters + 1
        /\ \A l \in Loads : /\ load'[l].pc = load[l].pc /\ load'[l].key = load[l].key
                            /\ load'[l].abandoned = load[l].abandoned
                            /\ l # j => load'[l].waiters = load[l].waiters
    <3>1. load' = [load EXCEPT ![j] = [load[j] EXCEPT !.waiters = load[j].waiters + 1]]
      BY <1>3, <2>1
    <3> QED
      BY <1>3, <2>1, <2>2, <3>1, LoadFields
  <2>4. FlightsInv'
    BY <1>1, <1>3, <2>3, FlightsGoOn DEF CacheInv
  <2>5. /\ caller' \in [Callers -> Caller] /\ caller'[c].pc = "waiting" /\ caller'[c].load = j
        /\ \A d \in Callers \ {c} : caller'[d] = caller[d]
    BY <1>3 DEF CacheInv, CallersInv, Caller
  <2>6. ASSUME NEW l \in Loads
        PROVE  Joined(l)' = IF l = j THEN Joined(l) \cup {c} ELSE Joined(l)
    BY <1>3, <2>5 DEF Joined
  <2>7. c \notin Joined(j)
    BY <1>3 DEF Joined
  <2>8. \A l \in Loads : IsFiniteSet(Joined(l)') /\ load'[l].waiters = Cardinality(Joined(l)')
    <3>1. /\ \A l \in Loads : IsFiniteSet(Joined(l)) /\ load[l].waiters = Cardinality(Joined(l))
          /\ j \in Loads
      BY <1>3 DEF CacheInv, CallersInv
    <3>2. /\ IsFiniteSet(Joined(j) \cup {c})
          /\ Cardinality(Joined(j) \cup {c}) = Cardinality(Joined(j)) + 1
      BY <2>7, <3>1, FS_AddElement
    <3> QED
      BY <2>3, <2>6, <3>1, <3>2
  <2>9. CallersInv'
    BY <1>3, <2>1, <2>3, <2>5, <2>8 DEF CacheInv, CallersInv, NoOneAbandoned, Running
  <2> QED
    BY <1>1, <2>4, <2>9 DEF CacheInv
<1>4. ASSUME k \notin Stored', flights[k] = None, inFlight < MaxInFlight, inFlight' = inFlight + 1,
             caller[c].pc = "idle", NEW l \in Loads, Free(l),
             load' = [load EXCEPT ![l] = Begun(k)],
             flights' = [flights EXCEPT ![k] = l],
             caller' = [caller EXCEPT ![c] = [pc |-> "waiting", load |-> l]]
      PROVE  CacheInv'
  <2>1. /\ load' \in [Loads -> Load]
        /\ load'[l].pc = "loading" /\ load'[l].key = k /\ load'[l].waiters = 1
        /\ load'[l].abandoned = FALSE
        /\ \A m \in Loads \ {l} : load'[m] = load[m]
    BY <1>4, BegunFields DEF CacheInv, FlightsInv
  <2>2. flights' \in [Keys -> Loads \cup {None}] /\ flights'[k] = l
        /\ \A i \in Keys \ {k} : flights'[i] = flights[i]
    BY <1>4 DEF CacheInv, FlightsInv
  <2>3. \A i \in Keys : flights[i] # l
    BY <1>4, Numbers DEF CacheInv, FlightsInv, Free, Running
  <2>4. Loading' = Loading \cup {l} /\ l \notin Loading
    BY <1>4, <2>1 DEF Loading, Running, Free
  <2>5. IsFiniteSet(Loading') /\ inFlight' = Cardinality(Loading') /\ inFlight' <= MaxInFlight
    BY <1>4, <2>4, FS_AddElement, FS_CardinalityType, Numbers DEF CacheInv, FlightsInv
  <2>6. l # None /\ \A i \in Keys : flights[i] # None => flights[i] \in Loads
    BY Numbers DEF CacheInv, FlightsInv
  <2>7. FlightsInv'
    <3>1. \A i \in Keys : flights'[i] # None =>
            /\ load'[flights'[i]].pc \in {"loading", "settling"} /\ load'[flights'[i]].key = i
            /\ ~load'[flights'[i]].abandoned
      BY <2>1, <2>2, <2>3, <2>6 DEF CacheInv, FlightsInv, Running
    <3>2. \A m \in Loads : load'[m].pc # "none" => load'[m].key \in Keys
      BY <2>1 DEF CacheInv, FlightsInv
    <3>3. \A m \in Loads : load'[m].pc = "loading" /\ ~load'[m].abandoned =>
            /\ flights'[load'[m].key] = m /\ load'[m].key \notin Stored'
      <4>1. SUFFICES ASSUME NEW m \in Loads \ {l}, load[m].pc = "loading", ~load[m].abandoned
                     PROVE  flights'[load[m].key] = m /\ load[m].key \notin Stored'
        BY <1>4, <2>1, <2>2
      <4>2. flights[load[m].key] = m /\ load[m].key \notin Stored /\ load[m].key \in Keys
        BY <4>1 DEF CacheInv, FlightsInv
      <4>3. load[m].key # k
        BY <1>4, <4>2, Numbers
      <4> QED
        BY <1>1, <2>2, <4>2, <4>3
    <3> QED
      BY <2>1, <2>2, <2>5, <3>1, <3>2, <3>3 DEF FlightsInv, Running
  <2>8. /\ caller' \in [Callers -> Caller] /\ caller'[c].pc = "waiting" /\ caller'[c].load = l
        /\ \A d \in Callers \ {c} : caller'[d] = caller[d]
    BY <1>4 DEF CacheInv, CallersInv, Caller
  <2>9. Joined(l) = {}
    BY <1>4, FS_EmptySet DEF CacheInv, CallersInv, Free
  <2>10. \A m \in Loads : Joined(m)' = IF m = l THEN {c} ELSE Joined(m)
    BY <1>4, <2>8, <2>9 DEF Joined
  <2>11. \A m \in Loads : IsFiniteSet(Joined(m)') /\ load'[m].waiters = Cardinality(Joined(m)')
    BY <2>1, <2>10, FS_Singleton DEF CacheInv, CallersInv
  <2>12. \A d \in Callers \ {c} : caller[d].pc # "idle" => caller[d].load # l
    BY <2>9 DEF Joined
  <2>13. CallersInv'
    BY <2>1, <2>8, <2>11, <2>12 DEF CacheInv, CallersInv, NoOneAbandoned
  <2> QED
    BY <1>1, <2>7, <2>13 DEF CacheInv
<1> QED
  BY <1>2, <1>3, <1>4, CallMoves
--------------------------------------------------------------------------------

\* Enough is evicted: with everything gone, what is not too large fits.
LEMMA EvictedFits ==
  ASSUME StoreInv, NEW size \in Nat, size <= MaxBytes
  PROVE  \E out \in SUBSET Stored :
           /\ out = ToSet(SubSeq(order, 1, Evicted(size)))
           /\ Len(order) - Cardinality(out) < MaxEntries
           /\ bytes - SizeOf(out) + size <= MaxBytes
<1> DEFINE Out(n) == ToSet(SubSeq(order, 1, n))
           Fit(n) == /\ Len(order) - n < MaxEntries
                     /\ bytes - SizeOf(Out(n)) + size <= MaxBytes
           N == {n \in 0 .. Len(order) : Fit(n)}
<1>1. /\ IsFiniteSet(Stored) /\ Cardinality(Stored) = Len(order) /\ Len(order) \in Nat
      /\ Stored \in SUBSET Keys /\ DOMAIN order = 1 .. Len(order)
      /\ \A i \in 1 .. Len(order) : order[i] \in Keys
  BY StoredIsSized, LenProperties, ElementOfSeq DEF StoreInv
<1>2. Out(Len(order)) = Stored
  <2>1. SubSeq(order, 1, Len(order)) = order
    BY <1>1, SubSeqFull DEF StoreInv
  <2> QED
    BY <2>1 DEF Stored
<1>3. Fit(Len(order))
  <2>1. bytes - SizeOf(Stored) = 0
    <3>1. Stored \ Stored = {} /\ Stored \in SUBSET Stored /\ entry \in [Keys -> Entry]
      BY DEF StoreInv
    <3>2. Total(entry, Stored \ Stored) = bytes - SizeOf(Stored)
      BY <3>1, BytesKept
    <3> QED
      BY <3>1, <3>2, TotalEmpty
  <2>2. Len(order) - Len(order) < MaxEntries
    BY <1>1, Numbers
  <2>3. bytes - SizeOf(Out(Len(order))) + size <= MaxBytes
    BY <1>2, <2>1
  <2> QED
    BY <2>2, <2>3
<1> DEFINE n == Evicted(size)
<1>4. n \in 0 .. Len(order) /\ Fit(n)
  <2>1. n = Min(N)
    BY DEF Evicted
  <2>2. N \in SUBSET Nat /\ N # {}
    <3>1. Len(order) \in N
      <4> HIDE DEF Fit
      <4> QED
        BY <1>1, <1>3
    <3> QED
      BY <1>1, <3>1
  <2> HIDE DEF N, n
  <2>3. \E m \in N : \A i \in N : m <= i
    BY <2>2, SmallestNumber
  <2>4. Min(N) \in N
    BY <2>3 DEF Min
  <2>5. n \in N
    BY <2>1, <2>4
  <2> HIDE DEF Fit
  <2> QED
    BY <2>5 DEF N
<1> HIDE DEF n
<1>5. /\ SubSeq(order, 1, n) \in Seq(Keys) /\ Len(SubSeq(order, 1, n)) = n
      /\ \A i \in 1 .. n : SubSeq(order, 1, n)[i] = order[i]
  <2>1. \A i \in 1 .. n : order[i] \in Keys
    BY <1>1, <1>4
  <2>2. /\ SubSeq(order, 1, n) \in Seq(Keys)
        /\ Len(SubSeq(order, 1, n)) = IF 1 <= n THEN n - 1 + 1 ELSE 0
        /\ \A i \in 1 .. n - 1 + 1 : SubSeq(order, 1, n)[i] = order[1 + i - 1]
    BY <1>1, <1>4, <2>1, SubSeqProperties DEF StoreInv
  <2> QED
    BY <1>4, <2>2
<1>6. DOMAIN SubSeq(order, 1, n) = 1 .. n
  BY <1>5, LenProperties
<1>7. IsInjective(SubSeq(order, 1, n))
  BY <1>1, <1>4, <1>5, <1>6 DEF IsInjective, StoreInv
<1>8. Cardinality(Out(n)) = n
  BY <1>5, <1>7, LengthOfDistinct
<1>9. Out(n) \in SUBSET Stored
  <2>1. Out(n) = {order[i] : i \in 1 .. n}
    BY <1>5, <1>6 DEF ToSet
  <2>2. Stored = {order[i] : i \in 1 .. Len(order)}
    BY <1>1 DEF ToSet, Stored
  <2>3. 1 .. n \subseteq 1 .. Len(order)
    BY <1>1, <1>4
  <2> HIDE DEF Out
  <2> QED
    BY <2>1, <2>2, <2>3
<1>10. Out(n) = ToSet(SubSeq(order, 1, Evicted(size)))
  BY DEF n
<1> QED
  BY <1>4, <1>8, <1>9, <1>10

\* A load that returns stores its result after evicting enough, or stores nothing.
LEMMA ReturnKeepsStore ==
  ASSUME CacheInv, NEW l \in Loads, NEW size \in Sizes, LoadReturns(l, size)
  PROVE  /\ StoreInv'
         /\ \/ Stored' = Stored
            \/ ~load[l].abandoned /\ Stored' \subseteq Stored \cup {load[l].key}
<1> DEFINE k == load[l].key
<1>1. load[l].pc = "loading" /\ k \in Keys
  BY DEF LoadReturns, CacheInv, FlightsInv
<1>2. CASE UNCHANGED <<order, entry, bytes>>
  BY <1>2 DEF CacheInv, StoreInv, Stored
<1>3. CASE ~(Cancelled(l) \/ size > MaxBytes)
  <2>1. size \in Nat /\ size <= MaxBytes /\ MaxBytes \in Nat /\ MaxEntries \in Nat
    BY <1>3, Numbers
  <2>2. PICK out \in SUBSET Stored :
          /\ out = ToSet(SubSeq(order, 1, Evicted(size)))
          /\ Len(order) - Cardinality(out) < MaxEntries
          /\ bytes - SizeOf(out) + size <= MaxBytes
    BY <2>1, EvictedFits DEF CacheInv
  <2>3. k \notin Stored /\ ~load[l].abandoned
    BY <1>1, <1>3 DEF CacheInv, FlightsInv, Cancelled
  <2>4. /\ order' = Append(Removed(out), k)
        /\ entry' = [Gone(out) EXCEPT ![k] = [bytes |-> size, expired |-> FALSE]]
        /\ bytes' = bytes - SizeOf(out) + size
    BY <1>3, <2>2, <2>3 DEF LoadReturns
  <2>5. /\ Removed(out) \in Seq(Keys) /\ IsInjective(Removed(out))
        /\ ToSet(Removed(out)) = Stored \ out
        /\ Len(Removed(out)) = Len(order) - Cardinality(out) /\ Len(Removed(out)) \in Nat
    BY Kept DEF CacheInv, StoreInv
  <2>6. /\ order' \in Seq(Keys) /\ IsInjective(order') /\ Stored' = (Stored \ out) \cup {k}
        /\ Len(order') = Len(Removed(out)) + 1
    BY <1>1, <2>3, <2>4, <2>5, Added DEF Stored
  <2>7. Len(order') <= MaxEntries
    BY <2>1, <2>2, <2>5, <2>6
  <2>8. /\ entry' \in [Keys -> Entry] /\ entry'[k].bytes = size
        /\ \A j \in Stored \ out : entry'[j] = entry[j]
    <3>1. [bytes |-> size, expired |-> FALSE] \in Entry
      BY DEF Entry
    <3>2. Stored \in SUBSET Keys
      BY StoredIsSized DEF CacheInv, StoreInv
    <3>3. Gone(out) \in [Keys -> Entry] /\ \A j \in Stored \ out : Gone(out)[j] = entry[j]
      BY <3>2, NoEntryFits DEF Gone, CacheInv, StoreInv
    <3> QED
      BY <1>1, <2>3, <2>4, <3>1, <3>2, <3>3
  <2>9. Total(entry', Stored \ out) = bytes - SizeOf(out) /\ bytes - SizeOf(out) \in Nat
    BY <2>8, BytesKept DEF CacheInv
  <2>10. Total(entry', Stored') = bytes'
    <3>1. IsFiniteSet(Stored') /\ Sized(entry', Stored')
      <4>1. IsFiniteSet(ToSet(order')) /\ ToSet(order') \subseteq Keys
        BY <2>6, LengthOfDistinct
      <4> QED
        BY <2>8, <4>1, EntriesAreSized DEF Stored
    <3>2. k \in Stored' /\ Stored' \ {k} = Stored \ out
      BY <2>3, <2>6
    <3>3. Total(entry', Stored') = entry'[k].bytes + Total(entry', Stored' \ {k})
      BY <3>1, <3>2, TotalWithout
    <3> DEFINE rest == Total(entry', Stored \ out)
               gone == SizeOf(out)
    <3>4. bytes - gone \in Nat /\ rest = bytes - gone /\ bytes' = (bytes - gone) + size
      BY <2>4, <2>9
    <3>5. Total(entry', Stored') = size + rest
      BY <2>8, <3>2, <3>3
    <3> HIDE DEF rest, gone
    <3> QED
      BY <2>1, <3>4, <3>5
  <2> QED
    BY <2>2, <2>3, <2>4, <2>6, <2>7, <2>8, <2>10 DEF StoreInv
<1> QED
  BY <1>2, <1>3 DEF LoadReturns

\* A load that returned or failed settles.
LEMMA Settling ==
  ASSUME CacheInv, NEW l \in Loads, load[l].pc = "loading",
         load' = [load EXCEPT ![l].pc = "settling"],
         UNCHANGED <<inFlight, flights, caller>>, StoreInv',
         \/ Stored' = Stored
         \/ ~load[l].abandoned /\ Stored' \subseteq Stored \cup {load[l].key}
  PROVE  CacheInv'
<1>1. /\ load' \in [Loads -> Load] /\ load'[l].pc = "settling"
      /\ \A m \in Loads \ {l} : load'[m] = load[m]
      /\ \A m \in Loads : /\ load'[m].key = load[m].key /\ load'[m].waiters = load[m].waiters
                          /\ load'[m].abandoned = load[m].abandoned
  BY DEF CacheInv, FlightsInv, Load
<1>2. Loading' = Loading
  BY <1>1 DEF Loading, Running
<1>3. \A m \in Loads : load'[m].pc = "loading" /\ ~load'[m].abandoned =>
        flights'[load'[m].key] = m /\ load'[m].key \notin Stored'
  <2>1. SUFFICES ASSUME NEW m \in Loads \ {l}, load[m].pc = "loading", ~load[m].abandoned
                 PROVE  flights[load[m].key] = m /\ load[m].key \notin Stored'
    BY <1>1
  <2> QED
    BY <2>1 DEF CacheInv, FlightsInv
<1>4. FlightsInv'
  <2>1. \A k \in Keys : flights[k] # None => flights[k] \in Loads
    BY DEF CacheInv, FlightsInv
  <2> QED
    BY <1>1, <1>2, <1>3, <2>1 DEF CacheInv, FlightsInv, Running
<1>5. \A m \in Loads : Joined(m)' = Joined(m)
  BY DEF Joined
<1>6. CallersInv'
  BY <1>1, <1>5 DEF CacheInv, CallersInv, NoOneAbandoned
<1> QED
  BY <1>4, <1>6 DEF CacheInv

\* A load that returns keeps the cache's invariant.
LEMMA ReturnStep ==
  ASSUME CacheInv, NEW l \in Loads, NEW size \in Sizes, LoadReturns(l, size)
  PROVE  CacheInv'
<1>1. /\ load[l].pc = "loading" /\ load' = [load EXCEPT ![l].pc = "settling"]
      /\ UNCHANGED <<inFlight, flights, caller>>
  BY DEF LoadReturns
<1>2. /\ StoreInv'
      /\ \/ Stored' = Stored
         \/ ~load[l].abandoned /\ Stored' \subseteq Stored \cup {load[l].key}
  BY ReturnKeepsStore
<1> QED
  BY <1>1, <1>2, Settling

\* A load that fails keeps the cache's invariant.
LEMMA FailStep ==
  ASSUME CacheInv, NEW l \in Loads, LoadFails(l)
  PROVE  CacheInv'
<1>1. StoreInv' /\ Stored' = Stored
  BY DEF LoadFails, CacheInv, StoreInv, Stored
<1> QED
  BY <1>1, Settling DEF LoadFails

\* A load that is over gives back its place and wakes those who wait.
LEMMA FinallyStep ==
  ASSUME CacheInv, NEW l \in Loads, LoadFinally(l)
  PROVE  CacheInv'
<1>1. StoreInv' /\ Stored' = Stored /\ caller' = caller
  BY DEF LoadFinally, CacheInv, StoreInv, Stored
<1>2. /\ load' \in [Loads -> Load] /\ load'[l].pc = "settled" /\ load[l].pc = "settling"
      /\ \A m \in Loads \ {l} : load'[m] = load[m]
      /\ \A m \in Loads : /\ load'[m].key = load[m].key /\ load'[m].waiters = load[m].waiters
                          /\ load'[m].abandoned = load[m].abandoned
  BY DEF CacheInv, FlightsInv, Load, LoadFinally
<1>3. Loading' = Loading \ {l} /\ l \in Loading
  BY <1>2 DEF Loading, Running
<1>4. IsFiniteSet(Loading') /\ inFlight' = Cardinality(Loading') /\ inFlight' <= MaxInFlight
  <2>1. IsFiniteSet(Loading) /\ Cardinality(Loading) \in Nat
    BY FS_CardinalityType DEF CacheInv, FlightsInv
  <2>2. IsFiniteSet(Loading') /\ Cardinality(Loading') = Cardinality(Loading) - 1
    BY <1>3, <2>1, FS_RemoveElement
  <2> QED
    BY <2>1, <2>2, Numbers DEF CacheInv, FlightsInv, LoadFinally, CountedDown
<1>5. load[l].key \in Keys
  BY <1>2 DEF CacheInv, FlightsInv
<1>6. /\ flights' \in [Keys -> Loads \cup {None}]
      /\ \A k \in Keys : flights'[k] = IF flights[k] = l /\ k = load[l].key THEN None ELSE flights[k]
  BY <1>5 DEF CacheInv, FlightsInv, LoadFinally, OwnFlight
<1>7. \A k \in Keys : flights[k] # None => flights[k] \in Loads
  BY DEF CacheInv, FlightsInv
<1>8. FlightsInv'
  <2>1. \A k \in Keys : flights'[k] # None =>
          /\ load'[flights'[k]].pc \in {"loading", "settling"}
          /\ load'[flights'[k]].key = k /\ ~load'[flights'[k]].abandoned
    <3>1. SUFFICES ASSUME NEW k \in Keys, flights'[k] # None
                   PROVE  /\ load'[flights[k]].pc \in {"loading", "settling"}
                          /\ load'[flights[k]].key = k /\ ~load'[flights[k]].abandoned
      BY <1>6
    <3>2. flights[k] # None /\ flights[k] \in Loads
      BY <1>6, <1>7, <3>1
    <3>3. Running(flights[k]) /\ load[flights[k]].key = k /\ ~load[flights[k]].abandoned
      BY <3>2 DEF CacheInv, FlightsInv
    <3>4. flights[k] # l
      BY <1>6, <3>1, <3>3
    <3> QED
      BY <1>2, <3>2, <3>3, <3>4 DEF Running
  <2>2. \A m \in Loads : load'[m].pc # "none" => load'[m].key \in Keys
    BY <1>2 DEF CacheInv, FlightsInv
  <2>3. \A m \in Loads : load'[m].pc = "loading" /\ ~load'[m].abandoned =>
          flights'[load'[m].key] = m /\ load'[m].key \notin Stored'
    <3>1. SUFFICES ASSUME NEW m \in Loads \ {l}, load[m].pc = "loading", ~load[m].abandoned
                   PROVE  flights'[load[m].key] = m /\ load[m].key \notin Stored'
      BY <1>2
    <3> QED
      BY <1>1, <1>6, <3>1 DEF CacheInv, FlightsInv
  <2> QED
    BY <1>2, <1>4, <1>6, <2>1, <2>2, <2>3 DEF FlightsInv, Running
<1>9. \A m \in Loads : Joined(m)' = Joined(m)
  BY <1>1 DEF Joined
<1>10. CallersInv'
  BY <1>1, <1>2, <1>9 DEF CacheInv, CallersInv, NoOneAbandoned
<1> QED
  BY <1>1, <1>8, <1>10 DEF CacheInv

\* A caller that waits begins to leave.
LEMMA LeavingStep ==
  ASSUME CacheInv, NEW c \in Callers, caller[c].pc = "waiting",
         caller' = [caller EXCEPT ![c].pc = "leaving"],
         UNCHANGED <<order, entry, bytes, inFlight, flights, load>>
  PROVE  CacheInv'
<1>1. StoreInv' /\ FlightsInv'
  BY DEF CacheInv, StoreInv, FlightsInv, Stored, Loading, Running
<1>2. /\ caller' \in [Callers -> Caller] /\ caller'[c].pc = "leaving"
      /\ \A d \in Callers \ {c} : caller'[d] = caller[d]
      /\ \A d \in Callers : caller'[d].load = caller[d].load
  BY DEF CacheInv, CallersInv, Caller
<1>3. \A l \in Loads : Joined(l)' = Joined(l)
  BY <1>2 DEF Joined
<1>4. CallersInv'
  BY <1>2, <1>3 DEF CacheInv, CallersInv, NoOneAbandoned
<1> QED
  BY <1>1, <1>4 DEF CacheInv

\* A caller that leaves is no longer counted, and the last one abandons the load.
LEMMA LeaveStep ==
  ASSUME CacheInv, NEW c \in Callers, Leave(c)
  PROVE  CacheInv'
<1> DEFINE l == caller[c].load
           last == load[l].waiters = 1 /\ OwnFlight(l)
<1>1. StoreInv' /\ Stored' = Stored /\ inFlight' = inFlight
  BY DEF Leave, CacheInv, StoreInv, Stored
<1>2. l \in Loads /\ load[l].pc # "none" /\ load[l].key \in Keys /\ caller[c].pc = "leaving"
  BY DEF Leave, CacheInv, CallersInv, FlightsInv
<1>3. c \in Joined(l) /\ IsFiniteSet(Joined(l)) /\ load[l].waiters = Cardinality(Joined(l))
  BY <1>2 DEF CacheInv, CallersInv, Joined
<1>4. load[l].waiters \in Nat /\ load[l].waiters # 0
  BY <1>3, FS_CardinalityType, FS_EmptySet
<1>5. /\ load' = [load EXCEPT ![l].waiters = @ - 1, ![l].abandoned = @ \/ last]
      /\ caller' = [caller EXCEPT ![c] = NoCaller]
      /\ flights' = IF last THEN [flights EXCEPT ![load[l].key] = None] ELSE flights
  BY DEF Leave, FlightsWithout
<1> HIDE DEF last
<1>6. /\ load' \in [Loads -> Load] /\ load'[l].waiters = load[l].waiters - 1
      /\ load'[l].abandoned <=> load[l].abandoned \/ last
      /\ \A m \in Loads \ {l} : load'[m] = load[m]
      /\ \A m \in Loads : load'[m].key = load[m].key /\ load'[m].pc = load[m].pc
  <2>1. load[l].waiters - 1 \in Nat /\ (load[l].abandoned \/ last) \in BOOLEAN
    BY <1>4
  <2>2. load \in [Loads -> Load]
    BY DEF CacheInv, FlightsInv
  <2> QED
    BY <1>2, <1>5, <2>1, <2>2 DEF Load
<1>7. Loading' = Loading
  BY <1>6 DEF Loading, Running
<1>8. last => load[l].waiters = 1 /\ flights[load[l].key] = l
  BY DEF last, OwnFlight
<1>9. /\ flights' \in [Keys -> Loads \cup {None}]
      /\ \A k \in Keys : flights'[k] = IF last /\ k = load[l].key THEN None ELSE flights[k]
  BY <1>2, <1>5 DEF CacheInv, FlightsInv
<1>10. \A k \in Keys : flights[k] # None => flights[k] \in Loads
  BY DEF CacheInv, FlightsInv
<1>11. FlightsInv'
  <2>1. \A k \in Keys : flights'[k] # None =>
          /\ load'[flights'[k]].pc \in {"loading", "settling"}
          /\ load'[flights'[k]].key = k /\ ~load'[flights'[k]].abandoned
    <3>1. SUFFICES ASSUME NEW k \in Keys, flights'[k] # None
                   PROVE  /\ load'[flights[k]].pc \in {"loading", "settling"}
                          /\ load'[flights[k]].key = k /\ ~load'[flights[k]].abandoned
      BY <1>9
    <3>2. flights[k] # None /\ flights[k] \in Loads
      BY <1>9, <1>10, <3>1
    <3>3. Running(flights[k]) /\ load[flights[k]].key = k /\ ~load[flights[k]].abandoned
      BY <3>2 DEF CacheInv, FlightsInv
    <3>4. last => flights[k] # l
      BY <1>9, <3>1, <3>3
    <3> QED
      BY <1>6, <3>2, <3>3, <3>4 DEF Running
  <2>2. \A m \in Loads : load'[m].pc # "none" => load'[m].key \in Keys
    BY <1>6 DEF CacheInv, FlightsInv
  <2>3. \A m \in Loads : load'[m].pc = "loading" /\ ~load'[m].abandoned =>
          flights'[load'[m].key] = m /\ load'[m].key \notin Stored'
    <3>1. SUFFICES ASSUME NEW m \in Loads, load[m].pc = "loading", ~load[m].abandoned,
                          ~(m = l /\ last)
                   PROVE  flights'[load[m].key] = m /\ load[m].key \notin Stored
      BY <1>1, <1>6
    <3>2. flights[load[m].key] = m /\ load[m].key \notin Stored /\ load[m].key \in Keys
      BY <3>1 DEF CacheInv, FlightsInv
    <3>3. ~(last /\ load[m].key = load[l].key)
      BY <1>8, <3>1, <3>2
    <3> QED
      BY <1>9, <3>2, <3>3
  <2> QED
    BY <1>1, <1>6, <1>7, <1>9, <2>1, <2>2, <2>3 DEF CacheInv, FlightsInv, Running
<1>12. /\ caller' \in [Callers -> Caller] /\ caller'[c].pc = "idle"
       /\ \A d \in Callers \ {c} : caller'[d] = caller[d]
  BY <1>5 DEF CacheInv, CallersInv, Caller, NoCaller
<1>13. \A m \in Loads : Joined(m)' = IF m = l THEN Joined(m) \ {c} ELSE Joined(m)
  BY <1>2, <1>12 DEF Joined
<1>14. \A m \in Loads : IsFiniteSet(Joined(m)') /\ load'[m].waiters = Cardinality(Joined(m)')
  BY <1>2, <1>3, <1>6, <1>13, FS_RemoveElement DEF CacheInv, CallersInv
<1>15. ASSUME NEW d \in Callers \ {c}, caller[d].pc = "waiting", caller[d].load = l
       PROVE  ~last
  <2>1. d \in Joined(l)
    BY <1>15 DEF Joined
  <2>2. Cardinality(Joined(l)) # 1
    BY <1>3, <2>1, FS_Singleton
  <2> QED
    BY <1>3, <1>8, <2>2
<1>16. CallersInv'
  BY <1>2, <1>6, <1>12, <1>14, <1>15 DEF CacheInv, CallersInv, NoOneAbandoned
<1> QED
  BY <1>1, <1>11, <1>16 DEF CacheInv

\* The deadline of a load keeps the cache's invariant.
LEMMA TimeoutStep ==
  ASSUME CacheInv, NEW l \in Loads, Timeout(l)
  PROVE  CacheInv'
<1>1. StoreInv' /\ Stored' = Stored
  BY DEF Timeout, CacheInv, StoreInv, Stored
<1>2. /\ load' \in [Loads -> Load]
      /\ \A m \in Loads : /\ load'[m].pc = load[m].pc /\ load'[m].key = load[m].key
                          /\ load'[m].abandoned = load[m].abandoned
                          /\ load'[m].waiters = load[m].waiters
  <2>1. load \in [Loads -> Load] /\ load' = [load EXCEPT ![l] = [load[l] EXCEPT !.timedOut = TRUE]]
    BY Zenon DEF Timeout, CacheInv, FlightsInv
  <2>2. ASSUME NEW x \in Load, NEW y, y = [x EXCEPT !.timedOut = TRUE]
        PROVE  /\ y \in Load /\ y.pc = x.pc /\ y.key = x.key
               /\ y.abandoned = x.abandoned /\ y.waiters = x.waiters
    BY <2>2 DEF Load
  <2> QED
    BY <2>1, <2>2
<1>3. FlightsInv'
  BY <1>1, <1>2, FlightsGoOn DEF Timeout, CacheInv
<1>4. \A m \in Loads : Joined(m)' = Joined(m)
  BY DEF Joined, Timeout
<1>5. CallersInv'
  <2>1. caller' = caller
    BY DEF Timeout
  <2>2. \A m \in Loads : IsFiniteSet(Joined(m)') /\ load'[m].waiters = Cardinality(Joined(m)')
    BY <1>2, <1>4 DEF CacheInv, CallersInv
  <2>3. \A c \in Callers : caller[c].pc # "idle" => caller[c].load \in Loads
    BY DEF CacheInv, CallersInv
  <2>4. NoOneAbandoned'
    BY <1>2, <2>1, <2>3 DEF CacheInv, CallersInv, NoOneAbandoned
  <2> QED
    BY <1>2, <2>1, <2>2, <2>4 DEF CacheInv, CallersInv
<1> QED
  BY <1>1, <1>3, <1>5 DEF CacheInv

\* The passing of an entry's lifetime keeps the cache's invariant.
LEMMA ExpireStep ==
  ASSUME CacheInv, NEW k \in Keys, Expire(k)
  PROVE  CacheInv'
<1>1. Stored' = Stored
  BY DEF Expire, Stored
<1>2. entry' \in [Keys -> Entry] /\ \A j \in Keys : entry'[j].bytes = entry[j].bytes
  BY DEF Expire, CacheInv, StoreInv, Entry
<1>3. IsFiniteSet(Stored) /\ Stored \in SUBSET Keys /\ Sized(entry, Stored)
  BY StoredIsSized DEF CacheInv, StoreInv
<1>4. Total(entry', Stored) = Total(entry, Stored)
  BY <1>2, <1>3, TotalSame
<1>5. StoreInv'
  BY <1>1, <1>2, <1>4 DEF Expire, CacheInv, StoreInv
<1>6. FlightsInv' /\ CallersInv'
  BY <1>1 DEF Expire, CacheInv, FlightsInv, CallersInv, Loading, Running, Joined, NoOneAbandoned
<1> QED
  BY <1>5, <1>6 DEF CacheInv
--------------------------------------------------------------------------------
(* The operations, and what the credential of an answer depends on. *)

\* Versions count changes, and a connection that exists has been created.
SharedInv ==
  /\ SharedTypeOK
  /\ row.version + changes <= MaxChanges
  /\ connector.version >= 1 /\ connector.version + changes <= MaxChanges + 1
  /\ row.exists => row.version >= 1

Counting == {p \in Callers : Counted(p)}

OperationsInv ==
  /\ op \in [Callers -> Operation] /\ requests \in 0 .. MaxRequests
  /\ \A p \in Callers : At(p, "cache") <=> caller[p].pc # "idle"
  /\ IsFiniteSet(Counting) /\ total = Cardinality(Counting) /\ total <= MaxOperations

\* A credential taken or listed under a version of the connection is the stored one for as
\* long as that is the version of the connection.
IsOf(version, credential) ==
  credential # NoCredential =>
    version <= row.version /\ (row.exists /\ version = row.version => credential = sealed)

SeenVersions(hand) ==
  /\ 1 <= hand.version /\ hand.version <= row.version
  /\ 1 <= hand.connector /\ hand.connector <= connector.version

PinnedOperation(o) ==
  /\ o.pc # "idle" => SeenVersions(o.hand)
  /\ o.pc \notin {"idle", "observed"} => o.hand.credential # NoCredential
  /\ IsOf(o.hand.version, o.hand.credential) /\ IsOf(o.hand.version, o.listed)

PinnedInv ==
  /\ \A p \in Callers : PinnedOperation(op[p])
  /\ \A p \in Callers : At(p, "cache") => load[caller[p].load].key = ToolCatalogKey(op[p].hand)

FlightInv ==
  /\ flight \in [Loads -> Flight] /\ catalog \in [Keys -> Listed]
  /\ \A l \in Loads : load[l].pc = "loading" =>
       /\ load[l].key = ToolCatalogKey(flight[l].hand)
       /\ IsOf(flight[l].hand.version, flight[l].hand.credential)
  /\ \A l \in Loads : flight[l].listed # NoCredential =>
       load[l].key \in Keys /\ IsOf(load[l].key[1], flight[l].listed)
  /\ \A k \in Keys : IsOf(k[1], catalog[k])

Inv == CacheInv /\ SharedInv /\ OperationsInv /\ PinnedInv /\ FlightInv
--------------------------------------------------------------------------------
(* Records. *)

\* The fields of an operation.
LEMMA OperationFields ==
  ASSUME NEW o \in Operation
  PROVE  /\ o.pc \in {"idle", "observed", "opened", "authorized", "cache", "listed", "session",
                      "dispatch", "answer"}
         /\ o.hand \in InHand /\ o.listed \in Listed
         /\ o.hand.version \in Nat /\ o.hand.connector \in Nat /\ o.hand.credential \in Listed
BY DEF Operation, InHand

\* The fields of a flight.
LEMMA FlightFields ==
  ASSUME NEW f \in Flight
  PROVE  /\ f.hand \in InHand /\ f.listed \in Listed
         /\ f.hand.version \in Nat /\ f.hand.connector \in Nat /\ f.hand.credential \in Listed
BY DEF Flight, InHand

\* An operation and a flight that have nothing in hand are well typed.
LEMMA Nothing ==
  /\ NoOperation \in Operation /\ NoOperation.pc = "idle"
  /\ NoOperation.listed = NoCredential /\ NoOperation.hand.credential = NoCredential
  /\ NoFlight \in Flight /\ NoFlight.listed = NoCredential
<1>1. NothingInHand \in InHand /\ NothingInHand.credential = NoCredential
  BY DEF NothingInHand, InHand, Listed
<1> QED
  BY <1>1 DEF NoOperation, Operation, NoFlight, Flight, Listed

\* An operation that has not begun is pinned to nothing.
LEMMA PinnedNothing == PinnedOperation(NoOperation)
BY Nothing DEF PinnedOperation, IsOf

\* The numbers that the administration counts are naturals.
LEMMA SharedFields ==
  ASSUME SharedTypeOK
  PROVE  /\ row.version \in Nat /\ row.exists \in BOOLEAN /\ connector.version \in Nat
         /\ sealed \in Listed /\ changes \in Nat /\ changes <= MaxChanges /\ MaxChanges \in Nat
BY ChangesAreBounded DEF SharedTypeOK, Row, Listed

\* The versions an operation has seen are among the keys.
LEMMA KeyOfHand ==
  ASSUME SharedInv, NEW hand \in InHand, SeenVersions(hand)
  PROVE  /\ ToolCatalogKey(hand) \in Keys /\ ToolCatalogKey(hand)[1] = hand.version
<1>1. hand.version \in Nat /\ hand.connector \in Nat
  BY DEF InHand
<1>2. hand.version \in 1 .. MaxChanges + 1 /\ hand.connector \in 1 .. MaxChanges + 1
  BY <1>1, SharedFields DEF SharedInv, SeenVersions
<1>3. <<hand.version, hand.connector>> \in Keys
  BY <1>2, KeysAreVersions
<1> QED
  BY <1>3 DEF ToolCatalogKey
--------------------------------------------------------------------------------
(* The administrators. *)

\* The administration only moves versions forward, and changes the credential with the version.
LEMMA AdministerShares ==
  ASSUME SharedInv, AdministerShared
  PROVE  /\ SharedInv'
         /\ row.version <= row'.version /\ connector.version <= connector'.version
         /\ row'.exists /\ row'.version = row.version => row.exists /\ sealed' = sealed
<1>1. /\ changes' \in 0 .. MaxChanges /\ changes' = changes - 1 /\ changes > 0
      /\ row \in Row /\ sealed \in Credentials \cup {NoCredential}
      /\ connector \in [version : Nat, enabled : BOOLEAN]
      /\ holds \in [Actors -> SUBSET UseScopes]
  <2>1. Change
    BY DEF AdministerShared, Create, SaveConfiguration, Rotate, Delete, SaveConnector, ChangeGrants
  <2>2. changes \in 0 .. MaxChanges /\ MaxChanges \in Nat
    BY ChangesAreBounded DEF SharedInv, SharedTypeOK
  <2>3. changes' \in 0 .. MaxChanges /\ changes' = changes - 1 /\ changes > 0
    BY <2>1, <2>2 DEF Change
  <2> QED
    BY <2>3 DEF SharedInv, SharedTypeOK
<1>2. row.version \in Nat /\ connector.version \in Nat /\ MaxChanges \in Nat /\ changes \in Nat
  BY SharedFields DEF SharedInv
<1>3. CASE Create
  <2>1. row.version = 0 /\ row.exists = FALSE /\ connector' = connector /\ holds' = holds
    BY <1>3 DEF Create, NoRow
  <2>2. row' \in Row /\ row'.version = 1 /\ sealed' \in Credentials \cup {NoCredential}
    BY <1>3 DEF Create, Row
  <2> QED
    BY <1>1, <1>2, <2>1, <2>2 DEF SharedInv, SharedTypeOK
<1>4. CASE SaveConfiguration
  <2>1. /\ row' \in Row /\ row'.version = row.version + 1 /\ row'.exists = row.exists
        /\ sealed' = sealed /\ connector' = connector /\ holds' = holds
    <3>1. PICK scopes \in (SUBSET UseScopes) \ {{}}, enabled \in BOOLEAN :
            row' = [row EXCEPT !.useScopes = scopes, !.enabled = enabled, !.version = @ + 1]
      BY <1>4 DEF SaveConfiguration
    <3>2. row.version + 1 \in Nat
      BY <1>2
    <3>3. row' \in Row /\ row'.version = row.version + 1 /\ row'.exists = row.exists
      BY <1>1, <3>1, <3>2 DEF Row
    <3> QED
      BY <1>4, <3>3 DEF SaveConfiguration
  <2> QED
    BY <1>1, <1>2, <2>1 DEF SharedInv, SharedTypeOK
<1>5. CASE Rotate
  <2>1. /\ row' \in Row /\ row'.version = row.version + 1 /\ row'.exists = row.exists
        /\ connector' = connector /\ holds' = holds
        /\ sealed' \in Credentials \cup {NoCredential}
    <3>1. row' = [row EXCEPT !.version = @ + 1]
      BY <1>5 DEF Rotate
    <3>2. row.version + 1 \in Nat
      BY <1>2
    <3>3. row' \in Row /\ row'.version = row.version + 1 /\ row'.exists = row.exists
      BY <1>1, <3>1, <3>2 DEF Row
    <3> QED
      BY <1>5, <3>3 DEF Rotate
  <2> QED
    BY <1>1, <1>2, <2>1 DEF SharedInv, SharedTypeOK
<1>6. CASE Delete
  <2>1. /\ row' \in Row /\ row'.version = row.version /\ row'.exists = FALSE
        /\ connector' = connector /\ holds' = holds /\ sealed' = NoCredential
    BY <1>1, <1>6 DEF Delete, Row
  <2> QED
    BY <1>1, <1>2, <2>1 DEF SharedInv, SharedTypeOK
<1>7. CASE SaveConnector
  <2>1. /\ row' = row /\ sealed' = sealed /\ holds' = holds
        /\ connector' \in [version : Nat, enabled : BOOLEAN]
        /\ connector'.version = connector.version + 1
    BY <1>1, <1>2, <1>7 DEF SaveConnector
  <2> QED
    BY <1>1, <1>2, <2>1 DEF SharedInv, SharedTypeOK
<1>8. CASE ChangeGrants
  <2>1. /\ row' = row /\ sealed' = sealed /\ connector' = connector
        /\ holds' \in [Actors -> SUBSET UseScopes]
    BY <1>1, <1>8 DEF ChangeGrants
  <2> QED
    BY <1>1, <1>2, <2>1 DEF SharedInv, SharedTypeOK
<1> QED
  BY <1>3, <1>4, <1>5, <1>6, <1>7, <1>8 DEF AdministerShared

\* A step of the administration keeps what every operation and flight is pinned to.
LEMMA AdministerStep ==
  ASSUME Inv, AdministerShared, UNCHANGED <<cacheVars, brokerVars>>
  PROVE  Inv'
<1>1. /\ SharedInv'
      /\ row.version <= row'.version /\ connector.version <= connector'.version
      /\ row'.exists /\ row'.version = row.version => row.exists /\ sealed' = sealed
  BY AdministerShares DEF Inv
<1>2. /\ row.version \in Nat /\ row'.version \in Nat
      /\ connector.version \in Nat /\ connector'.version \in Nat
  BY <1>1 DEF Inv, SharedInv, SharedTypeOK, Row
<1>3. ASSUME NEW v \in Nat, NEW c, IsOf(v, c)
      PROVE  IsOf(v, c)'
  BY <1>1, <1>2, <1>3 DEF IsOf
<1>4. ASSUME NEW hand \in InHand, SeenVersions(hand)
      PROVE  SeenVersions(hand)'
  BY <1>1, <1>2, <1>4 DEF SeenVersions, InHand
<1>5. ASSUME NEW o \in Operation, PinnedOperation(o)
      PROVE  PinnedOperation(o)'
  BY <1>3, <1>4, <1>5, OperationFields DEF PinnedOperation
<1>6. CacheInv' /\ OperationsInv'
  BY DEF Inv, CacheInv, StoreInv, FlightsInv, CallersInv, OperationsInv, cacheVars, brokerVars,
         Stored, Loading, Running, Joined, NoOneAbandoned, Counting, Counted, At
<1>7. PinnedInv'
  <2>1. ASSUME NEW p \in Callers
        PROVE  PinnedOperation(op[p])'
    <3>1. PinnedOperation(op[p]) /\ op[p] \in Operation /\ op' = op
      BY DEF Inv, PinnedInv, OperationsInv, brokerVars
    <3> QED
      BY <1>3, <1>4, <3>1, OperationFields DEF PinnedOperation
  <2> QED
    BY <2>1 DEF Inv, PinnedInv, cacheVars, brokerVars, At
<1>8. FlightInv'
  <2>1. flight' = flight /\ catalog' = catalog /\ load' = load
    BY DEF cacheVars, brokerVars
  <2>2. ASSUME NEW l \in Loads, load[l].pc = "loading"
        PROVE  IsOf(flight[l].hand.version, flight[l].hand.credential)'
    <3>1. flight[l].hand.version \in Nat /\ IsOf(flight[l].hand.version, flight[l].hand.credential)
      BY <2>2, FlightFields DEF Inv, FlightInv
    <3> QED
      BY <1>1, <1>2, <2>1, <3>1 DEF IsOf
  <2>3. ASSUME NEW l \in Loads, flight[l].listed # NoCredential
        PROVE  IsOf(load[l].key[1], flight[l].listed)'
    <3>1. load[l].key[1] \in Nat /\ IsOf(load[l].key[1], flight[l].listed)
      BY <2>3, KeysAreVersions DEF Inv, FlightInv
    <3> QED
      BY <1>1, <1>2, <2>1, <3>1 DEF IsOf
  <2>4. ASSUME NEW k \in Keys
        PROVE  IsOf(k[1], catalog[k])'
    <3>1. k[1] \in Nat /\ IsOf(k[1], catalog[k])
      BY KeysAreVersions DEF Inv, FlightInv
    <3> QED
      BY <1>1, <1>2, <2>1, <3>1 DEF IsOf
  <2> QED
    BY <2>1, <2>2, <2>3, <2>4 DEF Inv, FlightInv
<1> QED
  BY <1>1, <1>6, <1>7, <1>8 DEF Inv
--------------------------------------------------------------------------------
(* The steps of an operation. *)

\* One operation moves: what its new state must be for the invariant to hold.
LEMMA OperationMoves ==
  ASSUME Inv, UNCHANGED sharedVars, NEW p \in Callers,
         op' \in [Callers -> Operation], \A q \in Callers \ {p} : op'[q] = op[q],
         requests' \in 0 .. MaxRequests,
         \A q \in Callers \ {p} : caller'[q] = caller[q],
         op'[p].pc = "cache" <=> caller'[p].pc # "idle",
         \A l \in Loads : load[l].waiters # 0 => load'[l].key = load[l].key,
         op'[p].pc = "cache" => load'[caller'[p].load].key = ToolCatalogKey(op'[p].hand),
         PinnedOperation(op'[p]),
         \/ (Counted(p) <=> Counted(p)') /\ total' = total
         \/ Counted(p) /\ ~Counted(p)' /\ total' = total - 1
         \/ ~Counted(p) /\ Counted(p)' /\ total' = total + 1 /\ HasRoom
  PROVE  OperationsInv' /\ PinnedInv'
<1>1. IsFiniteSet(Counting) /\ Cardinality(Counting) \in Nat /\ total = Cardinality(Counting)
  BY FS_CardinalityType DEF Inv, OperationsInv
<1>2. Counting' = IF Counted(p)' THEN Counting \cup {p} ELSE Counting \ {p}
  BY DEF Counting, Counted
<1>3. p \in Counting <=> Counted(p)
  BY DEF Counting
<1>4. total <= MaxOperations /\ MaxOperations \in Nat
  BY OperationsBounded DEF Inv, OperationsInv
<1>5. IsFiniteSet(Counting') /\ total' = Cardinality(Counting') /\ total' <= MaxOperations
  <2>1. CASE (Counted(p) <=> Counted(p)') /\ total' = total
    <3>1. Counting' = Counting
      BY <1>2, <1>3, <2>1
    <3> QED
      BY <1>1, <1>4, <2>1, <3>1
  <2>2. CASE Counted(p) /\ ~Counted(p)' /\ total' = total - 1
    <3>1. Counting' = Counting \ {p} /\ p \in Counting
      BY <1>2, <1>3, <2>2
    <3>2. IsFiniteSet(Counting') /\ Cardinality(Counting') = Cardinality(Counting) - 1
      BY <1>1, <3>1, FS_RemoveElement
    <3> QED
      BY <1>1, <1>4, <2>2, <3>2
  <2>3. CASE ~Counted(p) /\ Counted(p)' /\ total' = total + 1 /\ HasRoom
    <3>1. Counting' = Counting \cup {p} /\ p \notin Counting
      BY <1>2, <1>3, <2>3
    <3>2. IsFiniteSet(Counting') /\ Cardinality(Counting') = Cardinality(Counting) + 1
      BY <1>1, <3>1, FS_AddElement
    <3> QED
      BY <1>1, <1>4, <2>3, <3>2 DEF HasRoom
  <2> QED
    BY <2>1, <2>2, <2>3
<1>6. \A q \in Callers : At(q, "cache")' <=> caller'[q].pc # "idle"
  BY DEF Inv, OperationsInv, At
<1>7. OperationsInv'
  BY <1>5, <1>6 DEF OperationsInv
<1>8. \A q \in Callers : PinnedOperation(op[q])'
  <2>1. \A q \in Callers : PinnedOperation(op'[q])
    BY DEF Inv, PinnedInv
  <2> QED
    BY <2>1 DEF PinnedOperation, SeenVersions, IsOf, sharedVars
<1>9. \A q \in Callers : At(q, "cache")' => load'[caller'[q].load].key = ToolCatalogKey(op'[q].hand)
  <2>1. SUFFICES ASSUME NEW q \in Callers \ {p}, op[q].pc = "cache"
                 PROVE  load'[caller[q].load].key = ToolCatalogKey(op[q].hand)
    BY DEF At
  <2>2. caller[q].pc # "idle" /\ caller[q].load \in Loads
    BY <2>1 DEF Inv, OperationsInv, CacheInv, CallersInv, At
  <2>3. q \in Joined(caller[q].load)
    BY <2>2 DEF Joined
  <2>4. load[caller[q].load].waiters # 0
    BY <2>2, <2>3, FS_EmptySet DEF Inv, CacheInv, CallersInv
  <2> QED
    BY <2>1, <2>2, <2>4 DEF Inv, PinnedInv, At
<1>10. PinnedInv'
  <2>1. (\A q \in Callers : PinnedOperation(op[q]))'
    BY <1>8
  <2>2. (\A q \in Callers : At(q, "cache") => load[caller[q].load].key = ToolCatalogKey(op[q].hand))'
    BY <1>9 DEF At, ToolCatalogKey
  <2> QED
    BY <2>1, <2>2 DEF PinnedInv
<1> QED
  BY <1>7, <1>10

\* The flights are untouched by what changes none of them.
LEMMA SameFlights ==
  ASSUME FlightInv, UNCHANGED <<load, sharedVars, flight, catalog>>
  PROVE  FlightInv'
BY DEF FlightInv, IsOf, sharedVars

\* The cache's invariant holds on when the cache is unchanged.
LEMMA SameCache ==
  ASSUME CacheInv, UNCHANGED cacheVars
  PROVE  CacheInv'
<1>1. StoreInv'
  BY DEF CacheInv, StoreInv, cacheVars, Stored
<1>2. FlightsInv'
  BY DEF CacheInv, FlightsInv, cacheVars, Stored, Loading, Running
<1>3. CallersInv'
  BY DEF CacheInv, CallersInv, cacheVars, Joined, NoOneAbandoned
<1> QED
  BY <1>1, <1>2, <1>3 DEF CacheInv

\* It moves without the cache.
LEMMA PlainMove ==
  ASSUME Inv, UNCHANGED <<cacheVars, sharedVars, flight, catalog>>, NEW p \in Callers,
         op' \in [Callers -> Operation], \A q \in Callers \ {p} : op'[q] = op[q],
         requests' \in 0 .. MaxRequests, ~At(p, "cache"), op'[p].pc # "cache",
         PinnedOperation(op'[p]),
         \/ (Counted(p) <=> Counted(p)') /\ total' = total
         \/ Counted(p) /\ ~Counted(p)' /\ total' = total - 1
         \/ ~Counted(p) /\ Counted(p)' /\ total' = total + 1 /\ HasRoom
  PROVE  Inv'
<1>1. caller' = caller /\ load' = load
  BY DEF cacheVars
<1>2. caller[p].pc = "idle"
  BY DEF Inv, OperationsInv
<1>3. OperationsInv' /\ PinnedInv'
  BY <1>1, <1>2, OperationMoves
<1>4. CacheInv'
  BY SameCache DEF Inv
<1>5. SharedInv'
  BY DEF Inv, SharedInv, SharedTypeOK, sharedVars
<1>6. FlightInv'
  BY <1>1, SameFlights DEF Inv
<1> QED
  BY <1>3, <1>4, <1>5, <1>6 DEF Inv

\* A new state of an operation that is only another place of its program.
LEMMA Goes ==
  ASSUME Inv, NEW p \in Callers, NEW pc \in {"idle", "observed", "opened", "authorized", "cache",
                                             "listed", "session", "dispatch", "answer"},
         Goto(p, pc)
  PROVE  /\ op' \in [Callers -> Operation] /\ \A q \in Callers \ {p} : op'[q] = op[q]
         /\ op'[p].pc = pc /\ op'[p].hand = op[p].hand /\ op'[p].listed = op[p].listed
<1>1. op \in [Callers -> Operation] /\ op' = [op EXCEPT ![p].pc = pc]
  BY DEF Inv, OperationsInv, Goto
<1> QED
  BY <1>1 DEF Operation

\* An operation that keeps what it has in hand stays pinned to it.
LEMMA GoesPinned ==
  ASSUME Inv, NEW p \in Callers, op[p].pc \notin {"idle", "observed"},
         op'[p].hand = op[p].hand, op'[p].listed = op[p].listed
  PROVE  PinnedOperation(op'[p])
BY DEF Inv, PinnedInv, PinnedOperation

\* An operation that ends is counted no longer.
LEMMA Ends ==
  ASSUME Inv, NEW p \in Callers, End(p)
  PROVE  /\ op' \in [Callers -> Operation] /\ \A q \in Callers \ {p} : op'[q] = op[q]
         /\ op'[p].pc = "idle" /\ PinnedOperation(op'[p])
         /\ \/ ~Counted(p) /\ ~Counted(p)' /\ total' = total
            \/ Counted(p) /\ ~Counted(p)' /\ total' = total - 1
<1>1. op \in [Callers -> Operation] /\ op' = [op EXCEPT ![p] = NoOperation]
  BY DEF Inv, OperationsInv, End
<1>2. op'[p] = NoOperation
  BY <1>1
<1> QED
  BY <1>1, <1>2, Nothing, PinnedNothing DEF End, Counted

\* Reading the connection keeps the invariant.
LEMMA ResolveStep ==
  ASSUME Inv, NEW p \in Callers, Resolve(p)
  PROVE  Inv'
<1>1. PICK a \in Actors :
        /\ Usable(a)
        /\ op' = [op EXCEPT ![p] = [NoOperation EXCEPT !.pc = "observed", !.hand.actor = a,
                                                       !.hand.version = row.version,
                                                       !.hand.connector = connector.version]]
  BY DEF Resolve
<1> DEFINE x == [NoOperation EXCEPT !.pc = "observed", !.hand.actor = a,
                                    !.hand.version = row.version,
                                    !.hand.connector = connector.version]
<1>2. row.version \in Nat /\ connector.version \in Nat /\ 1 <= row.version /\ 1 <= connector.version
  BY <1>1, SharedFields DEF Inv, SharedInv, Usable
<1>3. /\ x \in Operation /\ x.pc = "observed" /\ x.listed = NoCredential
      /\ x.hand.version = row.version /\ x.hand.connector = connector.version
      /\ x.hand.credential = NoCredential
  BY <1>2 DEF NoOperation, NothingInHand, Operation, InHand, Listed
<1> HIDE DEF x
<1>4. op' \in [Callers -> Operation] /\ op'[p] = x /\ \A q \in Callers \ {p} : op'[q] = op[q]
  BY <1>1, <1>3 DEF Inv, OperationsInv, x
<1>5. PinnedOperation(x)
  BY <1>2, <1>3 DEF PinnedOperation, SeenVersions, IsOf
<1>6. requests' \in 0 .. MaxRequests
  BY OperationsBounded DEF Resolve, Inv, OperationsInv
<1>7. ~Counted(p) /\ ~Counted(p)' /\ total' = total /\ ~At(p, "cache")
  BY <1>3, <1>4 DEF Counted, Resolve, At
<1> QED
  BY <1>3, <1>4, <1>5, <1>6, <1>7, PlainMove DEF Resolve

\* Opening the credential keeps the invariant.
LEMMA OpenStep ==
  ASSUME Inv, NEW p \in Callers, Open(p)
  PROVE  Inv'
<1>1. /\ op[p].pc = "observed" /\ sealed # NoCredential
      /\ op' = [op EXCEPT ![p].pc = "opened", ![p].hand.credential = sealed]
      /\ UNCHANGED <<cacheVars, sharedVars, flight, catalog, total, requests>>
  BY DEF Open, At
<1>2. op \in [Callers -> Operation] /\ op[p] \in Operation /\ sealed \in Listed
  BY SharedFields DEF Inv, OperationsInv, SharedInv
<1>3. /\ op' \in [Callers -> Operation] /\ \A q \in Callers \ {p} : op'[q] = op[q]
      /\ op'[p].pc = "opened" /\ op'[p].listed = op[p].listed
      /\ op'[p].hand.version = op[p].hand.version /\ op'[p].hand.connector = op[p].hand.connector
      /\ op'[p].hand.credential = sealed
  BY <1>1, <1>2 DEF Operation, InHand
<1>4. PinnedOperation(op'[p])
  BY <1>1, <1>3 DEF Inv, PinnedInv, PinnedOperation, SeenVersions, IsOf
<1>5. ~Counted(p) /\ ~Counted(p)' /\ total' = total /\ ~At(p, "cache") /\ op'[p].pc # "cache"
  BY <1>1, <1>3 DEF Counted, At
<1>6. requests' \in 0 .. MaxRequests
  BY <1>1 DEF Inv, OperationsInv
<1> QED
  BY <1>1, <1>3, <1>4, <1>5, <1>6, PlainMove

\* An operation goes on, by itself.
LEMMA GoesOn ==
  ASSUME Inv, NEW p \in Callers, NEW pc \in {"authorized", "listed", "session", "dispatch", "answer"},
         op[p].pc \notin {"idle", "observed", "cache"}, Goto(p, pc),
         UNCHANGED <<cacheVars, sharedVars, flight, catalog, requests>>,
         \/ (Counted(p) <=> pc \in {"listed", "session", "dispatch"}) /\ total' = total
         \/ Counted(p) /\ pc \notin {"listed", "session", "dispatch"} /\ total' = total - 1
         \/ ~Counted(p) /\ pc \in {"listed", "session", "dispatch"} /\ total' = total + 1 /\ HasRoom
  PROVE  Inv'
<1>1. /\ op' \in [Callers -> Operation] /\ \A q \in Callers \ {p} : op'[q] = op[q]
      /\ op'[p].pc = pc /\ op'[p].hand = op[p].hand /\ op'[p].listed = op[p].listed
  BY Goes
<1>2. PinnedOperation(op'[p])
  BY <1>1, GoesPinned
<1>3. Counted(p)' <=> pc \in {"listed", "session", "dispatch"}
  BY <1>1 DEF Counted
<1>4. requests' \in 0 .. MaxRequests /\ ~At(p, "cache") /\ op'[p].pc # "cache"
  BY <1>1 DEF Inv, OperationsInv, At
<1> QED
  BY <1>1, <1>2, <1>3, <1>4, PlainMove

\* Authorizing an operation keeps the invariant.
LEMMA AuthorizeStep ==
  ASSUME Inv, NEW p \in Callers, Authorize(p)
  PROVE  Inv'
<1>1. op[p].pc = "opened" /\ ~Counted(p)
  BY DEF Authorize, At, Counted
<1> QED
  BY <1>1, GoesOn DEF Authorize

\* Beginning a session keeps the invariant.
LEMMA UseSessionStep ==
  ASSUME Inv, NEW p \in Callers, UseSession(p)
  PROVE  Inv'
<1>1. op[p].pc = "authorized" /\ ~Counted(p)
  BY DEF UseSession, At, Counted
<1> QED
  BY <1>1, GoesOn DEF UseSession

\* The check before an answer keeps the invariant.
LEMMA RecheckStep ==
  ASSUME Inv, NEW p \in Callers, Recheck(p)
  PROVE  Inv'
<1>1. op[p].pc = "listed" /\ Counted(p)
  BY DEF Recheck, At, Counted
<1>2. UNCHANGED <<cacheVars, sharedVars, flight, catalog, requests>>
  BY DEF Recheck
<1>3. CASE Goto(p, "answer") /\ total' = total - 1
  BY <1>1, <1>2, <1>3, GoesOn
<1>4. CASE Goto(p, "session") /\ UNCHANGED total
  BY <1>1, <1>2, <1>4, GoesOn
<1> QED
  BY <1>3, <1>4 DEF Recheck

\* The check before a request keeps the invariant.
LEMMA CheckDispatchStep ==
  ASSUME Inv, NEW p \in Callers, CheckDispatch(p)
  PROVE  Inv'
<1>1. op[p].pc = "session" /\ Counted(p)
  BY DEF CheckDispatch, At, Counted
<1> QED
  BY <1>1, GoesOn DEF CheckDispatch

\* The end of an operation keeps the invariant.
LEMMA EndStep ==
  ASSUME Inv, NEW p \in Callers, EndOperation(p)
  PROVE  Inv'
<1>1. /\ End(p) /\ op[p].pc # "cache"
      /\ UNCHANGED <<cacheVars, sharedVars, flight, catalog, requests>>
  BY DEF EndOperation
<1>2. requests' \in 0 .. MaxRequests /\ ~At(p, "cache")
  BY <1>1 DEF Inv, OperationsInv, At
<1> QED
  BY <1>1, <1>2, Ends, PlainMove
--------------------------------------------------------------------------------
(* The steps of an operation and of a load among which the cache is. *)

\* The shared rows' invariant holds on when they are unchanged.
LEMMA SameShared ==
  ASSUME SharedInv, UNCHANGED sharedVars
  PROVE  SharedInv'
BY DEF SharedInv, SharedTypeOK, sharedVars

\* An operation that asks the cache is answered, refused, or waits for its key's flight.
LEMMA UseCacheStep ==
  ASSUME Inv, NEW p \in Callers, UseCache(p)
  PROVE  Inv'
<1> DEFINE k == ToolCatalogKey(op[p].hand)
           begins(l) == load[l].pc # "loading" /\ load'[l].pc = "loading"
<1>1. /\ op[p].pc = "authorized" /\ HasRoom /\ Call(p, k)
      /\ flight' = [l \in Loads |-> IF begins(l) THEN [NoFlight EXCEPT !.pc = "begun",
                                                                       !.hand = op[p].hand]
                                    ELSE flight[l]]
      /\ catalog' = Stays(ToSet(order'))
      /\ UNCHANGED <<sharedVars, requests>>
  BY DEF UseCache, At
<1>2. /\ op[p] \in Operation /\ op[p].hand \in InHand /\ SeenVersions(op[p].hand)
      /\ IsOf(op[p].hand.version, op[p].hand.credential)
  BY <1>1, OperationFields DEF Inv, OperationsInv, PinnedInv, PinnedOperation
<1>3. k \in Keys /\ k[1] = op[p].hand.version
  BY <1>2, KeyOfHand DEF Inv
<1>4. CacheInv' /\ caller[p].pc = "idle"
  BY <1>1, <1>3, CallStep, CallMoves DEF Inv
<1>5. SharedInv'
  BY <1>1, SameShared DEF Inv
<1>6. /\ caller \in [Callers -> Caller] /\ load \in [Loads -> Load] /\ flight \in [Loads -> Flight]
      /\ catalog \in [Keys -> Listed] /\ requests' \in 0 .. MaxRequests
  BY <1>1 DEF Inv, CacheInv, CallersInv, FlightsInv, FlightInv, OperationsInv
<1>7. /\ \/ caller' = caller
         \/ /\ k \notin Stored' /\ caller'[p].pc = "waiting" /\ caller'[p].load \in Loads
            /\ load'[caller'[p].load].key = k
      /\ \A q \in Callers \ {p} : caller'[q] = caller[q]
      /\ \A l \in Loads : ~begins(l) => load'[l].key = load[l].key /\ load'[l].pc = load[l].pc
      /\ \A l \in Loads : begins(l) => load'[l].key = k /\ load[l].waiters = 0
  <2>1. CASE UNCHANGED <<inFlight, flights, load, caller>>
    BY <2>1
  <2>2. ASSUME flights[k] # None, flights[k] \in Loads, k \notin Stored',
               load' = [load EXCEPT ![flights[k]].waiters = load[flights[k]].waiters + 1],
               caller' = [caller EXCEPT ![p] = [pc |-> "waiting", load |-> flights[k]]]
        PROVE  <1>7!:
    <3>1. load[flights[k]].key = k
      BY <1>3, <2>2 DEF Inv, CacheInv, FlightsInv
    <3>2. \A l \in Loads : load'[l].key = load[l].key /\ load'[l].pc = load[l].pc
      BY <1>6, <2>2 DEF Load
    <3>3. /\ caller'[p].pc = "waiting" /\ caller'[p].load = flights[k]
          /\ \A q \in Callers \ {p} : caller'[q] = caller[q]
      BY <1>6, <2>2
    <3> QED
      BY <2>2, <3>1, <3>2, <3>3
  <2>3. ASSUME k \notin Stored', NEW l \in Loads, Free(l), load' = [load EXCEPT ![l] = Begun(k)],
               caller' = [caller EXCEPT ![p] = [pc |-> "waiting", load |-> l]]
        PROVE  <1>7!:
    <3>1. /\ load'[l].key = k /\ load'[l].pc = "loading" /\ load[l].pc # "loading"
          /\ load[l].waiters = 0
      BY <1>3, <1>6, <2>3, BegunFields DEF Free
    <3>2. \A m \in Loads \ {l} : load'[m] = load[m]
      BY <1>6, <2>3
    <3>3. /\ caller'[p].pc = "waiting" /\ caller'[p].load = l
          /\ \A q \in Callers \ {p} : caller'[q] = caller[q]
      BY <1>6, <2>3
    <3> QED
      BY <2>3, <3>1, <3>2, <3>3
  <2> HIDE DEF k, begins
  <2> QED
    BY <1>1, <1>3, <2>1, <2>2, <2>3, CallMoves DEF Inv
<1>8. FlightInv'
  <2>1. ASSUME NEW l \in Loads
        PROVE  IF begins(l)
               THEN /\ flight'[l] \in Flight /\ flight'[l].hand = op[p].hand
                    /\ flight'[l].listed = NoCredential
               ELSE flight'[l] = flight[l]
    <3>1. \A h \in InHand : LET f == [NoFlight EXCEPT !.pc = "begun", !.hand = h]
                            IN  f \in Flight /\ f.hand = h /\ f.listed = NoCredential
      BY Nothing DEF NoFlight, Flight
    <3> QED
      BY <1>1, <1>2, <3>1
  <2> HIDE DEF begins
  <2>2. flight' \in [Loads -> Flight]
    <3>1. \A l \in Loads : flight'[l] \in Flight
      BY <1>6, <2>1
    <3> QED
      BY <1>1, <3>1
  <2>3. /\ catalog' \in [Keys -> Listed]
        /\ \A j \in Keys : catalog'[j] \in {catalog[j], NoCredential}
    BY <1>1, <1>6 DEF Stays, Listed
  <2>4. \A l \in Loads : load'[l].pc = "loading" =>
          /\ load'[l].key = ToolCatalogKey(flight'[l].hand)
          /\ IsOf(flight'[l].hand.version, flight'[l].hand.credential)
    <3>1. SUFFICES ASSUME NEW l \in Loads, load'[l].pc = "loading"
                   PROVE  /\ load'[l].key = ToolCatalogKey(flight'[l].hand)
                          /\ IsOf(flight'[l].hand.version, flight'[l].hand.credential)
      OBVIOUS
    <3>2. CASE begins(l)
      BY <1>2, <1>7, <2>1, <3>2
    <3>3. CASE ~begins(l)
      BY <1>7, <2>1, <3>1, <3>3 DEF Inv, FlightInv
    <3> QED
      BY <3>2, <3>3
  <2>5. \A l \in Loads : flight'[l].listed # NoCredential =>
          load'[l].key \in Keys /\ IsOf(load'[l].key[1], flight'[l].listed)
    <3>1. SUFFICES ASSUME NEW l \in Loads, flight'[l].listed # NoCredential
                   PROVE  load'[l].key \in Keys /\ IsOf(load'[l].key[1], flight'[l].listed)
      OBVIOUS
    <3>2. ~begins(l) /\ flight'[l] = flight[l] /\ load'[l].key = load[l].key
      BY <1>7, <2>1, <3>1
    <3> QED
      BY <3>1, <3>2 DEF Inv, FlightInv
  <2>6. \A j \in Keys : IsOf(j[1], catalog'[j])
    BY <2>3 DEF Inv, FlightInv, IsOf
  <2> QED
    BY <1>1, <2>2, <2>3, <2>4, <2>5, <2>6 DEF FlightInv, IsOf, ToolCatalogKey, sharedVars
<1>9. /\ op' \in [Callers -> Operation] /\ \A q \in Callers \ {p} : op'[q] = op[q]
      /\ PinnedOperation(op'[p])
      /\ op'[p].pc = "cache" <=> caller'[p].pc # "idle"
      /\ op'[p].pc = "cache" => op'[p].hand = op[p].hand
      /\ \/ (Counted(p) <=> Counted(p)') /\ total' = total
         \/ ~Counted(p) /\ Counted(p)' /\ total' = total + 1
  <2>1. ~Counted(p)
    BY <1>1 DEF Counted
  <2>2. CASE caller'[p].pc = "waiting"
    <3>1. Goto(p, "cache") /\ total' = total + 1
      <4>1. k \notin ToSet(order')
        BY <1>4, <1>7, <2>2 DEF Stored
      <4> QED
        BY <2>2, <4>1 DEF UseCache
    <3>2. /\ op' \in [Callers -> Operation] /\ \A q \in Callers \ {p} : op'[q] = op[q]
          /\ op'[p].pc = "cache" /\ op'[p].hand = op[p].hand /\ op'[p].listed = op[p].listed
      BY <3>1, Goes
    <3>3. PinnedOperation(op'[p])
      BY <1>1, <3>2, GoesPinned
    <3> QED
      BY <2>1, <2>2, <3>1, <3>2, <3>3 DEF Counted
  <2>3. CASE caller' = caller /\ k \in ToSet(order')
    <3>1. caller'[p].pc = "idle"
      BY <1>4, <2>3
    <3>2. /\ op' = [op EXCEPT ![p].pc = "listed", ![p].listed = catalog[k]]
          /\ total' = total + 1
      BY <2>3, <3>1 DEF UseCache
    <3>3. catalog[k] \in Listed /\ op \in [Callers -> Operation]
      BY <1>3, <1>6 DEF Inv, OperationsInv
    <3>4. /\ op' \in [Callers -> Operation] /\ \A q \in Callers \ {p} : op'[q] = op[q]
          /\ op'[p].pc = "listed" /\ op'[p].hand = op[p].hand /\ op'[p].listed = catalog[k]
      BY <1>2, <3>2, <3>3 DEF Operation
    <3>5. IsOf(op[p].hand.version, catalog[k])
      BY <1>3 DEF Inv, FlightInv
    <3>6. PinnedOperation(op'[p])
      BY <1>1, <3>4, <3>5 DEF Inv, PinnedInv, PinnedOperation
    <3> QED
      BY <2>1, <3>1, <3>2, <3>4, <3>6 DEF Counted
  <2>4. CASE caller' = caller /\ k \notin ToSet(order')
    <3>1. caller'[p].pc = "idle"
      BY <1>4, <2>4
    <3>2. End(p)
      BY <2>4, <3>1 DEF UseCache
    <3> QED
      BY <2>1, <3>1, <3>2, Ends
  <2> QED
    BY <1>7, <2>2, <2>3, <2>4
<1>10. OperationsInv' /\ PinnedInv'
  <2>1. op'[p].pc = "cache" => load'[caller'[p].load].key = ToolCatalogKey(op'[p].hand)
    BY <1>4, <1>7, <1>9
  <2>2. \A l \in Loads : load[l].waiters # 0 => load'[l].key = load[l].key
    BY <1>7
  <2> HIDE DEF k, begins
  <2> QED
    BY <1>1, <1>6, <1>7, <1>9, <2>1, <2>2, OperationMoves
<1> QED
  BY <1>4, <1>5, <1>8, <1>10 DEF Inv
--------------------------------------------------------------------------------
(* The steps of a caller and of a load. *)

\* The callback of a caller that waits: it goes to its finally.
LEMMA Leaving ==
  ASSUME Inv, NEW p \in Callers, caller[p].pc = "waiting",
         caller' = [caller EXCEPT ![p].pc = "leaving"],
         UNCHANGED <<order, entry, bytes, inFlight, flights, load>>,
         UNCHANGED <<sharedVars, flight, catalog, total, requests>>,
         op' \in [Callers -> Operation], \A q \in Callers \ {p} : op'[q] = op[q],
         op'[p].pc = op[p].pc, op'[p].hand = op[p].hand, PinnedOperation(op'[p])
  PROVE  Inv'
<1>1. CacheInv' /\ caller \in [Callers -> Caller]
  BY LeavingStep DEF Inv, CacheInv, CallersInv
<1>2. /\ caller'[p].pc = "leaving" /\ caller'[p].load = caller[p].load
      /\ \A q \in Callers \ {p} : caller'[q] = caller[q]
  BY <1>1 DEF Caller
<1>3. op[p].pc = "cache" /\ load[caller[p].load].key = ToolCatalogKey(op[p].hand)
  BY DEF Inv, OperationsInv, PinnedInv, At
<1>4. (Counted(p) <=> Counted(p)') /\ total' = total
  BY DEF Counted
<1>5. requests' \in 0 .. MaxRequests /\ op'[p].pc = "cache" /\ caller'[p].pc # "idle"
      /\ load'[caller'[p].load].key = ToolCatalogKey(op'[p].hand)
      /\ \A l \in Loads : load'[l].key = load[l].key
  BY <1>2, <1>3 DEF Inv, OperationsInv
<1>6. OperationsInv' /\ PinnedInv'
  BY <1>2, <1>4, <1>5, OperationMoves
<1>7. SharedInv' /\ FlightInv'
  BY SameShared, SameFlights DEF Inv
<1> QED
  BY <1>1, <1>6, <1>7 DEF Inv

\* A waiter that is told how its load ended keeps the invariant.
LEMMA ToldStep ==
  ASSUME Inv, NEW p \in Callers, Told(p)
  PROVE  Inv'
<1> DEFINE l == caller[p].load
<1>1. /\ caller[p].pc = "waiting" /\ caller' = [caller EXCEPT ![p].pc = "leaving"]
      /\ UNCHANGED <<order, entry, bytes, inFlight, flights, load>>
      /\ op' = [op EXCEPT ![p].listed = flight[l].listed]
      /\ UNCHANGED <<sharedVars, flight, catalog, total, requests>>
  BY DEF Told, Settle
<1>2. l \in Loads /\ flight[l].listed \in Listed
  BY <1>1, FlightFields DEF Inv, CacheInv, CallersInv, FlightInv
<1>3. op[p].pc = "cache" /\ load[l].key = ToolCatalogKey(op[p].hand)
  BY <1>1 DEF Inv, OperationsInv, PinnedInv, At
<1>4. op[p] \in Operation /\ op \in [Callers -> Operation] /\ PinnedOperation(op[p])
  BY DEF Inv, OperationsInv, PinnedInv
<1>5. load[l].key[1] = op[p].hand.version
  BY <1>3 DEF ToolCatalogKey
<1>6. IsOf(op[p].hand.version, flight[l].listed)
  <2>1. CASE flight[l].listed = NoCredential
    BY <2>1 DEF IsOf
  <2>2. CASE flight[l].listed # NoCredential
    BY <1>2, <1>5, <2>2 DEF Inv, FlightInv
  <2> QED
    BY <2>1, <2>2
<1> HIDE DEF l
<1>7. /\ op' \in [Callers -> Operation] /\ \A q \in Callers \ {p} : op'[q] = op[q]
      /\ op'[p].pc = op[p].pc /\ op'[p].hand = op[p].hand /\ op'[p].listed = flight[l].listed
  BY <1>1, <1>2, <1>4 DEF Operation
<1>8. PinnedOperation(op'[p])
  BY <1>4, <1>6, <1>7 DEF PinnedOperation
<1> QED
  BY <1>1, <1>7, <1>8, Leaving

\* A waiter whose signal aborts keeps the invariant.
LEMMA AbortedStep ==
  ASSUME Inv, NEW p \in Callers, Aborted(p)
  PROVE  Inv'
<1>1. /\ caller[p].pc = "waiting" /\ caller' = [caller EXCEPT ![p].pc = "leaving"]
      /\ UNCHANGED <<order, entry, bytes, inFlight, flights, load>>
      /\ UNCHANGED <<sharedVars, op, flight, catalog, total, requests>>
  BY DEF Aborted, Reject, brokerVars
<1>2. op' \in [Callers -> Operation] /\ PinnedOperation(op'[p])
  BY <1>1 DEF Inv, OperationsInv, PinnedInv
<1> QED
  BY <1>1, <1>2, Leaving

\* A waiter that has left keeps the invariant.
LEMMA LeftStep ==
  ASSUME Inv, NEW p \in Callers, Left(p)
  PROVE  Inv'
<1>1. /\ Leave(p) /\ caller[p].pc = "leaving" /\ caller' = [caller EXCEPT ![p] = NoCaller]
      /\ UNCHANGED <<sharedVars, flight, catalog, requests>>
  BY DEF Left, Leave
<1>2. CacheInv'
  BY <1>1, LeaveStep DEF Inv
<1>3. \A l \in Loads : load'[l].key = load[l].key /\ load'[l].pc = load[l].pc
  <2>1. load \in [Loads -> Load]
    BY DEF Inv, CacheInv, FlightsInv
  <2> QED
    BY <2>1 DEF Left, Leave
<1>4. caller'[p].pc = "idle" /\ \A q \in Callers \ {p} : caller'[q] = caller[q]
  BY <1>1 DEF Inv, CacheInv, CallersInv, NoCaller
<1>5. op[p].pc = "cache" /\ Counted(p)
  BY <1>1 DEF Inv, OperationsInv, At, Counted
<1>6. /\ op' \in [Callers -> Operation] /\ \A q \in Callers \ {p} : op'[q] = op[q]
      /\ op'[p].pc # "cache" /\ PinnedOperation(op'[p])
      /\ \/ (Counted(p) <=> Counted(p)') /\ total' = total
         \/ Counted(p) /\ ~Counted(p)' /\ total' = total - 1
  <2>1. CASE op[p].listed = NoCredential
    <3>1. End(p)
      BY <2>1 DEF Left
    <3>2. op'[p].pc = "idle"
      BY <3>1, Ends
    <3> QED
      BY <1>5, <3>1, <3>2, Ends
  <2>2. CASE op[p].listed # NoCredential
    <3>1. Goto(p, "listed") /\ total' = total
      BY <2>2 DEF Left
    <3>2. /\ op' \in [Callers -> Operation] /\ \A q \in Callers \ {p} : op'[q] = op[q]
          /\ op'[p].pc = "listed" /\ op'[p].hand = op[p].hand /\ op'[p].listed = op[p].listed
      BY <3>1, Goes
    <3>3. PinnedOperation(op'[p])
      BY <1>5, <3>2, GoesPinned
    <3> QED
      BY <1>5, <3>1, <3>2, <3>3 DEF Counted
  <2> QED
    BY <2>1, <2>2
<1>7. OperationsInv' /\ PinnedInv'
  <2>1. requests' \in 0 .. MaxRequests
    BY <1>1 DEF Inv, OperationsInv
  <2> QED
    BY <1>1, <1>3, <1>4, <1>6, <2>1, OperationMoves
<1>8. SharedInv'
  BY <1>1, SameShared DEF Inv
<1>9. FlightInv'
  BY <1>1, <1>3 DEF Inv, FlightInv, IsOf, sharedVars
<1> QED
  BY <1>2, <1>7, <1>8, <1>9 DEF Inv

\* A step of a load, or of the clock: the operations stay as they are.
LEMMA OperationsStay ==
  ASSUME Inv, CacheInv', UNCHANGED <<sharedVars, op, total, requests, caller>>,
         \A l \in Loads : load'[l].key = load[l].key
  PROVE  SharedInv' /\ OperationsInv' /\ PinnedInv'
<1>1. SharedInv'
  BY SameShared DEF Inv
<1>2. OperationsInv'
  BY DEF Inv, OperationsInv, Counting, Counted, At
<1>3. PinnedInv'
  <2>1. ASSUME NEW p \in Callers
        PROVE  PinnedOperation(op[p])'
    BY DEF Inv, PinnedInv, PinnedOperation, SeenVersions, IsOf, sharedVars
  <2>2. ASSUME NEW p \in Callers, op'[p].pc = "cache"
        PROVE  load'[caller'[p].load].key = ToolCatalogKey(op'[p].hand)
    <3>1. op[p].pc = "cache" /\ caller[p].load \in Loads
      BY <2>2 DEF Inv, OperationsInv, CacheInv, CallersInv, At
    <3> QED
      BY <3>1 DEF Inv, PinnedInv, At
  <2>3. (\A p \in Callers : PinnedOperation(op[p]))'
    BY <2>1
  <2>4. (\A p \in Callers : At(p, "cache") => load[caller[p].load].key = ToolCatalogKey(op[p].hand))'
    BY <2>2 DEF At, ToolCatalogKey
  <2> QED
    BY <2>3, <2>4 DEF PinnedInv
<1> QED
  BY <1>1, <1>2, <1>3

\* What the flights and the catalog must be for the invariant to hold.
LEMMA FlightsGoWith ==
  ASSUME FlightInv, UNCHANGED sharedVars,
         flight' \in [Loads -> Flight], catalog' \in [Keys -> Listed],
         \A l \in Loads : load'[l].key = load[l].key,
         \A l \in Loads : load'[l].pc = "loading" => load[l].pc = "loading" /\ flight'[l].hand = flight[l].hand,
         \A l \in Loads : flight'[l].listed # NoCredential =>
           load[l].key \in Keys /\ IsOf(load[l].key[1], flight'[l].listed),
         \A k \in Keys : IsOf(k[1], catalog'[k])
  PROVE  FlightInv'
BY DEF FlightInv, IsOf, ToolCatalogKey, sharedVars

\* The check inside a load keeps the invariant.
LEMMA LoadChecksStep ==
  ASSUME Inv, NEW l \in Loads, LoadChecks(l)
  PROVE  Inv'
<1>1. UNCHANGED <<cacheVars, sharedVars, op, catalog, total, requests>>
  BY DEF LoadChecks
<1>2. CacheInv' /\ load' = load /\ caller' = caller
  BY <1>1, SameCache DEF Inv, cacheVars
<1>3. SharedInv' /\ OperationsInv' /\ PinnedInv'
  BY <1>1, <1>2, OperationsStay
<1>4. PICK pc \in {"listed", "rechecked"} : flight' = [flight EXCEPT ![l].pc = pc]
  BY DEF LoadChecks
<1>5. flight \in [Loads -> Flight]
  BY DEF Inv, FlightInv
<1>6. /\ flight' \in [Loads -> Flight]
      /\ \A m \in Loads : flight'[m].hand = flight[m].hand /\ flight'[m].listed = flight[m].listed
  BY <1>4, <1>5 DEF Flight
<1>7. FlightInv'
  BY <1>1, <1>2, <1>6, FlightsGoWith DEF Inv, FlightInv
<1> QED
  BY <1>2, <1>3, <1>7 DEF Inv

\* A load that gives up keeps the invariant.
LEMMA LoadGivesUpStep ==
  ASSUME Inv, NEW l \in Loads, LoadGivesUp(l)
  PROVE  Inv'
<1>1. /\ LoadFails(l) /\ flight' = [flight EXCEPT ![l] = NoFlight]
      /\ UNCHANGED <<sharedVars, op, catalog, total, requests>>
  BY DEF LoadGivesUp
<1>2. /\ load \in [Loads -> Load] /\ flight \in [Loads -> Flight]
      /\ load' = [load EXCEPT ![l].pc = "settling"] /\ caller' = caller
  BY <1>1 DEF Inv, CacheInv, FlightsInv, FlightInv, LoadFails
<1>3. CacheInv'
  BY <1>1, FailStep DEF Inv
<1>4. /\ \A m \in Loads : load'[m].key = load[m].key
      /\ \A m \in Loads \ {l} : load'[m] = load[m]
      /\ load'[l].pc = "settling"
  BY <1>2 DEF Load
<1>5. SharedInv' /\ OperationsInv' /\ PinnedInv'
  BY <1>1, <1>2, <1>3, <1>4, OperationsStay
<1>6. /\ flight' \in [Loads -> Flight] /\ flight'[l].listed = NoCredential
      /\ \A m \in Loads \ {l} : flight'[m] = flight[m]
  BY <1>1, <1>2, Nothing
<1>7. FlightInv'
  BY <1>1, <1>4, <1>6, FlightsGoWith DEF Inv, FlightInv
<1> QED
  BY <1>3, <1>5, <1>7 DEF Inv

\* What a load publishes was listed with the credential of its key's version.
LEMMA LoadPublishesStep ==
  ASSUME Inv, NEW l \in Loads, NEW size \in Sizes, LoadPublishes(l, size)
  PROVE  Inv'
<1> DEFINE listed == IF Cancelled(l) THEN NoCredential ELSE flight[l].hand.credential
<1>1. /\ LoadReturns(l, size)
      /\ catalog' = IF listed = NoCredential \/ size > MaxBytes THEN catalog
                    ELSE [Stays(ToSet(order')) EXCEPT ![load[l].key] = listed]
      /\ flight' = [flight EXCEPT ![l] = [NoFlight EXCEPT !.listed = listed]]
      /\ UNCHANGED <<sharedVars, op, total, requests>>
  BY DEF LoadPublishes
<1>2. /\ load \in [Loads -> Load] /\ flight \in [Loads -> Flight] /\ catalog \in [Keys -> Listed]
      /\ load' = [load EXCEPT ![l].pc = "settling"] /\ load[l].pc = "loading" /\ caller' = caller
      /\ load[l].key \in Keys
  BY <1>1 DEF Inv, CacheInv, FlightsInv, FlightInv, LoadReturns
<1>3. CacheInv'
  BY <1>1, ReturnStep DEF Inv
<1>4. /\ \A m \in Loads : load'[m].key = load[m].key
      /\ \A m \in Loads \ {l} : load'[m] = load[m]
      /\ load'[l].pc = "settling"
  BY <1>2 DEF Load
<1>5. SharedInv' /\ OperationsInv' /\ PinnedInv'
  BY <1>1, <1>2, <1>3, <1>4, OperationsStay
<1>6. listed \in Listed /\ IsOf(load[l].key[1], listed)
  <2>1. /\ flight[l].hand.credential \in Listed /\ NoCredential \in Listed
        /\ IsOf(flight[l].hand.version, flight[l].hand.credential)
        /\ load[l].key = ToolCatalogKey(flight[l].hand)
    BY <1>2, FlightFields DEF Inv, FlightInv, Listed
  <2>2. load[l].key[1] = flight[l].hand.version
    BY <2>1 DEF ToolCatalogKey
  <2> QED
    BY <2>1, <2>2 DEF IsOf
<1> HIDE DEF listed
<1>7. /\ flight' \in [Loads -> Flight] /\ flight'[l].listed = listed
      /\ \A m \in Loads \ {l} : flight'[m] = flight[m]
  <2>1. [NoFlight EXCEPT !.listed = listed] \in Flight
    BY <1>6, Nothing DEF Flight
  <2>2. [NoFlight EXCEPT !.listed = listed].listed = listed
    BY DEF NoFlight
  <2> QED
    BY <1>1, <1>2, <2>1, <2>2
<1>8. catalog' \in [Keys -> Listed] /\ \A k \in Keys : IsOf(k[1], catalog'[k])
  <2>1. /\ Stays(ToSet(order')) \in [Keys -> Listed]
        /\ \A k \in Keys : Stays(ToSet(order'))[k] \in {catalog[k], NoCredential}
    BY <1>2 DEF Stays, Listed
  <2>2. \A k \in Keys : IsOf(k[1], catalog[k]) /\ IsOf(k[1], NoCredential)
    BY DEF Inv, FlightInv, IsOf
  <2>3. CASE catalog' = catalog
    BY <1>2, <2>2, <2>3
  <2>4. CASE catalog' = [Stays(ToSet(order')) EXCEPT ![load[l].key] = listed]
    <3>1. /\ catalog' \in [Keys -> Listed] /\ catalog'[load[l].key] = listed
          /\ \A k \in Keys \ {load[l].key} : catalog'[k] \in {catalog[k], NoCredential}
      BY <1>2, <1>6, <2>1, <2>4
    <3>2. \A k \in Keys \ {load[l].key} : IsOf(k[1], catalog'[k])
      BY <2>2, <3>1
    <3> QED
      BY <1>6, <3>1, <3>2
  <2> QED
    BY <1>1, <2>3, <2>4
<1>9. FlightInv'
  BY <1>1, <1>2, <1>4, <1>6, <1>7, <1>8, FlightsGoWith DEF Inv, FlightInv
<1> QED
  BY <1>3, <1>5, <1>9 DEF Inv

\* The finally of a load, its timeout and the end of an entry touch neither operations
\* nor what loads hold.
LEMMA CacheAlone ==
  ASSUME Inv, CacheInv', UNCHANGED <<sharedVars, brokerVars, caller>>,
         \A l \in Loads : load'[l].key = load[l].key
                          /\ (load'[l].pc = "loading" => load[l].pc = "loading")
  PROVE  Inv'
<1>1. UNCHANGED <<op, flight, catalog, total, requests>>
  BY DEF brokerVars
<1>2. SharedInv' /\ OperationsInv' /\ PinnedInv'
  BY <1>1, OperationsStay
<1>3. FlightInv'
  BY <1>1, FlightsGoWith DEF Inv, FlightInv
<1> QED
  BY <1>2, <1>3 DEF Inv

\* What only the cache does keeps the invariant.
LEMMA CacheAloneStep ==
  ASSUME Inv, UNCHANGED <<sharedVars, brokerVars>>,
         \/ \E l \in Loads : LoadFinally(l) \/ Timeout(l)
         \/ \E k \in Keys : Expire(k)
  PROVE  Inv'
<1>1. load \in [Loads -> Load] /\ CacheInv
  BY DEF Inv, CacheInv, FlightsInv
<1>2. ASSUME NEW l \in Loads, LoadFinally(l)
      PROVE  Inv'
  <2>1. /\ caller' = caller
        /\ \A m \in Loads : load'[m].key = load[m].key
                            /\ (load'[m].pc = "loading" => load[m].pc = "loading")
    BY <1>1, <1>2 DEF LoadFinally, Load
  <2> QED
    BY <1>1, <1>2, <2>1, FinallyStep, CacheAlone
<1>3. ASSUME NEW l \in Loads, Timeout(l)
      PROVE  Inv'
  <2>1. /\ caller' = caller
        /\ \A m \in Loads : load'[m].key = load[m].key
                            /\ (load'[m].pc = "loading" => load[m].pc = "loading")
    BY <1>1, <1>3 DEF Timeout, Load
  <2> QED
    BY <1>1, <1>3, <2>1, TimeoutStep, CacheAlone
<1>4. ASSUME NEW k \in Keys, Expire(k)
      PROVE  Inv'
  <2>1. caller' = caller /\ load' = load
    BY <1>4 DEF Expire
  <2> QED
    BY <1>1, <1>4, <2>1, ExpireStep, CacheAlone
<1> QED
  BY <1>2, <1>3, <1>4
--------------------------------------------------------------------------------
(* The invariant holds. *)

\* The invariant holds at first.
LEMMA InitInv == Init => Inv
<1> SUFFICES ASSUME Init
             PROVE  Inv
  OBVIOUS
<1> USE DEF Init, CacheInit, SharedInit
<1>1. order = <<>> /\ Stored = {} /\ Len(order) = 0 /\ order \in Seq(Keys) /\ IsInjective(order)
  BY EmptySeq DEF Stored, ToSet, IsInjective
<1>2. StoreInv
  <2>1. entry \in [Keys -> Entry]
    BY NoEntryFits
  <2>2. bytes = Total(entry, Stored)
    BY <1>1, TotalEmpty
  <2>3. Len(order) <= MaxEntries /\ bytes <= MaxBytes
    BY <1>1, Numbers
  <2> QED
    BY <1>1, <2>1, <2>2, <2>3 DEF StoreInv
<1>3. /\ load \in [Loads -> Load] /\ \A l \in Loads : load[l].pc = "none" /\ load[l].waiters = 0
  BY DEF NoLoad, Load
<1>4. FlightsInv
  <2>1. Loading = {}
    BY <1>3 DEF Loading, Running
  <2>2. IsFiniteSet(Loading) /\ inFlight = Cardinality(Loading) /\ inFlight <= MaxInFlight
    BY <2>1, FS_EmptySet, Numbers
  <2> QED
    BY <1>3, <2>2 DEF FlightsInv
<1>5. CallersInv
  <2>1. caller \in [Callers -> Caller] /\ \A c \in Callers : caller[c].pc = "idle"
    BY DEF NoCaller, Caller
  <2>2. \A l \in Loads : Joined(l) = {}
    BY <2>1 DEF Joined
  <2> QED
    BY <1>3, <2>1, <2>2, FS_EmptySet DEF CallersInv, NoOneAbandoned
<1>6. SharedInv
  <2>1. row \in Row /\ row.version = 0 /\ row.exists = FALSE
    BY DEF NoRow, Row
  <2> QED
    BY <2>1, ChangesAreBounded DEF SharedInv, SharedTypeOK
<1>7. op \in [Callers -> Operation] /\ \A p \in Callers : op[p] = NoOperation
  BY Nothing
<1>8. OperationsInv
  <2>1. \A p \in Callers : ~Counted(p) /\ ~At(p, "cache") /\ caller[p].pc = "idle"
    BY <1>7, Nothing DEF Counted, At, NoCaller
  <2>2. Counting = {}
    BY <2>1 DEF Counting
  <2> QED
    BY <1>7, <2>1, <2>2, FS_EmptySet, OperationsBounded DEF OperationsInv
<1>9. PinnedInv
  BY <1>7, Nothing, PinnedNothing DEF PinnedInv, At
<1>10. FlightInv
  <2>1. catalog \in [Keys -> Listed] /\ \A k \in Keys : catalog[k] = NoCredential
    BY DEF Listed
  <2>2. flight \in [Loads -> Flight] /\ \A l \in Loads : flight[l].listed = NoCredential
    BY Nothing
  <2> QED
    BY <1>3, <2>1, <2>2 DEF FlightInv, IsOf
<1> QED
  BY <1>2, <1>4, <1>5, <1>6, <1>8, <1>9, <1>10 DEF Inv, CacheInv

\* Every step of an operation keeps the invariant.
LEMMA OperateStep ==
  ASSUME Inv, NEW p \in Callers, Operate(p)
  PROVE  Inv'
BY ResolveStep, OpenStep, AuthorizeStep, UseCacheStep, UseSessionStep, ToldStep, AbortedStep,
   LeftStep, RecheckStep, CheckDispatchStep, EndStep DEF Operate

\* Every step keeps the invariant.
LEMMA InvStep == Inv /\ [Next]_vars => Inv'
<1> SUFFICES ASSUME Inv, [Next]_vars
             PROVE  Inv'
  OBVIOUS
<1>1. CASE Next
  <2>1. CASE \E p \in Callers : Operate(p)
    BY <2>1, OperateStep
  <2>2. CASE \E l \in Loads : \/ LoadChecks(l) \/ LoadGivesUp(l)
                              \/ \E size \in Sizes : LoadPublishes(l, size)
    BY <2>2, LoadChecksStep, LoadGivesUpStep, LoadPublishesStep
  <2>3. CASE /\ UNCHANGED <<sharedVars, brokerVars>>
             /\ \/ \E l \in Loads : LoadFinally(l) \/ Timeout(l)
                \/ \E k \in Keys : Expire(k)
    BY <2>3, CacheAloneStep
  <2>4. CASE AdministerShared /\ UNCHANGED <<cacheVars, brokerVars>>
    BY <2>4, AdministerStep
  <2> QED
    BY <1>1, <2>1, <2>2, <2>3, <2>4 DEF Next
<1>2. CASE UNCHANGED vars
  <2>1. CacheInv' /\ caller' = caller /\ load' = load
    BY <1>2, SameCache DEF Inv, vars, cacheVars
  <2> QED
    BY <1>2, <2>1, CacheAlone DEF vars
<1> QED
  BY <1>1, <1>2

\* The types, the cache's accounts, the flights and what each operation is pinned to
\* hold in every behaviour of the broker.
THEOREM Invariance == Spec => []Inv
BY InitInv, InvStep, PTL DEF Spec
--------------------------------------------------------------------------------
(* What operations, callers and answers are promised. *)

\* Type correctness: the types of all of the broker's state.
THEOREM TypeCorrect == Spec => []BrokerTypeOK
<1>1. Inv => BrokerTypeOK
  <2> SUFFICES ASSUME Inv
               PROVE  BrokerTypeOK
    OBVIOUS
  <2>1. bytes \in Nat
    <3>1. Stored \in SUBSET Stored
      OBVIOUS
    <3> QED
      BY <3>1, BytesKept DEF Inv, CacheInv, StoreInv
  <2>2. inFlight \in Nat /\ total \in Nat
    BY FS_CardinalityType DEF Inv, CacheInv, FlightsInv, OperationsInv
  <2>3. CacheTypeOK
    BY <2>1, <2>2 DEF CacheTypeOK, Inv, CacheInv, StoreInv, FlightsInv, CallersInv
  <2> QED
    BY <2>2, <2>3 DEF BrokerTypeOK, Inv, SharedInv, OperationsInv, FlightInv
<1> QED
  BY <1>1, Invariance, PTL

\* The counters of bytes, entries, loads and operations are what they count and within
\* their limits, whichever way operations, loads and their callers end (getOrLoad and
\* remove of mcp/tool-cache.ts, and the finally of run in mcp/broker.ts).
THEOREM LimitsHold == Spec => []WithinLimits
<1>1. Inv => WithinLimits
  <2> SUFFICES ASSUME Inv
               PROVE  WithinLimits
    OBVIOUS
  <2>1. bytes = SizeOf(Stored) /\ bytes <= MaxBytes
    BY StoredIsSized DEF Inv, CacheInv, StoreInv
  <2>2. Len(order) = Cardinality(Stored) /\ Len(order) <= MaxEntries
    BY StoredIsSized DEF Inv, CacheInv, StoreInv
  <2>3. inFlight = Cardinality({l \in Loads : Running(l)}) /\ inFlight <= MaxInFlight
    BY DEF Inv, CacheInv, FlightsInv, Loading
  <2>4. total = Cardinality({p \in Callers : Counted(p)}) /\ total <= MaxOperations
    BY DEF Inv, OperationsInv, Counting
  <2> QED
    BY <2>1, <2>2, <2>3, <2>4 DEF WithinLimits, CountersAgree
<1> QED
  BY <1>1, Invariance, PTL

\* A caller that waits for a load is never cancelled because others left it (the waiters
\* of getOrLoad).
THEOREM WaitersAreServed == Spec => []NoOneAbandoned
<1>1. Inv => NoOneAbandoned
  BY DEF Inv, CacheInv, CallersInv
<1> QED
  BY <1>1, Invariance, PTL

\* A key is loaded once at a time, by loads that were not abandoned, although a load that
\* was abandoned may end long after its successor began (flights of getOrLoad).
THEOREM OneFlight == Spec => []SingleFlight
<1>1. Inv => SingleFlight
  BY DEF Inv, CacheInv, FlightsInv, SingleFlight
<1> QED
  BY <1>1, Invariance, PTL

\* What is current in an operation's hand, and what was listed for it, is of the
\* credential the connection stores now.
LEMMA CurrentStep ==
  ASSUME Inv, NEW p \in Callers, Current(op[p].hand), op[p].pc \notin {"idle", "observed"}
  PROVE  op[p].hand.credential = sealed /\ op[p].listed \in {sealed, NoCredential}
BY DEF Inv, PinnedInv, PinnedOperation, IsOf, Current, Usable, Same

\* An operation's step changes no other operation.
LEMMA OthersStay ==
  ASSUME Inv, NEW p \in Callers, NEW q \in Callers, q # p, Operate(p)
  PROVE  op'[q] = op[q]
<1>1. op \in [Callers -> Operation]
  BY DEF Inv, OperationsInv
<1>2. CASE Resolve(p)
  BY <1>1, <1>2 DEF Resolve
<1>3. CASE Open(p)
  BY <1>1, <1>3 DEF Open
<1>4. CASE UseCache(p)
  BY <1>1, <1>4 DEF UseCache, Goto, End
<1>5. CASE Told(p) \/ Aborted(p)
  BY <1>1, <1>5 DEF Told, Aborted, brokerVars
<1>6. CASE Authorize(p) \/ UseSession(p) \/ Left(p) \/ Recheck(p) \/ CheckDispatch(p) \/ EndOperation(p)
  BY <1>1, <1>6 DEF Authorize, UseSession, Left, Recheck, CheckDispatch, EndOperation, Goto, End
<1> QED
  BY <1>2, <1>3, <1>4, <1>5, <1>6 DEF Operate

\* Only a step that has just checked its hand answers, or goes on to a request.
LEMMA OnlyChecked ==
  ASSUME Inv, NEW p \in Callers, Operate(p), op'[p] # op[p],
         op'[p].pc \in {"answer", "session", "dispatch"}, op[p].pc # "authorized"
  PROVE  Current(op[p].hand) /\ op[p].pc \notin {"idle", "observed"}
<1>1. op \in [Callers -> Operation]
  BY DEF Inv, OperationsInv
<1>2. ~Resolve(p)
  <2>1. SUFFICES ASSUME Resolve(p)
                 PROVE  op'[p].pc = "observed"
    OBVIOUS
  <2> QED
    BY <1>1, <2>1 DEF Resolve, NoOperation, NothingInHand
<1>3. ~Open(p) /\ ~Authorize(p) /\ ~UseCache(p) /\ ~UseSession(p)
  BY <1>1 DEF Open, Authorize, UseCache, UseSession, At, Goto, Operation
<1>4. ~Told(p) /\ ~Aborted(p)
  <2>1. SUFFICES ASSUME Told(p) \/ Aborted(p)
                 PROVE  op[p].pc = "cache" /\ op'[p].pc = op[p].pc
    OBVIOUS
  <2>2. caller[p].pc = "waiting"
    BY <2>1 DEF Told, Aborted, Settle, Reject
  <2> QED
    BY <1>1, <2>1, <2>2 DEF Told, Aborted, Inv, OperationsInv, At, Operation, brokerVars
<1>5. ~Left(p)
  <2>1. SUFFICES ASSUME Left(p)
                 PROVE  op'[p].pc \in {"idle", "listed"}
    OBVIOUS
  <2> QED
    BY <1>1, <2>1 DEF Left, End, Goto, NoOperation, Operation
<1>6. ~EndOperation(p)
  BY <1>1 DEF EndOperation, End, NoOperation
<1> QED
  BY <1>2, <1>3, <1>4, <1>5, <1>6 DEF Operate, Recheck, CheckDispatch, At

\* An answer, and a request of a session, rest on the credential the connection then
\* stores: a catalog listed with another one is found under no key an operation can
\* still use (toolCatalogKey, and the checks before an answer and a request).
THEOREM AnswersAreCurrent == Spec => ServesWhatIsCurrent
<1> DEFINE Served == \A p \in Callers :
             op'[p] # op[p] /\ op'[p].pc \in {"answer", "session", "dispatch"} /\ ~At(p, "authorized")
             => /\ op[p].hand.credential = sealed
                /\ op[p].listed \in {sealed, NoCredential}
<1>1. Inv /\ [Next]_vars => [Served]_vars
  <2> SUFFICES ASSUME Inv, Next, NEW p \in Callers, op'[p] # op[p],
                      op'[p].pc \in {"answer", "session", "dispatch"}, op[p].pc # "authorized"
               PROVE  op[p].hand.credential = sealed /\ op[p].listed \in {sealed, NoCredential}
    BY DEF At
  <2>1. \E q \in Callers : Operate(q)
    BY DEF Next, LoadChecks, LoadGivesUp, LoadPublishes, brokerVars
  <2>2. Operate(p)
    BY <2>1, OthersStay
  <2> QED
    BY <2>2, OnlyChecked, CurrentStep
<1> QED
  BY <1>1, Invariance, PTL DEF Spec, ServesWhatIsCurrent
================================================================================
