----------------------------- MODULE ResponseProofs -----------------------------
(***************************************************************************)
(* Proofs about Response.tla and Listing.tla, for directories of any size, *)
(* lists that grow by any STEP, files and ints of any size, and any number *)
(* of changes to the path, the file and the directory: types,              *)
(* MakeEntryItem writes inside the list, the answer fits what the path     *)
(* named, the length is that of the file, and the page is in order and has *)
(* what the directory had.  On the way: SortFileEntry sorts.               *)
(***************************************************************************)
EXTENDS Response, FiniteSetTheorems, SequenceTheorems, TLAPS

--------------------------------------------------------------------------------
(* Induction over the natural numbers, with a set in the place of a predicate. *)

Below == {ss \in Nat \X Nat : ss[1] < ss[2]}

LEMMA BelowWellFounded == IsWellFoundedOn(Below, Nat)
  BY NatLessThanWellFounded DEF OpToRel, Below

\* A set of natural numbers that is not empty has a least element.
LEMMA LeastElement ==
  ASSUME NEW T, T \subseteq Nat, T # {}
  PROVE  \E m \in T : \A y \in T : m <= y
<1>1. PICK m \in T : \A y \in T : ~ (<<y, m>> \in Below)
  BY BelowWellFounded, WFMin
<1>2. ASSUME NEW y \in T PROVE m <= y
  <2>1. y \in Nat /\ m \in Nat
    OBVIOUS
  <2>2. <<y, m>> \in Nat \X Nat => ~ (y < m)
    BY <1>1 DEF Below
  <2> QED
    BY <2>1, <2>2
<1> QED
  BY <1>2

\* What holds of 0, and of n + 1 if of n, holds of every natural number.
LEMMA Induction ==
  ASSUME NEW P, 0 \in P, \A n \in P \cap Nat : n + 1 \in P
  PROVE  Nat \subseteq P
<1> DEFINE Q == {n \in Nat : n \notin P}
<1>1. SUFFICES ASSUME Q # {} PROVE FALSE
  OBVIOUS
<1>2. PICK m \in Q : \A y \in Q : m <= y
  BY <1>1, LeastElement
<1>3. m - 1 \in P \cap Nat
  <2>1. m - 1 \in Nat
    BY <1>2
  <2> QED
    BY <1>2, <2>1
<1>4. (m - 1) + 1 = m
  BY <1>2
<1> QED
  BY <1>2, <1>3, <1>4

--------------------------------------------------------------------------------
(* Sequences as ordered sets. *)

\* The elements of a sequence, by their places.
LEMMA RangeIs ==
  ASSUME NEW S, NEW s \in Seq(S)
  PROVE  /\ \A x : x \in Range(s) <=> \E i \in 1 .. Len(s) : s[i] = x
         /\ IsInjective(s) <=> \A i, j \in 1 .. Len(s) : s[i] = s[j] => i = j
         /\ Range(s) \subseteq S
  BY DEF Range, IsInjective

LEMMA AppendParts ==
  ASSUME NEW S, NEW s \in Seq(S), NEW e \in S
  PROVE  /\ Append(s, e) \in Seq(S)
         /\ Range(Append(s, e)) = Range(s) \cup {e}
         /\ IsInjective(s) /\ e \notin Range(s) => IsInjective(Append(s, e))
<1>1. /\ Append(s, e) \in Seq(S)
      /\ Len(Append(s, e)) = Len(s) + 1 /\ Len(s) \in Nat
      /\ \A i \in 1 .. Len(s) : Append(s, e)[i] = s[i]
      /\ Append(s, e)[Len(s) + 1] = e
  BY AppendProperties, LenProperties
<1> DEFINE t == Append(s, e)
<1>2. /\ \A x : x \in Range(s) <=> \E i \in 1 .. Len(s) : s[i] = x
      /\ \A x : x \in Range(t) <=> \E i \in 1 .. Len(t) : t[i] = x
      /\ IsInjective(s) <=> \A i, j \in 1 .. Len(s) : s[i] = s[j] => i = j
      /\ IsInjective(t) <=> \A i, j \in 1 .. Len(t) : t[i] = t[j] => i = j
  BY <1>1, RangeIs
<1> HIDE DEF t
<1>3. /\ \A i \in 1 .. Len(t) : i = Len(s) + 1 \/ i \in 1 .. Len(s)
      /\ \A i \in 1 .. Len(s) : i \in 1 .. Len(t)
      /\ Len(s) + 1 \in 1 .. Len(t)
      /\ \A i \in 1 .. Len(s) : t[i] = s[i]
      /\ t[Len(s) + 1] = e
  BY <1>1 DEF t
<1>4. Range(t) = Range(s) \cup {e}
  <2>1. ASSUME NEW x \in Range(t) PROVE x \in Range(s) \cup {e}
    BY <1>2, <1>3
  <2>2. ASSUME NEW x \in Range(s) \cup {e} PROVE x \in Range(t)
    BY <1>2, <1>3
  <2> QED
    BY <2>1, <2>2
<1>5. IsInjective(s) /\ e \notin Range(s) => IsInjective(t)
  BY <1>2, <1>3
<1> QED
  BY <1>1, <1>4, <1>5 DEF t

\* The rest of a sequence in which nothing is twice has all of it but the first.
LEMMA TailParts ==
  ASSUME NEW S, NEW s \in Seq(S), s # <<>>, IsInjective(s)
  PROVE  /\ Head(s) \in Range(s)
         /\ Tail(s) \in Seq(S)
         /\ Range(Tail(s)) = Range(s) \ {Head(s)}
         /\ IsInjective(Tail(s))
<1>1. /\ Tail(s) \in Seq(S)
      /\ Len(Tail(s)) = Len(s) - 1
      /\ \A i \in 1 .. Len(Tail(s)) : Tail(s)[i] = s[i + 1]
  BY HeadTailProperties
<1>2. Len(s) \in Nat \ {0} /\ Head(s) = s[1]
  BY EmptySeq
<1>3. ASSUME NEW i \in 1 .. Len(Tail(s)) PROVE i + 1 \in 1 .. Len(s) /\ Tail(s)[i] = s[i + 1] /\ s[i + 1] # s[1]
  BY <1>1, <1>2, RangeIs
<1>4. ASSUME NEW i \in 1 .. Len(s), i # 1 PROVE i - 1 \in 1 .. Len(Tail(s)) /\ Tail(s)[i - 1] = s[i]
  BY <1>1, <1>2, <1>4
<1>5. Range(Tail(s)) = Range(s) \ {Head(s)}
  <2>1. \A x : x \in Range(Tail(s)) <=> \E i \in 1 .. Len(Tail(s)) : Tail(s)[i] = x
    BY <1>1, RangeIs
  <2>2. \A x : x \in Range(s) <=> \E i \in 1 .. Len(s) : s[i] = x
    BY RangeIs
  <2>3. ASSUME NEW x \in Range(Tail(s)) PROVE x \in Range(s) /\ x # Head(s)
    BY <1>2, <1>3, <2>1, <2>2
  <2>4. ASSUME NEW x \in Range(s), x # Head(s) PROVE x \in Range(Tail(s))
    BY <1>2, <1>4, <2>1, <2>2, <2>4
  <2> QED
    BY <2>3, <2>4
<1>6. IsInjective(Tail(s))
  <2>1. \A i, j \in 1 .. Len(s) : s[i] = s[j] => i = j
    BY RangeIs
  <2>2. ASSUME NEW i \in 1 .. Len(Tail(s)), NEW j \in 1 .. Len(Tail(s)), Tail(s)[i] = Tail(s)[j]
        PROVE  i = j
    <3>1. i + 1 = j + 1
      BY <1>3, <2>1, <2>2
    <3> QED
      BY <3>1
  <2> QED
    BY <1>1, <2>2, RangeIs
<1> QED
  BY <1>1, <1>2, <1>5, <1>6, RangeIs

(* SortFileEntry. *)

Increasing(s) == \A i, j \in 1 .. Len(s) : i < j => s[i] < s[j]

\* Selecting the least of what is left.
LEMMA MinFromIs ==
  ASSUME NEW s \in Seq(Nat), NEW i \in 1 .. Len(s)
  PROVE  MinFrom(s, i) \in i .. Len(s) /\ \A j \in i .. Len(s) : s[MinFrom(s, i)] <= s[j]
<1> DEFINE T == {s[k] : k \in i .. Len(s)}
<1>1. Len(s) \in Nat
  BY LenProperties
<1>2. T \subseteq Nat /\ s[i] \in T
  <2>1. \A k \in i .. Len(s) : s[k] \in Nat
    BY <1>1, ElementOfSeq
  <2> QED
    BY <1>1, <2>1
<1>3. PICK m \in T : \A y \in T : m <= y
  BY <1>2, LeastElement
<1>4. \E k \in i .. Len(s) : \A j \in i .. Len(s) : s[k] <= s[j]
  BY <1>3
<1> QED
  BY <1>4 DEF MinFrom

\* An exchange keeps what is in the sequence.
LEMMA SwapParts ==
  ASSUME NEW s \in Seq(Nat), IsInjective(s), NEW i \in 1 .. Len(s), NEW k \in 1 .. Len(s)
  PROVE  /\ Swap(s, i, k) \in Seq(Nat)
         /\ Len(Swap(s, i, k)) = Len(s)
         /\ \A j \in 1 .. Len(s) :
              Swap(s, i, k)[j] = IF j = k THEN s[i] ELSE IF j = i THEN s[k] ELSE s[j]
         /\ Range(Swap(s, i, k)) = Range(s)
         /\ IsInjective(Swap(s, i, k))
<1> DEFINE t == Swap(s, i, k)
<1>1. Len(s) \in Nat /\ \A j \in 1 .. Len(s) : s[j] \in Nat
  BY LenProperties, ElementOfSeq
<1>2. t = [j \in 1 .. Len(s) |-> IF j = k THEN s[i] ELSE IF j = i THEN s[k] ELSE s[j]]
  <2>1. s = [j \in 1 .. Len(s) |-> s[j]]
    BY LenProperties
  <2> QED
    BY <2>1 DEF Swap
<1> HIDE DEF t
<1>3. t \in Seq(Nat) /\ Len(t) = Len(s)
  BY <1>1, <1>2
<1>4. \A j \in 1 .. Len(s) : t[j] = IF j = k THEN s[i] ELSE IF j = i THEN s[k] ELSE s[j]
  BY <1>2
<1>5. /\ \A x : x \in Range(s) <=> \E j \in 1 .. Len(s) : s[j] = x
      /\ \A x : x \in Range(t) <=> \E j \in 1 .. Len(s) : t[j] = x
      /\ IsInjective(s) <=> \A j, l \in 1 .. Len(s) : s[j] = s[l] => j = l
      /\ IsInjective(t) <=> \A j, l \in 1 .. Len(s) : t[j] = t[l] => j = l
  BY <1>3, RangeIs
<1>6. Range(t) = Range(s)
  <2>1. ASSUME NEW x \in Range(t) PROVE x \in Range(s)
    BY <1>4, <1>5
  <2>2. ASSUME NEW x \in Range(s) PROVE x \in Range(t)
    BY <1>4, <1>5
  <2> QED
    BY <2>1, <2>2
<1>7. IsInjective(t)
  BY <1>4, <1>5
<1> QED
  BY <1>3, <1>4, <1>6, <1>7 DEF t

\* One round of the outer loop puts the least of what is left behind the k that
\* are in their place.
LEMMA RoundParts ==
  ASSUME NEW t \in Seq(Nat), IsInjective(t), NEW k \in Nat, k + 1 <= Len(t),
         \A i \in 1 .. k, j \in 1 .. Len(t) : i < j => t[i] < t[j],
         NEW u, u = Swap(t, k + 1, MinFrom(t, k + 1))
  PROVE  /\ u \in Seq(Nat) /\ Len(u) = Len(t) /\ Range(u) = Range(t) /\ IsInjective(u)
         /\ \A i \in 1 .. k + 1, j \in 1 .. Len(t) : i < j => u[i] < u[j]
<1> DEFINE m == MinFrom(t, k + 1)
<1>1. Len(t) \in Nat /\ \A l \in 1 .. Len(t) : t[l] \in Nat
  BY LenProperties, ElementOfSeq
<1>2. k + 1 \in 1 .. Len(t)
  BY <1>1
<1>3. m \in k + 1 .. Len(t) /\ \A j \in k + 1 .. Len(t) : t[m] <= t[j]
  BY <1>2, MinFromIs
<1> HIDE DEF m
<1>4. m \in 1 .. Len(t)
  BY <1>1, <1>3
<1>5. u = Swap(t, k + 1, m)
  BY DEF m
<1>6. /\ u \in Seq(Nat) /\ Len(u) = Len(t) /\ Range(u) = Range(t) /\ IsInjective(u)
      /\ \A j \in 1 .. Len(t) : u[j] = IF j = m THEN t[k + 1] ELSE IF j = k + 1 THEN t[m] ELSE t[j]
  <2> DEFINE i == k + 1
  <2>1. i \in 1 .. Len(t)
    BY <1>2
  <2>2. u = Swap(t, i, m)
    BY <1>5
  <2> HIDE DEF i
  <2>3. /\ Swap(t, i, m) \in Seq(Nat) /\ Len(Swap(t, i, m)) = Len(t)
        /\ Range(Swap(t, i, m)) = Range(t) /\ IsInjective(Swap(t, i, m))
    BY <1>4, <2>1, SwapParts
  <2>4. \A j \in 1 .. Len(t) : Swap(t, i, m)[j] = IF j = m THEN t[i] ELSE IF j = i THEN t[m] ELSE t[j]
    BY <1>4, <2>1, SwapParts
  <2> QED
    BY <2>2, <2>3, <2>4 DEF i
<1>7. ASSUME NEW i \in 1 .. k + 1, NEW j \in 1 .. Len(t), i < j PROVE u[i] < u[j]
  <2>1. i \in 1 .. Len(t)
    BY <1>1
  <2>2. CASE i = k + 1
    <3>1. u[i] = t[m]
      BY <1>2, <1>6, <2>2
    <3>2. \E l \in k + 1 .. Len(t) : u[j] = t[l]
      BY <1>1, <1>2, <1>3, <1>6, <1>7, <2>2
    <3>3. u[i] <= u[j]
      BY <1>3, <3>1, <3>2
    <3>4. u[i] # u[j]
      <4>1. \A a, b \in 1 .. Len(t) : u[a] = u[b] => a = b
        BY <1>6, RangeIs
      <4> QED
        BY <1>7, <2>1, <4>1
    <3>5. u[i] \in Nat /\ u[j] \in Nat
      BY <1>6, <2>1, ElementOfSeq
    <3> QED
      BY <3>3, <3>4, <3>5
  <2>3. CASE i # k + 1
    <3>1. i \in 1 .. k /\ i # m /\ u[i] = t[i]
      BY <1>1, <1>3, <1>6, <2>1, <2>3
    <3>2. \E l \in 1 .. Len(t) : i < l /\ u[j] = t[l]
      BY <1>1, <1>2, <1>3, <1>4, <1>6, <1>7, <3>1
    <3> QED
      BY <3>1, <3>2
  <2> QED
    BY <2>2, <2>3
<1> QED
  BY <1>6, <1>7

\* The rounds of the outer loop, as far as m.
RoundsTo(g, s, m) ==
  g = [i \in 0 .. m |-> IF i = 0 THEN s ELSE Swap(g[i - 1], i, MinFrom(g[i - 1], i))]

LEMMA RoundsExist ==
  ASSUME NEW s, NEW m \in Nat
  PROVE  \E g : RoundsTo(g, s, m)
<1> DEFINE Round(t, i) == Swap(t, i, MinFrom(t, i))
           Fold(g, n) == g = [k \in 0 .. n |-> IF k = 0 THEN s ELSE Round(g[k - 1], k)]
           P == {n \in Nat : \E g : Fold(g, n)}
<1> HIDE DEF Round
<1>1. 0 \in P
  <2>1. Fold([k \in 0 .. 0 |-> s], 0)
    OBVIOUS
  <2> QED
    BY <2>1
<1>2. ASSUME NEW n \in P PROVE n + 1 \in P
  <2>1. PICK g : Fold(g, n)
    OBVIOUS
  <2> DEFINE h == [k \in 0 .. n + 1 |-> IF k = n + 1 THEN Round(g[n], n + 1) ELSE g[k]]
  <2>2. \A k \in 0 .. n + 1 : h[k] = IF k = 0 THEN s ELSE Round(h[k - 1], k)
    <3> SUFFICES ASSUME NEW k \in 0 .. n + 1 PROVE h[k] = IF k = 0 THEN s ELSE Round(h[k - 1], k)
      OBVIOUS
    <3>1. CASE k = n + 1
      BY <3>1
    <3>2. CASE k # n + 1
      BY <2>1, <3>2
    <3> QED
      BY <3>1, <3>2
  <2>3. h = [k \in 0 .. n + 1 |-> IF k = 0 THEN s ELSE Round(h[k - 1], k)]
    BY <2>2
  <2> HIDE DEF h
  <2>4. \E g2 : Fold(g2, n + 1)
    BY <2>3
  <2>5. n + 1 \in Nat
    OBVIOUS
  <2> HIDE DEF Fold
  <2> QED
    BY <2>4, <2>5
<1> HIDE DEF P
<1>3. m \in P
  BY <1>1, <1>2, Induction
<1> QED
  BY <1>3 DEF P, Round, RoundsTo

\* Sorting keeps what is in the list, and puts it in increasing order.
LEMMA SortedParts ==
  ASSUME NEW s \in Seq(Nat), IsInjective(s)
  PROVE  /\ Sorted(s) \in Seq(Nat)
         /\ Len(Sorted(s)) = Len(s)
         /\ Range(Sorted(s)) = Range(s)
         /\ IsInjective(Sorted(s))
         /\ Increasing(Sorted(s))
<1>1. Len(s) \in Nat
  BY LenProperties
<1> DEFINE f == CHOOSE g : RoundsTo(g, s, Len(s))
<1>2. \E g : RoundsTo(g, s, Len(s))
  BY <1>1, RoundsExist
<1>3. RoundsTo(f, s, Len(s))
  BY <1>2
<1>4. f = [i \in 0 .. Len(s) |-> IF i = 0 THEN s ELSE Swap(f[i - 1], i, MinFrom(f[i - 1], i))]
  <2> HIDE DEF f
  <2> QED
    BY <1>3 DEF RoundsTo
<1>5. Sorted(s) = f[Len(s)]
  BY Zenon DEF Sorted, RoundsTo
<1> HIDE DEF f
<1>6. f[0] = s
  BY <1>1, <1>4
<1>7. ASSUME NEW k \in 0 .. Len(s) - 1 PROVE f[k + 1] = Swap(f[k], k + 1, MinFrom(f[k], k + 1))
  <2>1. k + 1 \in 0 .. Len(s) /\ k + 1 # 0 /\ (k + 1) - 1 = k
    BY <1>1
  <2> QED
    BY <1>4, <2>1
<1> DEFINE Good(k) ==
      /\ f[k] \in Seq(Nat) /\ Len(f[k]) = Len(s)
      /\ Range(f[k]) = Range(s)
      /\ IsInjective(f[k])
      /\ \A i \in 1 .. k, j \in 1 .. Len(s) : i < j => f[k][i] < f[k][j]
    P == {k \in Nat : k <= Len(s) => Good(k)}
<1>8. 0 \in P
  BY <1>6
<1>9. ASSUME NEW k \in P \cap Nat PROVE k + 1 \in P
  <2> HIDE DEF Good
  <2> SUFFICES ASSUME k + 1 <= Len(s) PROVE Good(k + 1)
    BY <1>9
  <2>1. Good(k) /\ k \in 0 .. Len(s) - 1
    BY <1>1
  <2>2. /\ f[k] \in Seq(Nat) /\ Len(f[k]) = Len(s) /\ Range(f[k]) = Range(s) /\ IsInjective(f[k])
        /\ \A i \in 1 .. k, j \in 1 .. Len(f[k]) : i < j => f[k][i] < f[k][j]
        /\ k \in Nat /\ k + 1 <= Len(f[k])
    BY <1>1, <2>1 DEF Good
  <2>3. /\ f[k + 1] \in Seq(Nat) /\ Len(f[k + 1]) = Len(f[k]) /\ Range(f[k + 1]) = Range(f[k])
        /\ IsInjective(f[k + 1])
        /\ \A i \in 1 .. k + 1, j \in 1 .. Len(f[k]) : i < j => f[k + 1][i] < f[k + 1][j]
    BY <1>7, <2>1, <2>2, RoundParts
  <2> QED
    BY <2>2, <2>3 DEF Good
<1> HIDE DEF P
<1>10. Len(s) \in P
  BY <1>1, <1>8, <1>9, Induction
<1>11. Good(Len(s))
  BY <1>1, <1>10 DEF P
<1> QED
  BY <1>5, <1>11 DEF Increasing

--------------------------------------------------------------------------------
(* The list of entries. *)

\* Before a pass the list is empty; in it, it holds no more than its limit, and
\* less when an entry is about to be written.
Room ==
  /\ pc \in {"table", "back", "open"} => data = <<>>
  /\ pc \in {"read", "stat"} => /\ fe
                                /\ data \in Seq(Names)
                                /\ max \in Nat
                                /\ Len(data) <= max
  /\ pc = "stat" => item \in Names /\ Len(data) < max

LEMMA RoomMade ==
  ASSUME Room, MakeHTML
  PROVE  Room'
<1> USE DEF list
<1>1. ASSUME NEW ok \in AllocOutcomes, CreatTable(ok) PROVE Room'
  BY <1>1 DEF CreatTable, Room
<1>2. ASSUME NEW ok \in AllocOutcomes, InsertBack(ok) PROVE Room'
  BY <1>2 DEF InsertBack, Room
<1>3. ASSUME NEW ok \in AllocOutcomes, InsertRow(ok) PROVE Room'
  BY <1>3 DEF InsertRow, Room
<1>4. ASSUME NEW ok \in AllocOutcomes, ToPageString(ok) PROVE Room'
  BY <1>4 DEF ToPageString, Room
<1>5. ASSUME NEW ok \in AllocOutcomes, SortFileEntry(ok) PROVE Room'
  <2>1. pc' = "rows"
    BY <1>5 DEF SortFileEntry
  <2> QED
    BY <2>1 DEF Room
<1>6. ASSUME NEW ok \in OpenOutcomes, OpenDir(ok) PROVE Room'
  <2>1. data' = <<>> /\ max' = 0 /\ fe' = ok /\ pc' = IF ok THEN "read" ELSE "rows"
    BY <1>6 DEF OpenDir, Room
  <2> QED
    BY <2>1 DEF Room
<1>7. ASSUME NEW ok \in OpenOutcomes, MakeEntryItem(ok) PROVE Room'
  <2>1. /\ pc = "stat" /\ pc' = "read" /\ fe' = fe /\ max' = max
        /\ data' = data \/ data' = Append(data, item)
    BY <1>7 DEF MakeEntryItem
  <2>2. /\ data \in Seq(Names) /\ item \in Names /\ max \in Nat /\ Len(data) < max
        /\ fe /\ Len(data) \in Nat
    BY <2>1 DEF Room
  <2>3. data' \in Seq(Names) /\ Len(data') <= Len(data) + 1 /\ Len(data') \in Nat
    BY <2>1, <2>2, AppendProperties
  <2> QED
    BY <2>1, <2>2, <2>3 DEF Room
<1>8. ASSUME NEW name \in Names, NEW kind \in Kinds, ReadDir(name, kind) PROVE Room'
  <2>1. /\ pc = "read" /\ fe' = fe /\ data' = data /\ item' = name
        /\ max' = IF Len(data) = max THEN max + STEP ELSE max
        /\ pc' \in {"stat", "read"}
    BY <1>8 DEF ReadDir, Full
  <2>2. data \in Seq(Names) /\ max \in Nat /\ Len(data) <= max /\ fe /\ Len(data) \in Nat
    BY <2>1 DEF Room
  <2>3. max' \in Nat /\ Len(data) < max'
    BY <2>1, <2>2, ListingAssumption
  <2> QED
    BY <2>1, <2>2, <2>3 DEF Room
<1>9. ASSUME NEW name \in Names, NEW kind \in Kinds, ReallocFails(name, kind) PROVE Room'
  <2>1. pc' = "sort"
    BY <1>9 DEF ReallocFails
  <2> QED
    BY <2>1 DEF Room
<1>10. CASE FreeEntries
  BY <1>10 DEF FreeEntries, Room
<1>11. CASE EndOfDir
  BY <1>11 DEF EndOfDir, Room
<1> QED
  BY <1>1, <1>2, <1>3, <1>4, <1>5, <1>6, <1>7, <1>8, <1>9, <1>10, <1>11 DEF MakeHTML

\* Nothing but MakeHTML touches the list.
LEMMA ListKept ==
  ASSUME [Next]_allVars
  PROVE  MakePage \/ UNCHANGED <<fe, max, data, item, pc>>
<1>1. ASSUME Access \/ Count \/ BadReqHandler \/ DirReqHandler \/ Open \/ EndOfFile
      PROVE  UNCHANGED <<fe, max, data, item, pc>>
  BY <1>1 DEF Access, Count, ChooseBy, BadReqHandler, DirReqHandler, Open, EndOfFile, Fails, vars,
              list
<1>2. ASSUME Length \/ SendHead \/ Copy \/ UNCHANGED allVars
      PROVE  UNCHANGED <<fe, max, data, item, pc>>
  BY <1>2 DEF Length, SendHead, HeadThen, Copy, allVars, vars, list
<1>3. ASSUME NEW name \in Names, NEW kind \in Kinds \cup {Absent}, Change(name, kind)
      PROVE  UNCHANGED <<fe, max, data, item, pc>>
  BY <1>3 DEF Change, list
<1>4. ASSUME NEW kind \in AllKinds, Rename(kind) PROVE UNCHANGED <<fe, max, data, item, pc>>
  BY <1>4 DEF Rename, vars, list
<1>5. ASSUME NEW blocks \in 0 .. MaxSize, Rewrite(blocks)
      PROVE  UNCHANGED <<fe, max, data, item, pc>>
  BY <1>5 DEF Rewrite, vars, list
<1> QED
  BY <1>1, <1>2, <1>3, <1>4, <1>5 DEF Next, RequestHandler, Others

LEMMA RoomStep ==
  ASSUME Room, [Next]_allVars
  PROVE  Room'
<1>1. CASE MakePage
  BY <1>1, RoomMade DEF MakePage
<1>2. CASE UNCHANGED <<fe, max, data, item, pc>>
  BY <1>2 DEF Room
<1> QED
  BY <1>1, <1>2, ListKept

LEMMA RoomInit ==
  ASSUME RInit
  PROVE  Room
BY DEF RInit, Init, Room

(* MakeEntryItem writes an entry only where the list has room for it, whatever was
   passed over, left out or could not be had before.                             *)
THEOREM WithinCapacityHolds == Spec => []WithinCapacity
<1>1. Room => WithinCapacity
  BY DEF Room, WithinCapacity
<1> QED
  BY <1>1, RoomInit, RoomStep, PTL DEF Spec

--------------------------------------------------------------------------------
(* Type correctness. *)

\* The names in the list differ: in a pass each has been returned by readdir() and
\* is looked at once.  The list has grown by no more than one STEP.
Distinct ==
  /\ IsInjective(data)
  /\ pc \in {"read", "stat"} => Range(data) \subseteq seen /\ max <= Len(data) + STEP
  /\ pc = "stat" => item \in seen /\ item \notin Range(data)

\* A page is made at "dir" only, and nothing is opened then.
Placed ==
  /\ at \in {"access", "count", "bad", "open", "length", "head", "copy"} => pc = "table"
  /\ at \in {"access", "count", "bad", "open", "dir"} => fd = Absent

ListInv == ListingTypeOK /\ Room /\ Distinct
TypeInv == TypeOK /\ Room /\ Distinct /\ Placed

LEMMA NamesFinite ==
  /\ Cardinality(Names) \in Nat /\ STEP \in Nat /\ STEP > 0
  /\ \A s \in Seq(Names) : IsInjective(s) => Len(s) <= Cardinality(Names)
<1>1. Cardinality(Names) \in Nat
  BY ListingAssumption, FS_CardinalityType
<1>2. ASSUME NEW s \in Seq(Names), IsInjective(s) PROVE Len(s) <= Cardinality(Names)
  <2>1. Len(s) \in Nat /\ s \in [1 .. Len(s) -> Names]
    BY LenProperties
  <2>2. s \in Injection(1 .. Len(s), Names)
    BY <1>2, <2>1 DEF Injection, IsInjective
  <2>3. Cardinality(1 .. Len(s)) <= Cardinality(Names)
    BY <2>2, ListingAssumption, FS_Injection
  <2>4. Cardinality(1 .. Len(s)) = Len(s)
    BY <2>1, FS_Interval
  <2> QED
    BY <2>3, <2>4
<1> QED
  BY <1>1, <1>2, ListingAssumption

LEMMA EmptyParts == <<>> \in Seq(Names) /\ Range(<<>>) = {} /\ IsInjective(<<>>) /\ Len(<<>>) = 0
  BY DEF Range, IsInjective

LEMMA NamesNat == Names \subseteq Nat /\ Seq(Names) \subseteq Seq(Nat)
<1>1. Names \subseteq Nat
  BY ListingAssumption
<1>2. ASSUME NEW s \in Seq(Names) PROVE s \in Seq(Nat)
  <2>1. Len(s) \in Nat /\ s \in [1 .. Len(s) -> Names]
    BY LenProperties
  <2>2. s = [i \in 1 .. Len(s) |-> s[i]] /\ \A i \in 1 .. Len(s) : s[i] \in Nat
    BY <1>1, <2>1
  <2> QED
    BY <2>1, <2>2
<1> QED
  BY <1>1, <1>2

\* A list of names is one of the same names when it is sorted.
LEMMA SortedNames ==
  ASSUME NEW s \in Seq(Names), IsInjective(s)
  PROVE  /\ Sorted(s) \in Seq(Names) /\ IsInjective(Sorted(s)) /\ Range(Sorted(s)) = Range(s)
         /\ Increasing(Sorted(s))
<1>1. s \in Seq(Nat)
  BY NamesNat
<1>2. /\ Sorted(s) \in Seq(Nat) /\ IsInjective(Sorted(s)) /\ Range(Sorted(s)) = Range(s)
      /\ Increasing(Sorted(s))
  BY <1>1, SortedParts
<1>3. Range(Sorted(s)) \subseteq Names
  BY <1>2, RangeIs
<1>4. Sorted(s) \in Seq(Names)
  <2> DEFINE t == Sorted(s)
  <2>1. t \in Seq(Nat) /\ Range(t) \subseteq Names
    BY <1>2, <1>3
  <2> HIDE DEF t
  <2>2. \A i \in 1 .. Len(t) : t[i] \in Names
    BY <2>1, RangeIs
  <2>3. Len(t) \in Nat /\ t = [i \in 1 .. Len(t) |-> t[i]]
    BY <2>1, LenProperties
  <2>4. t \in Seq(Names)
    BY <2>2, <2>3
  <2> QED
    BY <2>4 DEF t
<1> QED
  BY <1>2, <1>4

LEMMA ListMade ==
  ASSUME ListInv, MakeHTML
  PROVE  ListInv'
<1> USE DEF ListInv
<1>0. Room'
  BY RoomMade
<1>1. ASSUME NEW ok \in AllocOutcomes, CreatTable(ok) PROVE ListingTypeOK' /\ Distinct'
  BY <1>1, ListingAssumption DEF CreatTable, ListingTypeOK, Distinct, directory, list
<1>2. ASSUME NEW ok \in AllocOutcomes, InsertBack(ok) PROVE ListingTypeOK' /\ Distinct'
  BY <1>2, ListingAssumption DEF InsertBack, ListingTypeOK, Distinct, directory, list
<1>3. ASSUME NEW ok \in AllocOutcomes, InsertRow(ok) PROVE ListingTypeOK' /\ Distinct'
  <2>1. /\ pc = "rows" /\ pc' = pc /\ data # <<>> /\ data' = Tail(data) /\ failed' = (failed \/ ~ok)
        /\ UNCHANGED <<directory, had, seen, type, fe, max, item>>
    BY <1>3 DEF InsertRow
  <2>2. data' \in Seq(Names) /\ IsInjective(data')
    BY <2>1, TailParts DEF ListingTypeOK, Distinct
  <2> QED
    BY <2>1, <2>2, ListingAssumption DEF ListingTypeOK, Distinct, directory
<1>4. ASSUME NEW ok \in AllocOutcomes, ToPageString(ok) PROVE ListingTypeOK' /\ Distinct'
  BY <1>4, ListingAssumption DEF ToPageString, ListingTypeOK, Distinct, directory, list
<1>5. ASSUME NEW ok \in AllocOutcomes, SortFileEntry(ok) PROVE ListingTypeOK' /\ Distinct'
  <2>1. /\ pc' = "rows" /\ failed' = (failed \/ ~ok)
        /\ data' = IF fe /\ ok THEN Sorted(data) ELSE data
        /\ UNCHANGED <<directory, had, seen, type, fe, max, item>>
    BY <1>5 DEF SortFileEntry
  <2>2. data' \in Seq(Names) /\ IsInjective(data')
    BY <2>1, SortedNames DEF ListingTypeOK, Distinct
  <2> QED
    BY <2>1, <2>2, ListingAssumption DEF ListingTypeOK, Distinct, directory
<1>6. ASSUME NEW ok \in OpenOutcomes, OpenDir(ok) PROVE ListingTypeOK' /\ Distinct'
  <2>1. /\ pc = "open" /\ had' = [n \in Names |-> {disk[n]}] /\ seen' = {} /\ fe' = ok /\ max' = 0
        /\ failed' = (failed \/ ~ok) /\ pc' \in {"read", "rows"}
        /\ UNCHANGED <<directory, type, data, item>>
    BY <1>6 DEF OpenDir
  <2>2. data = <<>> /\ Range(data) = {} /\ Len(data) = 0
    BY <2>1, EmptyParts DEF Room
  <2>3. had' \in [Names -> SUBSET (Kinds \cup {Absent})]
    BY <2>1 DEF ListingTypeOK
  <2> QED
    BY <2>1, <2>2, <2>3, ListingAssumption, NamesFinite DEF ListingTypeOK, Distinct, directory
<1>7. ASSUME NEW ok \in OpenOutcomes, MakeEntryItem(ok) PROVE ListingTypeOK' /\ Distinct'
  <2>1. /\ pc = "stat" /\ pc' = "read" /\ failed' = (failed \/ ~ok)
        /\ (data' = data \/ data' = Append(data, item))
        /\ UNCHANGED <<directory, had, seen, type, fe, max, item>>
    BY <1>7 DEF MakeEntryItem
  <2>2. item \in Names /\ item \in seen /\ item \notin Range(data) /\ data \in Seq(Names)
        /\ Len(data) \in Nat /\ max \in Nat /\ max <= Len(data) + STEP
        /\ Range(data) \subseteq seen /\ IsInjective(data)
    BY <2>1 DEF Room, Distinct
  <2>3. /\ Append(data, item) \in Seq(Names) /\ IsInjective(Append(data, item))
        /\ Range(Append(data, item)) = Range(data) \cup {item} /\ Len(Append(data, item)) = Len(data) + 1
    BY <2>2, AppendParts, AppendProperties
  <2>4. /\ data' \in Seq(Names) /\ IsInjective(data') /\ Range(data') \subseteq seen
        /\ max <= Len(data') + STEP
    <3>1. STEP \in Nat
      BY NamesFinite
    <3>2. CASE data' = data
      BY <2>2, <3>2
    <3>3. CASE data' = Append(data, item)
      <4>1. max <= Len(data) + 1 + STEP
        BY <2>2, <3>1
      <4> QED
        BY <2>2, <2>3, <3>3, <4>1
    <3> QED
      BY <2>1, <3>2, <3>3
  <2> QED
    BY <2>1, <2>4, ListingAssumption DEF ListingTypeOK, Distinct, directory
<1>8. ASSUME NEW name \in Names, NEW kind \in Kinds, ReadDir(name, kind) PROVE ListingTypeOK' /\ Distinct'
  <2>1. /\ pc = "read" /\ name \notin seen /\ seen' = seen \cup {name} /\ item' = name
        /\ max' = IF Len(data) = max THEN max + STEP ELSE max
        /\ pc' \in {"stat", "read"}
        /\ UNCHANGED <<directory, failed, had, type, fe, data>>
    BY <1>8 DEF ReadDir, Returned, Full
  <2>2. data \in Seq(Names) /\ Len(data) \in Nat /\ max \in Nat /\ max <= Len(data) + STEP
        /\ Range(data) \subseteq seen /\ IsInjective(data) /\ Len(data) <= Cardinality(Names)
    BY <2>1, NamesFinite DEF Room, Distinct
  <2>3. STEP \in Nat /\ STEP > 0 /\ Cardinality(Names) \in Nat
    BY NamesFinite
  <2>4. max' \in Nat /\ max' <= Len(data) + STEP
    BY <2>1, <2>2, <2>3
  <2>5. max' \in 0 .. Cardinality(Names) + STEP
    BY <2>2, <2>3, <2>4
  <2> QED
    BY <2>1, <2>2, <2>4, <2>5 DEF ListingTypeOK, Distinct, directory
<1>9. ASSUME NEW name \in Names, NEW kind \in Kinds, ReallocFails(name, kind)
      PROVE  ListingTypeOK' /\ Distinct'
  <2>1. /\ pc = "read" /\ Len(data) = max /\ seen' = seen \cup {name} /\ item' = name
        /\ max' = max + STEP /\ fe' = FALSE /\ data' = <<>> /\ failed' = TRUE /\ pc' = "sort"
        /\ UNCHANGED <<directory, had, type>>
    BY <1>9 DEF ReallocFails, Full
  <2>2. data \in Seq(Names) /\ Len(data) \in Nat /\ Len(data) <= Cardinality(Names)
    BY <2>1, NamesFinite DEF Room, Distinct
  <2>3. max' \in 0 .. Cardinality(Names) + STEP
    BY <2>1, <2>2, NamesFinite
  <2> QED
    BY <2>1, <2>3, EmptyParts DEF ListingTypeOK, Distinct, directory
<1>10. ASSUME FreeEntries PROVE ListingTypeOK' /\ Distinct'
  <2>1. pc' \in {"open", "string"} /\ fe' = FALSE /\ type' = "file"
    BY <1>10 DEF FreeEntries
  <2>2. UNCHANGED <<disk, changes, steady, failed, had, seen, max, data, item>>
    BY <1>10 DEF FreeEntries, directory
  <2> QED
    BY <2>1, <2>2 DEF ListingTypeOK, Distinct
<1>11. ASSUME EndOfDir PROVE ListingTypeOK' /\ Distinct'
  <2>1. pc' = "sort" /\ UNCHANGED <<disk, changes, steady, failed, had, seen, type, fe, max, data, item>>
    BY <1>11 DEF EndOfDir, directory, list
  <2> QED
    BY <2>1 DEF ListingTypeOK, Distinct
<1> QED
  BY <1>0, <1>1, <1>2, <1>3, <1>4, <1>5, <1>6, <1>7, <1>8, <1>9, <1>10, <1>11 DEF MakeHTML

LEMMA Division ==
  ASSUME NEW n \in Int, NEW t \in Nat \ {0}
  PROVE  n % t \in 0 .. t - 1
  BY SMT

\* An int takes a value of its own, and that of a number that it can hold.
LEMMA ToIntParts ==
  ASSUME NEW n \in Nat
  PROVE  ToInt(n) \in -IntLimit .. IntLimit - 1 /\ (n < IntLimit => ToInt(n) = n)
<1> DEFINE t == 2 * IntLimit
<1>1. IntLimit \in Nat \ {0} /\ t \in Nat \ {0} /\ t = IntLimit + IntLimit
  BY ResponseAssumption
<1>2. n + IntLimit \in Nat
  BY <1>1
<1>3. (n + IntLimit) % t \in 0 .. t - 1
  BY <1>1, <1>2, Division
<1>4. ASSUME n < IntLimit PROVE (n + IntLimit) % t = n + IntLimit
  <2> DEFINE m == n + IntLimit
  <2>1. m \in Nat /\ m < t
    BY <1>1, <1>2, <1>4
  <2> HIDE DEF t, m
  <2>2. m % t = m
    BY <1>1, <2>1, SMT
  <2> QED
    BY <2>2 DEF m
<1> HIDE DEF t
<1>5. ToInt(n) = ((n + IntLimit) % t) - IntLimit
  BY DEF ToInt, t
<1> QED
  BY <1>1, <1>2, <1>3, <1>4, <1>5

LEMMA TypeInit ==
  ASSUME RInit
  PROVE  TypeInv
<1>1. /\ data = <<>> /\ pc = "table" /\ at = "access" /\ fd = Absent /\ root \in was /\ was = {root}
      /\ edits = 0 /\ length = 0 /\ pos = 0 /\ body = 0 /\ max = 0 /\ item = 0 /\ changes = 0
  BY DEF RInit, Init
<1>2. /\ MaxChanges \in Nat /\ MaxSize \in Nat /\ MaxEdits \in Nat /\ IntLimit \in Nat \ {0}
      /\ STEP \in Nat /\ Cardinality(Names) \in Nat
  BY ListingAssumption, ResponseAssumption, NamesFinite
<1>3. root \in AllKinds /\ size \in 0 .. MaxSize /\ written \in BOOLEAN /\ answer = "none"
  <2>1. root \in AllKinds /\ written = FALSE /\ answer = "none"
    BY <1>2 DEF RInit
  <2>2. size \in IF root = "file" THEN 0 .. MaxSize ELSE {0}
    BY DEF RInit
  <2>3. 0 \in 0 .. MaxSize
    BY <1>2
  <2>4. size \in 0 .. MaxSize
    BY <2>2, <2>3
  <2> QED
    BY <2>1, <2>4
<1>4. ListingTypeOK
  <2>1. /\ disk \in [Names -> Kinds \cup {Absent}] /\ steady = Names /\ failed = FALSE /\ seen = {}
        /\ type = "dir" /\ fe = FALSE
    BY DEF RInit, Init
  <2>2. had = [n \in Names |-> {}]
    BY DEF RInit, Init
  <2>3. had \in [Names -> SUBSET (Kinds \cup {Absent})]
    BY <2>2
  <2>4. 0 \in 0 .. Cardinality(Names) + STEP /\ 0 \in 0 .. MaxChanges
    BY <1>2
  <2> QED
    BY <1>1, <2>1, <2>3, <2>4, EmptyParts DEF ListingTypeOK
<1>5. TypeOK
  BY <1>1, <1>2, <1>3, <1>4 DEF TypeOK, AllKinds
<1>6. Room /\ Distinct /\ Placed
  BY <1>1, EmptyParts DEF Room, Distinct, Placed
<1> QED
  BY <1>5, <1>6 DEF TypeInv

\* Steps that leave the list alone, or say only that something failed.
LEMMA ListUntouched ==
  ASSUME ListInv, failed' \in BOOLEAN,
         UNCHANGED <<disk, changes, steady, had, seen, type, fe, max, data, item, pc>>
  PROVE  ListInv'
  BY DEF ListInv, ListingTypeOK, Room, Distinct

LEMMA TypeHandler ==
  ASSUME TypeInv, RequestHandler
  PROVE  TypeInv'
<1> USE DEF TypeInv
<1>1. CASE MakePage
  <2>1. ListInv'
    BY <1>1, ListMade DEF MakePage, ListInv, TypeOK
  <2>2. at = "dir" /\ UNCHANGED <<root, size, edits, was, at, fd, length, written, pos, body, answer>>
    BY <1>1 DEF MakePage, rvars, path, copying
  <2>3. TypeOK' /\ Placed'
    BY <2>1, <2>2 DEF ListInv, TypeOK, Placed
  <2> QED
    BY <2>1, <2>3 DEF ListInv
<1>2. ASSUME Access \/ Count \/ BadReqHandler \/ DirReqHandler \/ Open \/ Length \/ SendHead \/ Copy \/ EndOfFile
      PROVE  TypeInv'
  <2>1. UNCHANGED <<disk, changes, steady, had, seen, type, fe, max, data, item, pc>> /\ failed' \in BOOLEAN
    <3>1. failed \in BOOLEAN
      BY DEF TypeOK, ListingTypeOK
    <3>2. ASSUME UNCHANGED vars \/ Fails
          PROVE  /\ UNCHANGED <<disk, changes, steady, had, seen, type, fe, max, data, item, pc>>
                 /\ failed' \in BOOLEAN
      BY <3>1, <3>2 DEF Fails, vars, directory, list
    <3>3. UNCHANGED vars \/ Fails
      BY <1>2 DEF Access, Count, ChooseBy, BadReqHandler, DirReqHandler, Open, Length, SendHead,
                  HeadThen, Copy, EndOfFile
    <3> QED
      BY <3>2, <3>3
  <2>2. ListInv'
    BY <2>1, ListUntouched DEF ListInv, TypeOK
  <2>3. UNCHANGED <<root, size, edits, was>>
    BY <1>2 DEF Access, Count, ChooseBy, BadReqHandler, DirReqHandler, Open, Length, SendHead,
                HeadThen, Copy, EndOfFile, Goto, Sent, path
  <2>4. pc' = pc
    BY <2>1
  <2> DEFINE Same == UNCHANGED <<fd, length, written, pos, body>>
  <2>5. CASE Access
    <3>1. Same /\ UNCHANGED answer /\ at = "access" /\ at' \in {"count", "bad"}
      BY <2>5 DEF Access, Goto, copying
    <3> QED
      BY <2>2, <2>3, <2>4, <3>1 DEF ListInv, TypeOK, Placed
  <2>6. CASE Count
    <3>1. Same /\ UNCHANGED answer /\ at = "count" /\ at' \in {"open", "dir"}
      BY <2>6 DEF Count, ChooseBy, Goto, copying
    <3> QED
      BY <2>2, <2>3, <2>4, <3>1 DEF ListInv, TypeOK, Placed
  <2>7. CASE BadReqHandler \/ DirReqHandler
    <3>1. Same /\ answer' \in {answer, "error", "page"} /\ at' = "end"
      BY <2>7 DEF BadReqHandler, DirReqHandler, Goto, Sent, copying
    <3> QED
      BY <2>2, <2>3, <2>4, <3>1 DEF ListInv, TypeOK, Placed
  <2>8. CASE Open
    <3>1. /\ at = "open" /\ at' \in {"length", "end"} /\ fd' \in {fd, root}
          /\ UNCHANGED <<length, written, pos, body, answer>>
      BY <2>8 DEF Open, Goto, copying
    <3> QED
      BY <2>2, <2>3, <2>4, <3>1 DEF ListInv, TypeOK, Placed
  <2>9. CASE Length
    <3>1. /\ at = "length" /\ at' = "head" /\ pos' \in {pos, size} /\ length' \in {ToInt(size), -1, 1}
          /\ UNCHANGED <<fd, written, body, answer>>
      BY <2>9 DEF Length
    <3>2. ToInt(size) \in -IntLimit .. IntLimit - 1
      BY ToIntParts DEF TypeOK
    <3>3. length' \in -IntLimit .. IntLimit - 1
      BY <3>1, <3>2, ResponseAssumption
    <3>4. pos' \in 0 .. MaxSize
      BY <3>1 DEF TypeOK
    <3> QED
      BY <2>2, <2>3, <2>4, <3>1, <3>3, <3>4 DEF ListInv, TypeOK, Placed
  <2>10. CASE SendHead
    <3>1. /\ at = "head" /\ at' = "copy" /\ pos' = 0 /\ answer' = "file"
          /\ UNCHANGED <<fd, length, written, body>>
      BY <2>10 DEF SendHead, HeadThen
    <3> QED
      BY <2>2, <2>3, <2>4, <3>1, ResponseAssumption DEF ListInv, TypeOK, Placed
  <2>11. CASE Copy
    <3>1. /\ at = "copy" /\ at' = at /\ pos < size /\ pos' = pos + 1 /\ body' = body + 1
          /\ UNCHANGED <<fd, length, written, answer>>
      BY <2>11 DEF Copy
    <3>2. pos' \in 0 .. MaxSize /\ body' \in Nat
      BY <3>1, ResponseAssumption DEF TypeOK
    <3> QED
      BY <2>2, <2>3, <2>4, <3>1, <3>2 DEF ListInv, TypeOK, Placed
  <2>12. CASE EndOfFile
    <3>1. Same /\ UNCHANGED answer /\ at' = "end"
      BY <2>12 DEF EndOfFile, Goto, copying
    <3> QED
      BY <2>2, <2>3, <2>4, <3>1 DEF ListInv, TypeOK, Placed
  <2> QED
    BY <1>2, <2>5, <2>6, <2>7, <2>8, <2>9, <2>10, <2>11, <2>12
<1> QED
  BY <1>1, <1>2 DEF RequestHandler

LEMMA TypeStep ==
  ASSUME TypeInv, [Next]_allVars
  PROVE  TypeInv'
<1>1. CASE RequestHandler
  BY <1>1, TypeHandler
<1>2. ASSUME NEW name \in Names, NEW kind \in Kinds \cup {Absent}, Change(name, kind), UNCHANGED rvars
      PROVE  TypeInv'
  <2>1. /\ UNCHANGED <<failed, seen, type, fe, max, data, item, pc>>
        /\ UNCHANGED <<root, size, edits, was, at, fd, length, written, pos, body, answer>>
    BY <1>2 DEF Change, rvars, path, copying, list
  <2>2. /\ disk' \in [Names -> Kinds \cup {Absent}] /\ steady' \subseteq Names
        /\ changes' \in 0 .. MaxChanges /\ had' \in [Names -> SUBSET (Kinds \cup {Absent})]
    BY <1>2, ListingAssumption DEF Change, TypeInv, TypeOK, ListingTypeOK
  <2> QED
    BY <2>1, <2>2 DEF TypeInv, TypeOK, ListingTypeOK, Room, Distinct, Placed
<1>3. ASSUME UNCHANGED vars, ListInv PROVE ListInv'
  BY <1>3, ListUntouched DEF vars, directory, list, ListInv, ListingTypeOK
<1>4. ASSUME NEW kind \in AllKinds, Rename(kind) PROVE TypeInv'
  <2>1. UNCHANGED <<size, at, fd, length, written, pos, body, answer, pc>>
    BY <1>4 DEF Rename, vars, copying
  <2>2. root' \in AllKinds /\ root' \in was' /\ was' \subseteq AllKinds /\ edits' \in 0 .. MaxEdits
    BY <1>4, ResponseAssumption DEF Rename, TypeInv, TypeOK
  <2>3. ListInv'
    BY <1>3, <1>4 DEF Rename, TypeInv, TypeOK, ListInv
  <2> QED
    BY <2>1, <2>2, <2>3 DEF TypeInv, TypeOK, ListInv, Placed
<1>5. ASSUME NEW blocks \in 0 .. MaxSize, Rewrite(blocks) PROVE TypeInv'
  <2>1. UNCHANGED <<root, was, at, fd, length, pos, body, answer, pc>>
    BY <1>5 DEF Rewrite, vars
  <2>2. size' \in 0 .. MaxSize /\ written' \in BOOLEAN /\ edits' \in 0 .. MaxEdits
    BY <1>5, ResponseAssumption DEF Rewrite, TypeInv, TypeOK
  <2>3. ListInv'
    BY <1>3, <1>5 DEF Rewrite, TypeInv, TypeOK, ListInv
  <2> QED
    BY <2>1, <2>2, <2>3 DEF TypeInv, TypeOK, ListInv, Placed
<1>6. CASE UNCHANGED allVars
  <2>1. UNCHANGED <<root, size, edits, was, at, fd, length, written, pos, body, answer, pc>>
    BY <1>6 DEF allVars, vars, rvars, path, copying
  <2>2. ListInv'
    BY <1>3, <1>6 DEF allVars, TypeInv, TypeOK, ListInv
  <2> QED
    BY <2>1, <2>2 DEF TypeInv, TypeOK, ListInv, Placed
<1> QED
  BY <1>1, <1>2, <1>4, <1>5, <1>6 DEF Next, Others

(* Every variable has its type: however many entries the directory has and in whatever
   order readdir() returns them, the list never has an entry twice, and while it is
   made its limit is no more than one STEP beyond what it holds; and the length that
   FileReqHandler sends is one an int can have.                                  *)
THEOREM TypeCorrect == Spec => []TypeOK
<1>1. TypeInv => TypeOK
  BY DEF TypeInv
<1> QED
  BY <1>1, TypeInit, TypeStep, PTL DEF Spec

--------------------------------------------------------------------------------
(* The answer. *)

\* What is known of the path at each place, as long as nothing failed.
Known ==
  CASE at = "access" -> TRUE
    [] at = "count"  -> \E kind \in was : kind # Absent
    [] at = "bad"    -> Absent \in was
    [] at = "dir"    -> "dir" \in was
    [] at = "open"   -> "file" \in was \/ (Absent \in was /\ \E kind \in was : kind # Absent)
    [] at \in {"length", "head", "copy"} ->
         fd # Absent /\ fd \in was /\ (fd = "dir" => "file" \in was \/ Absent \in was)
    [] at = "end"    -> AnswerFits

Fitting ==
  /\ was \subseteq AllKinds
  /\ root \in was
  /\ pc = "null" => failed
  /\ at \in {"access", "count", "bad", "dir", "open", "length", "head"} => answer = "none"
  /\ at = "copy" => answer = "file"
  /\ at \in {"access", "count", "open", "length", "head", "copy", "dir", "bad", "end"}
  /\ ~failed => Known

LEMMA TwoKinds ==
  ASSUME was \subseteq AllKinds, NEW j \in was, NEW k \in was, j # k
  PROVE  Cardinality(was) > 1
<1>1. IsFiniteSet({}) /\ Cardinality({}) = 0
  BY FS_EmptySet
<1>2. IsFiniteSet({j}) /\ Cardinality({j}) = 1
  BY FS_Singleton
<1>3. IsFiniteSet({j} \cup {k}) /\ Cardinality({j} \cup {k}) = 2
  BY <1>2, FS_AddElement
<1>4. IsFiniteSet(AllKinds)
  <2>1. IsFiniteSet({"dir"})
    BY FS_Singleton
  <2>2. IsFiniteSet({"dir"} \cup {"file"})
    BY <2>1, FS_AddElement
  <2>3. IsFiniteSet(({"dir"} \cup {"file"}) \cup {Absent})
    BY <2>2, FS_AddElement
  <2>4. ({"dir"} \cup {"file"}) \cup {Absent} = AllKinds
    BY DEF AllKinds
  <2> QED
    BY <2>3, <2>4
<1>5. IsFiniteSet(was) /\ Cardinality(was) \in Nat
  BY <1>4, FS_Subset, FS_CardinalityType
<1>6. Cardinality({j} \cup {k}) <= Cardinality(was)
  BY <1>5, FS_Subset
<1> QED
  BY <1>3, <1>5, <1>6

LEMMA CountNat == EntryCount \in Nat
<1>1. {n \in Names \ Dots : disk[n] # Absent} \subseteq Names
  OBVIOUS
<1>2. IsFiniteSet({n \in Names \ Dots : disk[n] # Absent})
  BY <1>1, ListingAssumption, FS_Subset
<1> QED
  BY <1>2, FS_CardinalityType DEF EntryCount

LEMMA FittingInit ==
  ASSUME RInit
  PROVE  Fitting
BY DEF RInit, Init, Fitting, Known, AllKinds, Absent

\* What the request itself does.
LEMMA FittingHandler ==
  ASSUME Fitting, RequestHandler
  PROVE  Fitting'
<1> USE DEF Fitting, Goto, Fails, path, copying
<1>1. CASE Access
  BY <1>1 DEF Access, Known, vars
<1>2. CASE Count
  <2>1. ~(EntryCount < 0)
    BY CountNat
  <2>2. CASE at' = IF root # "dir" \/ EntryCount < 0 THEN "open" ELSE "dir"
    BY <1>2, <2>1, <2>2 DEF Count, ChooseBy, Known, vars, AllKinds, Absent
  <2>3. CASE failed' = TRUE
    BY <1>2, <2>3 DEF Count, ChooseBy, vars
  <2> QED
    BY <1>2, <2>2, <2>3 DEF Count, ChooseBy
<1>3. CASE BadReqHandler
  BY <1>3 DEF BadReqHandler, Sent, Known, AnswerFits, AnswerTo, vars, AllKinds, Absent
<1>4. CASE MakePage
  <2>1. UNCHANGED rvars /\ at = "dir" /\ MakeHTML
    BY <1>4 DEF MakePage
  <2>2. (failed => failed') /\ (pc' = "null" => failed' \/ pc = "null")
    BY <2>1 DEF MakeHTML, CreatTable, InsertBack, InsertRow, ToPageString, SortFileEntry, OpenDir,
                MakeEntryItem, ReadDir, ReallocFails, FreeEntries, EndOfDir
  <2> QED
    BY <2>1, <2>2 DEF rvars, Known
<1>5. CASE DirReqHandler
  BY <1>5 DEF DirReqHandler, Sent, Known, AnswerFits, AnswerTo, vars, AllKinds, Absent
<1>6. CASE Open
  <2>1. at = "open"
    BY <1>6 DEF Open
  <2>2. CASE failed' = TRUE
    BY <1>6, <2>2 DEF Open, vars
  <2>3. CASE /\ at' = IF root = Absent THEN "end" ELSE "length"
             /\ fd' = root /\ ~failed
             /\ UNCHANGED <<vars, path, length, written, pos, body, answer>>
    <3>1. CASE root = Absent
      <4>1. \E kind \in was : kind # Absent
        BY <2>1, <2>3 DEF Known, Absent
      <4>2. Cardinality(was) > 1
        BY <3>1, <4>1, TwoKinds
      <4> QED
        BY <2>1, <2>3, <3>1, <4>2 DEF Known, AnswerFits, vars
    <3>2. CASE root # Absent
      BY <2>1, <2>3, <3>2 DEF Known, vars, AllKinds
    <3> QED
      BY <3>1, <3>2
  <2>4. CASE failed
    BY <1>6, <2>4 DEF Open, vars
  <2> QED
    BY <1>6, <2>2, <2>3, <2>4 DEF Open
<1>7. CASE Length
  BY <1>7 DEF Length, Known, vars
<1>8. CASE SendHead
  BY <1>8 DEF SendHead, HeadThen, Known, vars
<1>9. CASE Copy
  BY <1>9 DEF Copy, Known, vars
<1>10. CASE EndOfFile
  <2>1. /\ at = "copy" /\ at' = "end" /\ answer = "file"
        /\ failed' = failed \/ failed' = TRUE
        /\ UNCHANGED <<was, root, pc, fd, answer>>
    BY <1>10 DEF EndOfFile, vars
  <2>2. ~failed' => AnswerFits'
    BY <2>1 DEF Known, AnswerFits, AnswerTo, AllKinds, Absent
  <2> QED
    BY <2>1, <2>2 DEF Known
<1> QED
  BY <1>1, <1>2, <1>3, <1>4, <1>5, <1>6, <1>7, <1>8, <1>9, <1>10 DEF RequestHandler

LEMMA FittingStep ==
  ASSUME Fitting, [Next]_allVars
  PROVE  Fitting'
<1>1. CASE RequestHandler
  BY <1>1, FittingHandler
<1>2. ASSUME NEW name \in Names, NEW kind \in Kinds \cup {Absent}, Change(name, kind), UNCHANGED rvars
      PROVE  Fitting'
  <2>1. UNCHANGED <<was, root, at, fd, answer, failed, pc>>
    BY <1>2 DEF Change, rvars, path, copying
  <2> QED
    BY <2>1 DEF Fitting, Known, AnswerFits
<1>3. ASSUME NEW kind \in AllKinds, Rename(kind) PROVE Fitting'
  <2>1. /\ at # "end" /\ was \subseteq was' /\ root' \in was' /\ was' \subseteq AllKinds
        /\ UNCHANGED <<at, fd, answer, failed, pc>>
    BY <1>3 DEF Rename, copying, vars, Fitting
  <2> QED
    BY <2>1 DEF Fitting, Known
<1>4. ASSUME NEW blocks \in 0 .. MaxSize, Rewrite(blocks) PROVE Fitting'
  <2>1. UNCHANGED <<was, root, at, fd, answer, failed, pc>>
    BY <1>4 DEF Rewrite, vars
  <2> QED
    BY <2>1 DEF Fitting, Known, AnswerFits
<1>5. CASE UNCHANGED allVars
  <2>1. UNCHANGED <<was, root, at, fd, answer, failed, pc>>
    BY <1>5 DEF allVars, rvars, path, copying, vars
  <2> QED
    BY <2>1 DEF Fitting, Known, AnswerFits
<1> QED
  BY <1>1, <1>2, <1>3, <1>4, <1>5 DEF Next, Others

(* However often the path is renamed while RequestHandler looks at it three times, the
   answer fits something it named, and a directory is answered as a file only if it
   was away while its entries were counted.                                      *)
THEOREM AnswerFitsAlways == Spec => []AnswerFits
<1>1. Fitting => AnswerFits
  BY DEF Fitting, Known, AnswerFits
<1> QED
  BY <1>1, FittingInit, FittingStep, PTL DEF Spec

--------------------------------------------------------------------------------
(* The length. *)

\* What is known of a file that is being sent: until it is written to, its length is
\* the one that was taken, and the position is what has been sent.
Sending ==
  /\ at \in {"access", "count", "bad", "dir", "open", "length", "head"} => body = 0
  /\ at \in {"access", "count", "bad", "dir", "open", "length"} => ~written
  /\ at \in {"length", "head", "copy"} => fd \in {"dir", "file"}
  /\ at \in {"head", "copy"} /\ fd = "file" /\ ~written => length = ToInt(size)
  /\ at = "copy" /\ fd = "file" => body = pos /\ (~written => pos <= size)
  /\ at = "copy" /\ fd = "dir" => body = 0
  /\ at = "end" => LengthTrue

SendInv == TypeInv /\ Fitting /\ Sending

LEMMA SendingInit ==
  ASSUME RInit
  PROVE  Sending
  BY DEF RInit, Sending

LEMMA SendingHandler ==
  ASSUME SendInv, RequestHandler
  PROVE  Sending'
<1>1. CASE MakePage
  <2>1. at = "dir" /\ UNCHANGED <<at, fd, length, written, pos, body, size>>
    BY <1>1 DEF MakePage, rvars, path, copying
  <2> QED
    BY <2>1 DEF SendInv, Sending
<1>2. CASE Access \/ Count
  <2>1. /\ at \in {"access", "count"} /\ at' \in {"count", "bad", "open", "dir"}
        /\ UNCHANGED <<fd, length, written, pos, body, size>>
    BY <1>2 DEF Access, Count, ChooseBy, Goto, path, copying
  <2> QED
    BY <2>1 DEF SendInv, Sending
<1>3. CASE BadReqHandler \/ DirReqHandler
  <2>1. at \in {"bad", "dir"} /\ at' = "end" /\ answer' \in {answer, "error", "page"}
    BY <1>3 DEF BadReqHandler, DirReqHandler, Goto, Sent
  <2>2. answer' # "file"
    BY <2>1 DEF SendInv, Fitting
  <2> QED
    BY <2>1, <2>2 DEF Sending, LengthTrue
<1>4. CASE Open
  <2>1. at = "open" /\ answer' = "none" /\ UNCHANGED <<written, pos, body, size>>
    BY <1>4 DEF Open, Goto, path, copying, SendInv, Fitting
  <2>2. at' = "end" \/ (at' = "length" /\ fd' = root /\ root # Absent)
    BY <1>4 DEF Open, Goto
  <2>3. root # Absent => root \in {"dir", "file"}
    BY DEF SendInv, TypeInv, TypeOK, AllKinds
  <2> QED
    BY <2>1, <2>2, <2>3 DEF SendInv, Sending, LengthTrue
<1>5. CASE Length
  <2>1. /\ at = "length" /\ at' = "head" /\ UNCHANGED <<fd, written, body, size>>
        /\ fd = "file" => length' = ToInt(size)
    BY <1>5 DEF Length, path
  <2>2. ToInt(size)' = ToInt(size)
    BY <2>1 DEF ToInt
  <2> QED
    BY <2>1, <2>2 DEF SendInv, Sending
<1>6. CASE SendHead
  <2>1. /\ at = "head" /\ at' = "copy" /\ pos' = 0 /\ UNCHANGED <<fd, length, written, body, size>>
    BY <1>6 DEF SendHead, HeadThen, path
  <2>2. size \in Nat
    BY ResponseAssumption DEF SendInv, TypeInv, TypeOK
  <2>3. ToInt(size)' = ToInt(size)
    BY <2>1 DEF ToInt
  <2> QED
    BY <2>1, <2>2, <2>3 DEF SendInv, Sending
<1>7. CASE Copy
  <2>1. /\ at = "copy" /\ at' = "copy" /\ fd = "file" /\ pos < size /\ pos' = pos + 1 /\ body' = body + 1
        /\ UNCHANGED <<fd, length, written, size>>
    BY <1>7 DEF Copy, path
  <2>2. size \in Nat /\ pos \in Nat /\ body \in Nat
    BY ResponseAssumption DEF SendInv, TypeInv, TypeOK
  <2>3. ToInt(size)' = ToInt(size)
    BY <2>1 DEF ToInt
  <2>4. pos + 1 <= size
    BY <2>1, <2>2
  <2> QED
    BY <2>1, <2>3, <2>4 DEF SendInv, Sending
<1>8. CASE EndOfFile
  <2>1. /\ at = "copy" /\ at' = "end"
        /\ (((fd = "dir" \/ pos >= size) /\ failed' = failed) \/ failed' = TRUE)
        /\ UNCHANGED <<fd, length, written, pos, body, size, answer, was>>
    BY <1>8 DEF EndOfFile, Fails, Goto, path, copying, vars
  <2>2. size \in Nat /\ pos \in Nat
    BY ResponseAssumption DEF SendInv, TypeInv, TypeOK
  <2>3. ASSUME fd = "file", ~written, size < IntLimit
        PROVE  length = size /\ (body = size \/ (failed' /\ body < size))
    <3>1. body = pos /\ pos <= size /\ length = ToInt(size)
      BY <2>1, <2>3 DEF SendInv, Sending
    <3>2. pos = size \/ (failed' /\ pos < size)
      BY <2>1, <2>2, <2>3, <3>1
    <3> QED
      BY <2>2, <2>3, <3>1, <3>2, ToIntParts
  <2>4. ASSUME fd = "dir" PROVE body = 0 /\ (failed' \/ Cardinality(was) > 1)
    <3>1. body = 0
      BY <2>1, <2>4 DEF SendInv, Sending
    <3>2. ASSUME ~failed' PROVE Cardinality(was) > 1
      <4>1. "dir" \in was /\ ("file" \in was \/ Absent \in was) /\ was \subseteq AllKinds
        <5>1. ~failed
          BY <2>1, <3>2
        <5> QED
          BY <2>1, <2>4, <5>1 DEF SendInv, Fitting, Known
      <4>2. PICK k \in was : k # "dir"
        BY <4>1 DEF Absent
      <4> QED
        BY <4>1, <4>2, TwoKinds
    <3> QED
      BY <3>1, <3>2
  <2>5. fd \in {"dir", "file"}
    BY <2>1 DEF SendInv, Sending
  <2>6. LengthTrue'
    BY <2>1, <2>3, <2>4, <2>5 DEF LengthTrue
  <2> QED
    BY <2>1, <2>6 DEF Sending
<1> QED
  BY <1>1, <1>2, <1>3, <1>4, <1>5, <1>6, <1>7, <1>8 DEF RequestHandler

LEMMA SendingStep ==
  ASSUME SendInv, [Next]_allVars
  PROVE  SendInv'
<1>1. TypeInv' /\ Fitting'
  BY TypeStep, FittingStep DEF SendInv
<1>2. CASE RequestHandler
  BY <1>1, <1>2, SendingHandler DEF SendInv
<1>3. ASSUME UNCHANGED <<at, fd, length, written, pos, body, size, answer, failed>>, UNCHANGED was
      PROVE  Sending'
  <2>1. ToInt(size)' = ToInt(size)
    BY <1>3 DEF ToInt
  <2>2. LengthTrue' <=> LengthTrue
    BY <1>3 DEF LengthTrue
  <2> QED
    BY <1>3, <2>1, <2>2 DEF SendInv, Sending
<1>4. ASSUME NEW name \in Names, NEW kind \in Kinds \cup {Absent}, Change(name, kind), UNCHANGED rvars
      PROVE  Sending'
  BY <1>3, <1>4 DEF Change, rvars, path, copying
<1>5. ASSUME NEW kind \in AllKinds, Rename(kind) PROVE Sending'
  <2>1. at # "end" /\ UNCHANGED <<at, fd, length, written, pos, body, size, answer>>
    BY <1>5 DEF Rename, copying
  <2>2. ToInt(size)' = ToInt(size)
    BY <2>1 DEF ToInt
  <2> QED
    BY <2>1, <2>2 DEF SendInv, Sending
<1>6. ASSUME NEW blocks \in 0 .. MaxSize, Rewrite(blocks) PROVE Sending'
  <2>1. /\ at # "end" /\ written' = (at \in {"head", "copy"})
        /\ UNCHANGED <<at, fd, length, pos, body, answer>>
    BY <1>6 DEF Rewrite
  <2> QED
    BY <2>1 DEF SendInv, Sending
<1>7. ASSUME UNCHANGED allVars PROVE Sending'
  <2>1. UNCHANGED <<at, fd, length, written, pos, body, size, answer, failed, was>>
    BY <1>7 DEF allVars, vars, rvars, path, copying
  <2> QED
    BY <1>3, <2>1
<1> QED
  BY <1>1, <1>2, <1>4, <1>5, <1>6, <1>7 DEF Next, Others, SendInv

(* A file that nobody writes to while it is sent is sent with its length, if an int can
   hold it, and whole unless a read fails, whatever its path is renamed to meanwhile;
   and of a directory that is taken for a file nothing follows the head.         *)
THEOREM LengthTrueHolds == Spec => []LengthTrue
<1>1. RInit => SendInv
  BY TypeInit, FittingInit, SendingInit DEF SendInv
<1>2. SendInv => LengthTrue
  <2>1. ASSUME SendInv, at = "end" PROVE LengthTrue
    BY <2>1 DEF SendInv, Sending
  <2>2. ASSUME at # "end" PROVE LengthTrue
    BY <2>2 DEF LengthTrue
  <2> QED
    BY <2>1, <2>2
<1> QED
  BY <1>1, <1>2, SendingStep, PTL DEF Spec

--------------------------------------------------------------------------------
(* The page. *)

InOrder(s) == \A i, j \in DOMAIN s : i < j => Before(s[i], s[j])

RowsOf(kinds) == {Back} \cup {Row(kind, n) : kind \in kinds, n \in Names}
AllRows == RowsOf({"dir", "file"})

\* The kinds of entries that may have a row by now.
Shown ==
  {kind \in {"dir", "file"} :
     IF kind = type THEN pc \in {"rows", "string", "done"} ELSE type = "file"}

\* What the page must be right about.
Certain == steady \ Dots

\* The table has the entries of a kind.
Complete(kind) == \A n \in Certain : Row(kind, n) \in Range(rows) <=> disk[n] = kind

\* The list has what readdir() has returned of the type of the pass, but for the
\* entry that is looked at.
Collected ==
  \A n \in Certain :
    /\ had[n] = {disk[n]}
    /\ n \in seen => (disk[n] = type <=> n \in Range(data) \/ (pc = "stat" /\ n = item))

Listed == \A n \in Certain : disk[n] = type <=> n \in Range(data)

\* What is left of the list is in order, behind what has a row.
Resting ==
  /\ Increasing(data)
  /\ \A r \in Range(rows), n \in Range(data) : r.type = type => r.name < n
  /\ \A n \in Certain : disk[n] = type <=> n \in Range(data) \/ Row(type, n) \in Range(rows)

\* What is known at each place when nothing has failed.
Faultless ==
  /\ rows \in Seq(AllRows) /\ Range(rows) \subseteq RowsOf(Shown) /\ InOrder(rows)
  /\ pc # "null"
  /\ pc \in {"table", "back"} => rows = <<>> /\ type = "dir"
  /\ pc \notin {"table", "back"} => (Back \in Range(rows) <=> SubDir)
  /\ pc \in {"open", "read", "stat", "sort", "rows"} /\ type = "file" => Complete("dir")
  /\ pc \in {"read", "stat"} => Collected
  /\ pc \in {"read", "stat", "sort"} => fe
  /\ pc = "sort" => Listed
  /\ pc = "rows" => Resting
  /\ pc \in {"string", "done"} => type = "file" /\ Complete("dir") /\ Complete("file")
  /\ pc = "done" => page = rows

PageInv == ListInv /\ (~failed => Faultless)

LEMMA RowParts ==
  /\ Back.type = "back"
  /\ \A kind, n : Row(kind, n).type = kind /\ Row(kind, n).name = n
  BY DEF Back, Row

LEMMA NoRows ==
  /\ <<>> \in Seq(AllRows) /\ Range(<<>>) = {} /\ InOrder(<<>>)
  /\ <<Back>> \in Seq(AllRows) /\ Range(<<Back>>) = {Back} /\ InOrder(<<Back>>)
<1>1. Back \in AllRows
  BY DEF AllRows, RowsOf
<1>2. <<Back>> \in Seq(AllRows) /\ <<>> \in Seq(AllRows)
  BY <1>1
<1>3. DOMAIN <<Back>> = {1} /\ <<Back>>[1] = Back
  BY <1>1
<1>4. Range(<<Back>>) = {Back} /\ InOrder(<<Back>>)
  BY <1>3 DEF Range, InOrder
<1>5. Range(<<>>) = {} /\ InOrder(<<>>)
  BY DEF Range, InOrder
<1> QED
  BY <1>2, <1>4, <1>5

\* A row behind all others keeps the order.
LEMMA AppendOrder ==
  ASSUME NEW S, NEW s \in Seq(S), NEW r \in S, InOrder(s), \A q \in Range(s) : Before(q, r)
  PROVE  InOrder(Append(s, r))
<1> DEFINE t == Append(s, r)
<1>1. /\ Len(t) = Len(s) + 1 /\ Len(s) \in Nat /\ DOMAIN t = 1 .. Len(t) /\ DOMAIN s = 1 .. Len(s)
      /\ \A i \in 1 .. Len(s) : t[i] = s[i]
      /\ t[Len(s) + 1] = r
  BY AppendProperties, LenProperties
<1>2. \A i \in 1 .. Len(s) : Before(s[i], r)
  BY RangeIs
<1> HIDE DEF t
<1>3. ASSUME NEW i \in 1 .. Len(t), NEW j \in 1 .. Len(t), i < j PROVE Before(t[i], t[j])
  <2>1. i \in 1 .. Len(s)
    BY <1>1, <1>3
  <2>2. CASE j = Len(s) + 1
    BY <1>1, <1>2, <2>1, <2>2
  <2>3. CASE j \in 1 .. Len(s)
    <3>1. Before(s[i], s[j])
      BY <1>1, <1>3, <2>1, <2>3 DEF InOrder
    <3> QED
      BY <1>1, <2>1, <2>3, <3>1
  <2> QED
    BY <1>1, <1>3, <2>2, <2>3
<1>4. InOrder(t)
  BY <1>1, <1>3 DEF InOrder
<1> QED
  BY <1>4 DEF t

\* The first of a list in order is below the rest.
LEMMA TailOrder ==
  ASSUME NEW s \in Seq(Names), s # <<>>, Increasing(s)
  PROVE  Increasing(Tail(s)) /\ \A n \in Range(Tail(s)) : Head(s) < n
<1>1. /\ Tail(s) \in Seq(Names)
      /\ Len(Tail(s)) = Len(s) - 1
      /\ \A i \in 1 .. Len(Tail(s)) : Tail(s)[i] = s[i + 1]
  BY HeadTailProperties
<1>2. Len(s) \in Nat \ {0} /\ Head(s) = s[1]
  BY EmptySeq
<1>3. \A n \in Range(Tail(s)) : \E i \in 1 .. Len(Tail(s)) : Tail(s)[i] = n
  <2> DEFINE t == Tail(s)
  <2>1. t \in Seq(Names)
    BY <1>1
  <2> HIDE DEF t
  <2>2. \A n \in Range(t) : \E i \in 1 .. Len(t) : t[i] = n
    BY <2>1, RangeIs
  <2> QED
    BY <2>2 DEF t
<1>4. \A i \in 1 .. Len(Tail(s)) : i + 1 \in 1 .. Len(s) /\ 1 < i + 1
  BY <1>1, <1>2
<1>5. Increasing(Tail(s))
  BY <1>1, <1>2, <1>4 DEF Increasing
<1>6. ASSUME NEW n \in Range(Tail(s)) PROVE Head(s) < n
  <2>1. PICK i \in 1 .. Len(Tail(s)) : Tail(s)[i] = n
    BY <1>3
  <2>2. 1 \in 1 .. Len(s) /\ i + 1 \in 1 .. Len(s) /\ 1 < i + 1
    BY <1>2, <1>4
  <2>3. s[1] < s[i + 1]
    BY <2>2 DEF Increasing
  <2> QED
    BY <1>1, <1>2, <2>1, <2>3
<1> QED
  BY <1>5, <1>6


LEMMA PageInit ==
  ASSUME RInit
  PROVE  PageInv
<1>1. ListInv
  BY TypeInit DEF TypeInv, TypeOK, ListInv
<1>2. rows = <<>> /\ pc = "table" /\ type = "dir"
  BY DEF RInit, Init
<1>3. Faultless
  BY <1>2, NoRows DEF Faultless
<1> QED
  BY <1>1, <1>3 DEF PageInv

\* The rows at the top of the page, and the folders of the first pass.
LEMMA TableMade ==
  ASSUME ListInv, Faultless, NEW ok \in {TRUE}, CreatTable(ok) \/ InsertBack(ok) \/ ToPageString(ok)
  PROVE  Faultless'
<1>1. CASE CreatTable(ok)
  <2>1. pc = "table" /\ pc' = "back" /\ UNCHANGED <<rows, type>>
    BY <1>1 DEF CreatTable, list
  <2>2. rows' = <<>> /\ type' = "dir"
    BY <2>1 DEF Faultless
  <2> QED
    BY <2>1, <2>2, NoRows DEF Faultless
<1>2. CASE InsertBack(ok)
  <2>1. pc = "back" /\ pc' = "open" /\ rows' = (IF SubDir THEN <<Back>> ELSE <<>>) /\ type' = type
    BY <1>2 DEF InsertBack, list
  <2>2. type' = "dir"
    BY <2>1 DEF Faultless
  <2>3. rows' \in Seq(AllRows) /\ InOrder(rows') /\ Range(rows') = IF SubDir THEN {Back} ELSE {}
    BY <2>1, NoRows
  <2>4. Range(rows') \subseteq RowsOf(Shown')
    BY <2>3 DEF RowsOf
  <2>5. Back \in Range(rows') <=> SubDir
    BY <2>3
  <2> QED
    BY <2>1, <2>2, <2>3, <2>4, <2>5 DEF Faultless
<1>3. CASE ToPageString(ok)
  <2>1. pc = "string" /\ pc' = "done" /\ page' = rows
        /\ UNCHANGED <<rows, type, disk, steady>>
    BY <1>3 DEF ToPageString, list, directory
  <2>2. Shown' = Shown /\ Complete("dir")' /\ Complete("file")'
    BY <2>1 DEF Faultless, Shown, Complete, Certain
  <2> QED
    BY <2>1, <2>2 DEF Faultless, RowsOf
<1> QED
  BY <1>1, <1>2, <1>3

\* What has no bearing on the table.
LEMMA TableKept ==
  ASSUME Faultless, pc \in {"open", "read", "stat", "sort"}, pc' \in {"read", "stat", "sort", "rows"},
         UNCHANGED <<rows, type>>, Certain' \subseteq Certain, \A n \in Certain' : disk'[n] = disk[n]
  PROVE  /\ rows' \in Seq(AllRows) /\ Range(rows') \subseteq RowsOf(Shown') /\ InOrder(rows')
         /\ Back \in Range(rows') <=> SubDir
         /\ type' = "file" => Complete("dir")'
<1>1. Shown \subseteq Shown'
  BY DEF Shown, Faultless
<1>2. RowsOf(Shown) \subseteq RowsOf(Shown')
  BY <1>1 DEF RowsOf
<1>3. type = "file" => Complete("dir")
  BY DEF Faultless
<1> QED
  BY <1>2, <1>3 DEF Faultless, Complete

LEMMA DirRead ==
  ASSUME ListInv, Faultless,
         \/ OpenDir(TRUE) \/ MakeEntryItem(TRUE) \/ EndOfDir \/ SortFileEntry(TRUE)
         \/ \E name \in Names, kind \in Kinds : ReadDir(name, kind)
  PROVE  Faultless'
<1>1. /\ pc \in {"open", "read", "stat", "sort"} /\ pc' \in {"read", "stat", "sort", "rows"}
      /\ UNCHANGED <<rows, type, disk, steady>>
  BY DEF OpenDir, MakeEntryItem, EndOfDir, SortFileEntry, ReadDir, directory, list
<1>2. Certain' = Certain /\ Certain \subseteq Names
  BY <1>1 DEF Certain, ListInv, ListingTypeOK
<1>3. /\ rows' \in Seq(AllRows) /\ Range(rows') \subseteq RowsOf(Shown') /\ InOrder(rows')
      /\ Back \in Range(rows') <=> SubDir
      /\ type' = "file" => Complete("dir")'
  BY <1>1, <1>2, TableKept
<1>4. CASE OpenDir(TRUE)
  <2>1. pc' = "read" /\ had' = [n \in Names |-> {disk[n]}] /\ seen' = {} /\ fe' = TRUE
    BY <1>4 DEF OpenDir
  <2>2. Collected'
    BY <1>1, <1>2, <2>1 DEF Collected
  <2> QED
    BY <1>3, <2>1, <2>2 DEF Faultless
<1>5. CASE MakeEntryItem(TRUE)
  <2>1. /\ pc = "stat" /\ pc' = "read" /\ UNCHANGED <<had, seen, fe>>
        /\ data' = IF disk[item] # Absent THEN Append(data, item) ELSE data
    BY <1>5 DEF MakeEntryItem
  <2>2. data \in Seq(Names) /\ item \in Names /\ item \in seen
    BY <2>1 DEF ListInv, Room, Distinct
  <2>3. Range(data') = IF disk[item] # Absent THEN Range(data) \cup {item} ELSE Range(data)
    <3>1. Range(Append(data, item)) = Range(data) \cup {item}
      BY <2>2, AppendParts
    <3> QED
      BY <2>1, <3>1
  <2>4. fe /\ Collected
    BY <2>1 DEF Faultless
  <2>5. type # Absent
    BY DEF ListInv, ListingTypeOK, Absent
  <2>6. ASSUME NEW n \in Certain
        PROVE  had[n] = {disk[n]} /\ (n \in seen => (disk[n] = type <=> n \in Range(data')))
    <3>1. CASE n = item
      <4>1. disk[n] = type
        BY <2>1, <2>2, <2>4, <3>1 DEF Collected
      <4> QED
        BY <2>3, <2>4, <2>5, <3>1, <4>1 DEF Collected
    <3>2. CASE n # item
      BY <2>3, <2>4, <3>2 DEF Collected
    <3> QED
      BY <3>1, <3>2
  <2>7. Collected'
    BY <1>1, <1>2, <2>1, <2>6 DEF Collected
  <2> QED
    BY <1>3, <2>1, <2>4, <2>7 DEF Faultless
<1>6. CASE EndOfDir
  <2>1. pc = "read" /\ pc' = "sort" /\ AllReturned /\ UNCHANGED <<data, fe>>
    BY <1>6 DEF EndOfDir, list
  <2>2. fe /\ Collected /\ Range(data) \subseteq seen /\ type # Absent
    BY <2>1 DEF Faultless, ListInv, Distinct, ListingTypeOK, Absent
  <2>3. ASSUME NEW n \in Certain PROVE disk[n] = type <=> n \in Range(data)
    <3>1. CASE n \in seen
      BY <2>1, <2>2, <3>1 DEF Collected
    <3>2. CASE n \notin seen
      <4>1. disk[n] = Absent
        BY <1>2, <2>1, <2>2, <3>2 DEF Collected, AllReturned
      <4> QED
        BY <2>2, <3>2, <4>1
    <3> QED
      BY <3>1, <3>2
  <2>4. Listed'
    BY <1>1, <1>2, <2>1, <2>3 DEF Listed
  <2> QED
    BY <1>3, <2>1, <2>2, <2>4 DEF Faultless
<1>7. CASE SortFileEntry(TRUE)
  <2>1. pc = "sort" /\ pc' = "rows" /\ data' = IF fe THEN Sorted(data) ELSE data
    BY <1>7 DEF SortFileEntry
  <2>2. fe /\ Listed /\ data \in Seq(Names) /\ IsInjective(data)
    BY <2>1 DEF Faultless, ListInv, ListingTypeOK, Distinct
  <2>3. Increasing(data') /\ Range(data') = Range(data)
    BY <2>1, <2>2, SortedNames
  <2>4. ASSUME NEW r \in Range(rows) PROVE r.type # type
    <3>1. r = Back \/ \E kind \in Shown, n \in Names : r = Row(kind, n)
      BY DEF Faultless, RowsOf
    <3>2. type \notin Shown /\ type # "back"
      BY <2>1 DEF Shown, ListInv, ListingTypeOK
    <3> QED
      BY <3>1, <3>2, RowParts
  <2>5. \A n : Row(type, n) \notin Range(rows)
    BY <2>4, RowParts
  <2>6. Resting'
    BY <1>1, <1>2, <2>2, <2>3, <2>4, <2>5 DEF Resting, Listed
  <2> QED
    BY <1>3, <2>1, <2>6 DEF Faultless
<1>8. ASSUME NEW name \in Names, NEW kind \in Kinds, ReadDir(name, kind) PROVE Faultless'
  <2>1. /\ pc = "read" /\ name \notin seen /\ kind \in had[name] /\ seen' = seen \cup {name}
        /\ item' = name /\ pc' = (IF kind = type /\ name \notin Dots THEN "stat" ELSE "read")
        /\ UNCHANGED <<had, fe, data>>
    BY <1>8 DEF ReadDir, Returned
  <2>2. fe /\ Collected /\ Range(data) \subseteq seen
    BY <2>1 DEF Faultless, ListInv, Distinct
  <2>3. ASSUME NEW n \in Certain
        PROVE  /\ had[n] = {disk[n]}
               /\ n \in seen' => (disk[n] = type <=> n \in Range(data) \/ (pc' = "stat" /\ n = name))
    <3>1. CASE n = name
      <4>1. kind = disk[n] /\ n \notin Dots /\ n \notin Range(data)
        BY <2>1, <2>2, <3>1 DEF Collected, Certain
      <4> QED
        BY <2>1, <2>2, <3>1, <4>1 DEF Collected
    <3>2. CASE n # name
      BY <2>1, <2>2, <3>2 DEF Collected
    <3> QED
      BY <3>1, <3>2
  <2>4. Collected'
    BY <1>1, <1>2, <2>1, <2>3 DEF Collected
  <2>5. pc' \in {"read", "stat"}
    BY <2>1
  <2> QED
    BY <1>3, <2>1, <2>2, <2>4, <2>5 DEF Faultless
<1> QED
  BY <1>4, <1>5, <1>6, <1>7, <1>8


\* A row of the pass, behind the rows that there are.
LEMMA RowMade ==
  ASSUME ListInv, Faultless, InsertRow(TRUE)
  PROVE  Faultless'
<1>1. /\ pc = "rows" /\ pc' = pc /\ data # <<>> /\ data' = Tail(data)
      /\ rows' = Append(rows, Row(type, Head(data)))
      /\ UNCHANGED <<type, disk, steady>>
  BY DEF InsertRow, directory
<1> DEFINE h == Head(data)
           new == Row(type, h)
<1>2. data \in Seq(Names) /\ IsInjective(data) /\ type \in {"dir", "file"} /\ Names \subseteq Nat
  BY NamesNat DEF ListInv, ListingTypeOK, Distinct
<1>3. Resting /\ rows \in Seq(AllRows) /\ Range(rows) \subseteq RowsOf(Shown) /\ InOrder(rows)
  BY <1>1 DEF Faultless
<1>4. /\ h \in Range(data) /\ h \in Names /\ Range(data') = Range(data) \ {h}
      /\ Increasing(data') /\ \A n \in Range(data') : h < n
  BY <1>1, <1>2, <1>3, TailParts, TailOrder, HeadTailProperties DEF Resting
<1> HIDE DEF h
<1>5. new \in AllRows /\ new \in RowsOf(Shown) /\ new.type = type /\ new.name = h /\ new # Back
  <2>1. type \in Shown /\ type \in {"dir", "file"}
    BY <1>1, <1>2 DEF Shown
  <2>2. new.type = type /\ new.name = h /\ new # Back
    BY <1>2, RowParts
  <2> QED
    BY <1>4, <2>1, <2>2 DEF AllRows, RowsOf
<1> HIDE DEF new
<1>6. rows' = Append(rows, new)
  BY <1>1 DEF new, h
<1>7. ASSUME NEW r \in Range(rows) PROVE Before(r, new)
  <2>1. r = Back \/ \E kind \in Shown, n \in Names : r = Row(kind, n)
    BY <1>3 DEF RowsOf
  <2>2. CASE r = Back
    BY <1>2, <1>5, <2>2, RowParts DEF Before
  <2>3. CASE \E kind \in Shown, n \in Names : r = Row(kind, n)
    <3>1. r.type \in Shown
      BY <2>3, RowParts
    <3>2. CASE r.type = type
      <4>1. r.name < h
        BY <1>3, <1>4, <3>2 DEF Resting
      <4> QED
        BY <1>2, <1>5, <3>2, <4>1 DEF Before
    <3>3. CASE r.type # type
      <4>1. type = "file" /\ r.type = "dir"
        BY <1>2, <3>1, <3>3 DEF Shown
      <4> QED
        BY <1>5, <4>1 DEF Before
    <3> QED
      BY <3>2, <3>3
  <2> QED
    BY <2>1, <2>2, <2>3
<1>8. /\ rows' \in Seq(AllRows) /\ Range(rows') = Range(rows) \cup {new}
  BY <1>3, <1>5, <1>6, AppendParts
<1>9. InOrder(rows')
  BY <1>3, <1>5, <1>6, <1>7, AppendOrder
<1>10. Shown' = Shown
  BY <1>1 DEF Shown
<1>11. Range(rows') \subseteq RowsOf(Shown')
  BY <1>3, <1>5, <1>8, <1>10
<1>12. Back \in Range(rows') <=> SubDir
  BY <1>1, <1>5, <1>8 DEF Faultless
<1>13. Certain' = Certain
  BY <1>1 DEF Certain
<1>14. ASSUME type = "file" PROVE Complete("dir")'
  <2>1. Complete("dir")
    BY <1>1, <1>14 DEF Faultless
  <2>2. \A n : Row("dir", n) # new
    BY <1>5, <1>14, RowParts
  <2> QED
    BY <1>1, <1>8, <1>13, <2>1, <2>2 DEF Complete
<1>15. Resting'
  <2>1. \A r \in Range(rows'), n \in Range(data') : r.type = type => r.name < n
    BY <1>3, <1>4, <1>5, <1>8 DEF Resting
  <2>2. ASSUME NEW n \in Certain
        PROVE  disk[n] = type <=> n \in Range(data') \/ Row(type, n) \in Range(rows')
    <3>1. Row(type, n) = new <=> n = h
      BY <1>5, RowParts DEF new
    <3> QED
      BY <1>3, <1>4, <1>8, <3>1 DEF Resting
  <2> QED
    BY <1>1, <1>4, <1>13, <2>1, <2>2 DEF Resting
<1> QED
  BY <1>1, <1>8, <1>9, <1>11, <1>12, <1>14, <1>15 DEF Faultless

\* The end of a pass.
LEMMA PassMade ==
  ASSUME ListInv, Faultless, FreeEntries
  PROVE  Faultless'
<1>1. /\ pc = "rows" /\ data = <<>> /\ type' = "file"
      /\ pc' = (IF type = "dir" THEN "open" ELSE "string")
      /\ UNCHANGED <<rows, disk, steady>>
  BY DEF FreeEntries, directory
<1>2. type \in {"dir", "file"}
  BY DEF ListInv, ListingTypeOK
<1>3. Certain' = Certain /\ Range(data) = {}
  BY <1>1, EmptyParts DEF Certain
<1>4. Complete(type)
  BY <1>1, <1>3 DEF Faultless, Resting, Complete
<1>5. Complete("dir") /\ (type = "file" => Complete("file"))
  BY <1>1, <1>2, <1>4 DEF Faultless
<1>6. Complete("dir")' /\ (type = "file" => Complete("file")')
  BY <1>1, <1>3, <1>5 DEF Complete
<1>7. Shown \subseteq Shown'
  BY <1>1, <1>2 DEF Shown
<1>8. Range(rows') \subseteq RowsOf(Shown')
  BY <1>1, <1>7 DEF Faultless, RowsOf
<1>9. pc' \in {"open", "string"} /\ (pc' = "string" => type = "file")
  BY <1>1, <1>2
<1> QED
  BY <1>1, <1>6, <1>8, <1>9 DEF Faultless

\* Entries that come and go are no longer among those the page must be right about.
LEMMA FaultlessKept ==
  ASSUME ListInv, Faultless, NEW name \in Names, NEW kind \in Kinds \cup {Absent}, Change(name, kind)
  PROVE  Faultless'
<1>1. /\ pc # "done" /\ disk' = [disk EXCEPT ![name] = kind] /\ steady' = steady \ {name}
      /\ had' = [had EXCEPT ![name] = @ \cup {kind}]
      /\ UNCHANGED <<seen, type, fe, data, item, rows, pc>>
  BY DEF Change, list
<1>2. disk \in [Names -> Kinds \cup {Absent}] /\ DOMAIN had = Names /\ Certain \subseteq Names
  BY DEF ListInv, ListingTypeOK, Certain
<1>3. Certain' \subseteq Certain /\ \A n \in Certain' : disk'[n] = disk[n] /\ had'[n] = had[n]
  BY <1>1, <1>2 DEF Certain
<1>4. Shown' = Shown
  BY <1>1 DEF Shown
<1>5. /\ Complete("dir") => Complete("dir")'
      /\ Complete("file") => Complete("file")'
      /\ Listed => Listed'
  BY <1>1, <1>3 DEF Complete, Listed
<1>6. Collected => Collected'
  BY <1>1, <1>3 DEF Collected
<1>7. Resting => Resting'
  BY <1>1, <1>3 DEF Resting
<1> QED
  BY <1>1, <1>4, <1>5, <1>6, <1>7 DEF Faultless, RowsOf

LEMMA PageMade ==
  ASSUME PageInv, MakeHTML
  PROVE  PageInv'
<1>1. ListInv'
  BY ListMade DEF PageInv
<1>2. SUFFICES ASSUME ~failed' PROVE Faultless'
  BY <1>1 DEF PageInv
<1>3. ASSUME NEW ok \in AllocOutcomes,
             CreatTable(ok) \/ InsertBack(ok) \/ InsertRow(ok) \/ ToPageString(ok) \/ SortFileEntry(ok)
      PROVE  Faultless'
  <2>1. ok \in BOOLEAN
    BY ListingAssumption
  <2>2. CASE ok = TRUE
    <3>1. ~failed
      BY <1>2, <1>3 DEF CreatTable, InsertBack, InsertRow, ToPageString, SortFileEntry
    <3> QED
      BY <1>3, <2>2, <3>1, TableMade, RowMade, DirRead DEF PageInv
  <2>3. CASE ok = FALSE
    <3>1. InsertBack(ok) /\ ~SubDir /\ ~failed
      BY <1>2, <1>3, <2>3 DEF CreatTable, InsertBack, InsertRow, ToPageString, SortFileEntry
    <3>2. InsertBack(TRUE)
      BY <3>1, <2>3 DEF InsertBack
    <3> QED
      BY <3>1, <3>2, TableMade DEF PageInv
  <2> QED
    BY <2>1, <2>2, <2>3
<1>4. ASSUME NEW ok \in OpenOutcomes, OpenDir(ok) \/ MakeEntryItem(ok) PROVE Faultless'
  <2>1. ok = TRUE /\ ~failed
    BY <1>2, <1>4, ListingAssumption DEF OpenDir, MakeEntryItem
  <2> QED
    BY <1>4, <2>1, DirRead DEF PageInv
<1>5. ASSUME NEW name \in Names, NEW kind \in Kinds, ReadDir(name, kind) \/ ReallocFails(name, kind)
      PROVE  Faultless'
  <2>1. ReadDir(name, kind) /\ ~failed
    BY <1>2, <1>5 DEF ReadDir, ReallocFails
  <2> QED
    BY <2>1, DirRead DEF PageInv
<1>6. CASE FreeEntries
  BY <1>2, <1>6, PassMade DEF PageInv, FreeEntries
<1>7. CASE EndOfDir
  BY <1>2, <1>7, DirRead DEF PageInv, EndOfDir
<1> QED
  BY <1>3, <1>4, <1>5, <1>6, <1>7 DEF MakeHTML

LEMMA PageStep ==
  ASSUME PageInv, TypeInv, [Next]_allVars
  PROVE  PageInv'
<1>1. ListInv'
  BY TypeStep DEF TypeInv, TypeOK, ListInv
<1>2. ASSUME UNCHANGED vars PROVE PageInv'
  <2>1. UNCHANGED <<disk, steady, failed, had, seen, type, fe, data, item, rows, page, pc>>
    BY <1>2 DEF vars, directory, list
  <2>2. /\ Shown' = Shown /\ Certain' = Certain
        /\ Complete("dir")' <=> Complete("dir")
        /\ Complete("file")' <=> Complete("file")
    BY <2>1 DEF Shown, Certain, Complete
  <2>3. (Collected' <=> Collected) /\ (Listed' <=> Listed) /\ (Resting' <=> Resting)
    BY <2>1, <2>2 DEF Collected, Listed, Resting
  <2> QED
    BY <1>1, <2>1, <2>2, <2>3 DEF PageInv, Faultless, RowsOf
<1>3. ASSUME Fails PROVE PageInv'
  BY <1>1, <1>3 DEF Fails, PageInv
<1>4. CASE MakePage
  BY <1>4, PageMade DEF MakePage
<1>5. ASSUME Access \/ Count \/ BadReqHandler \/ DirReqHandler \/ Open \/ Length \/ SendHead \/ Copy \/ EndOfFile
      PROVE  PageInv'
  <2>1. UNCHANGED vars \/ Fails
    BY <1>5 DEF Access, Count, ChooseBy, BadReqHandler, DirReqHandler, Open, Length, SendHead,
                HeadThen, Copy, EndOfFile
  <2> QED
    BY <1>2, <1>3, <2>1
<1>6. ASSUME NEW name \in Names, NEW kind \in Kinds \cup {Absent}, Change(name, kind)
      PROVE  PageInv'
  <2>1. failed' = failed
    BY <1>6 DEF Change
  <2> QED
    BY <1>1, <1>6, <2>1, FaultlessKept DEF PageInv
<1>7. ASSUME NEW kind \in AllKinds, Rename(kind) PROVE PageInv'
  BY <1>2, <1>7 DEF Rename
<1>8. ASSUME NEW blocks \in 0 .. MaxSize, Rewrite(blocks) PROVE PageInv'
  BY <1>2, <1>8 DEF Rewrite
<1>9. CASE UNCHANGED allVars
  BY <1>2, <1>9 DEF allVars
<1> QED
  BY <1>4, <1>5, <1>6, <1>7, <1>8, <1>9 DEF Next, RequestHandler, Others

(* When nothing failed, the page of a directory of any size is in order, with no row
   twice, and names each folder and each file that was there all the time, and no
   other entry that was there or missing all the time, however the directory changed
   between the two passes and between readdir() and stat().                      *)
THEOREM PageTrueHolds == Spec => []PageTrue
<1>1. RInit => PageInv /\ TypeInv
  BY PageInit, TypeInit
<1>2. PageInv => PageTrue
  <2>1. ASSUME Faultless, pc = "done" PROVE PageTrue
    <3>1. page = rows /\ InOrder(rows) /\ (Back \in Range(rows) <=> SubDir)
          /\ Complete("dir") /\ Complete("file")
      BY <2>1 DEF Faultless
    <3> QED
      BY <3>1 DEF PageTrue, InOrder, Complete, Certain
  <2> QED
    BY <2>1 DEF PageInv, PageTrue
<1>3. PageInv /\ TypeInv /\ [Next]_allVars => (PageInv /\ TypeInv)'
  BY PageStep, TypeStep
<1> QED
  BY <1>1, <1>2, <1>3, PTL DEF Spec
================================================================================
