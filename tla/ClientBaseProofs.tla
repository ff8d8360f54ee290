---------------------------- MODULE ClientBaseProofs ----------------------------
(***************************************************************************)
(* Proofs about the address manager and the utilities as ClientBase.tla    *)
(* calls them, for any number of nodes, commands and addresses, with       *)
(* malloc failing or not, and for any lines.                               *)
(*                                                                         *)
(* Linked and the refinement of AddrBook talk about walks through the      *)
(* list, At and Entry, which are recursive.  The inductive invariant does  *)
(* not: it says that the places of the list can be numbered in the order   *)
(* of the pointers, and what a walk comes to follows by induction on the   *)
(* number of its steps.                                                    *)
(*                                                                         *)
(* Divided compares the loops of utility.cpp with the words of a line.     *)
(* The words are numbered, with their first and last places in the line    *)
(* (Parts) and in what FormatByChar leaves of it (Tight); the invariant of *)
(* the first loop (Copied) makes the one from the other, that of the       *)
(* second takes the words out again (DividedParts).                        *)
(***************************************************************************)
EXTENDS ClientBase, FiniteSetTheorems, SequenceTheorems, WellFoundedInduction, TLAPS

--------------------------------------------------------------------------------
(* Induction over the natural numbers, with a set in the place of a predicate. *)

Below == {ss \in Nat \X Nat : ss[1] < ss[2]}

LEMMA BelowWellFounded == IsWellFoundedOn(Below, Nat)
  BY NatLessThanWellFounded DEF OpToRel, Below

\* A set of natural numbers that is not empty has a least element.
LEMMA LeastElement ==
  ASSUME NEW T, T \subseteq Nat, T # {}
  PROVE  \E m \in T : \A y \in T : m <= y
<1>1. PICK m \in T : \A y \in T : ~ (<<y, m>> \in Below)
  BY BelowWellFounded, WFMin
<1>2. ASSUME NEW y \in T PROVE m <= y
  <2>1. y \in Nat /\ m \in Nat
    OBVIOUS
  <2>2. <<y, m>> \in Nat \X Nat => ~ (y < m)
    BY <1>1 DEF Below
  <2> QED
    BY <2>1, <2>2
<1> QED
  BY <1>2

\* What holds of 0, and of n + 1 if of n, holds of every natural number.
LEMMA Induction ==
  ASSUME NEW P, 0 \in P, \A n \in P \cap Nat : n + 1 \in P
  PROVE  Nat \subseteq P
<1> DEFINE Q == {n \in Nat : n \notin P}
<1>1. SUFFICES ASSUME Q # {} PROVE FALSE
  OBVIOUS
<1>2. PICK m \in Q : \A y \in Q : m <= y
  BY <1>1, LeastElement
<1>3. m - 1 \in P \cap Nat
  <2>1. m - 1 \in Nat
    BY <1>2
  <2> QED
    BY <1>2, <2>1
<1>4. (m - 1) + 1 = m
  BY <1>2
<1> QED
  BY <1>2, <1>3, <1>4

--------------------------------------------------------------------------------
(* The list. *)

\* The places of the list in the order of next, from the head and back to it.
Numbered(ord, n) ==
  /\ ord \in [0 .. n + 1 -> live \cup {List}]
  /\ ord[0] = List
  /\ ord[n + 1] = List
  /\ \A k \in 0 .. n : next[ord[k]] = ord[k + 1] /\ prev[ord[k + 1]] = ord[k]
  /\ \A j, k \in 0 .. n : ord[j] = ord[k] => j = k
  /\ \A m \in live : \E k \in 1 .. n : ord[k] = m

Ring == \E n \in Nat : \E ord : Numbered(ord, n)

\* No command that fits and that nothing longer is cut to is stored twice.
Unique == \A m, n \in live : cmd[m] = cmd[n] /\ cmd[m] \in Own => m = n

AddrInv == TypeOK /\ Ring /\ Unique

\* A walk of any number of steps is defined.
LEMMA WalkExists ==
  ASSUME NEW nx, NEW m \in Nat
  PROVE  \E g : g = [k \in 0 .. m |-> IF k = 0 THEN List ELSE nx[g[k - 1]]]
<1> DEFINE Walk(g, n) == g = [k \in 0 .. n |-> IF k = 0 THEN List ELSE nx[g[k - 1]]]
<1> DEFINE P == {n \in Nat : \E g : Walk(g, n)}
<1>1. 0 \in P
  <2>1. Walk([k \in 0 .. 0 |-> List], 0)
    OBVIOUS
  <2> QED
    BY <2>1
<1>2. ASSUME NEW n \in P PROVE n + 1 \in P
  <2>1. PICK g : Walk(g, n)
    OBVIOUS
  <2> DEFINE h == [k \in 0 .. n + 1 |-> IF k = n + 1 THEN nx[g[n]] ELSE g[k]]
  <2>2. \A k \in 0 .. n + 1 : h[k] = IF k = 0 THEN List ELSE nx[h[k - 1]]
    <3> SUFFICES ASSUME NEW k \in 0 .. n + 1 PROVE h[k] = IF k = 0 THEN List ELSE nx[h[k - 1]]
      OBVIOUS
    <3>1. CASE k = n + 1
      BY <3>1
    <3>2. CASE k # n + 1
      BY <2>1, <3>2
    <3> QED
      BY <3>1, <3>2
  <2>3. h = [k \in 0 .. n + 1 |-> IF k = 0 THEN List ELSE nx[h[k - 1]]]
    BY <2>2
  <2> HIDE DEF h
  <2>4. \E f : Walk(f, n + 1)
    BY <2>3
  <2> QED
    BY <2>4
<1> HIDE DEF P
<1>3. m \in P
  BY <1>1, <1>2, Induction
<1> QED
  BY <1>3 DEF P

LEMMA NodesNat == Cardinality(Nodes) \in Nat
  BY FS_CardinalityType, AddrAssumption

\* The equation by which At is defined.
LEMMA AtDef ==
  /\ At[0] = List
  /\ \A k \in Steps \ {0} : At[k] = next[At[k - 1]]
<1> DEFINE top == Cardinality(Nodes) + 1
<1>1. top \in Nat /\ Steps = 0 .. top
  BY NodesNat DEF Steps
<1> HIDE DEF top
<1>2. \E g : g = [k \in Steps |-> IF k = 0 THEN List ELSE next[g[k - 1]]]
  <2>1. \E g : g = [k \in 0 .. top |-> IF k = 0 THEN List ELSE next[g[k - 1]]]
    BY <1>1, WalkExists, Zenon
  <2> QED
    BY <1>1, <2>1, Zenon
<1>3. At = [k \in Steps |-> IF k = 0 THEN List ELSE next[At[k - 1]]]
  BY <1>2, Zenon DEF At
<1>4. 0 \in Steps
  BY NodesNat DEF Steps
<1> QED
  BY <1>3, <1>4

\* An allocation fits: the list is no longer than there are nodes.
LEMMA NumberedCount ==
  ASSUME TypeOK, NEW n \in Nat, NEW ord, Numbered(ord, n)
  PROVE  /\ IsFiniteSet(live)
         /\ Cardinality(live) = n
         /\ n <= Cardinality(Nodes)
         /\ \A k \in 1 .. n : ord[k] \in live
<1>1. ASSUME NEW k \in 1 .. n PROVE ord[k] \in live
  BY DEF Numbered
<1>2. [k \in 1 .. n |-> ord[k]] \in Bijection(1 .. n, live)
  <2> DEFINE b == [k \in 1 .. n |-> ord[k]]
  <2>1. b \in [1 .. n -> live]
    BY <1>1
  <2>2. \A j, k \in 1 .. n : b[j] = b[k] => j = k
    BY DEF Numbered
  <2>3. \A m \in live : \E k \in 1 .. n : b[k] = m
    BY DEF Numbered
  <2> QED
    BY <2>1, <2>2, <2>3 DEF Bijection, Injection, Surjection, IsInjective
<1>3. ExistsBijection(1 .. n, live)
  BY <1>2 DEF ExistsBijection
<1>4. IsFiniteSet(live) /\ Cardinality(live) <= Cardinality(Nodes)
  BY FS_Subset, AddrAssumption DEF TypeOK
<1> QED
  BY <1>1, <1>3, <1>4, FS_CountingElements

\* A walk comes to the places of the list in their order.
LEMMA WalkNumbered ==
  ASSUME TypeOK, NEW n \in Nat, NEW ord, Numbered(ord, n)
  PROVE  \A k \in 0 .. n + 1 : k \in Steps /\ At[k] = ord[k]
<1> DEFINE P == {k \in Nat : k <= n + 1 => At[k] = ord[k]}
<1>1. \A k \in 0 .. n + 1 : k \in Steps
  BY NumberedCount, NodesNat DEF Steps
<1>2. 0 \in P
  BY AtDef DEF Numbered
<1>3. ASSUME NEW k \in P \cap Nat PROVE k + 1 \in P
  <2> SUFFICES ASSUME k + 1 <= n + 1 PROVE At[k + 1] = ord[k + 1]
    OBVIOUS
  <2>1. At[k] = ord[k] /\ k \in 0 .. n
    OBVIOUS
  <2>2. At[k + 1] = next[At[k]]
    <3>1. k + 1 \in Steps \ {0}
      BY <1>1, <2>1
    <3>2. (k + 1) - 1 = k
      OBVIOUS
    <3> QED
      BY <3>1, <3>2, AtDef
  <2> QED
    BY <2>1, <2>2 DEF Numbered
<1> HIDE DEF P
<1>4. Nat \subseteq P
  BY <1>2, <1>3, Induction
<1> QED
  BY <1>1, <1>4 DEF P

\* A search ends at the first place with the command, or at the head.
LEMMA EntryNumbered ==
  ASSUME TypeOK, NEW n \in Nat, NEW ord, Numbered(ord, n), NEW c
  PROVE  \E stop \in 1 .. n + 1 :
           /\ Entry(c) = ord[stop]
           /\ stop # n + 1 => cmd[ord[stop]] = c
           /\ \A j \in 1 .. stop - 1 : cmd[ord[j]] # c
<1>3. \A k \in 0 .. n + 1 : k \in Steps /\ At[k] = ord[k]
  BY WalkNumbered
<1> DEFINE Stops(k) == /\ At[k] = List \/ cmd[At[k]] = c
                       /\ \A j \in 1 .. k - 1 : At[j] # List /\ cmd[At[j]] # c
<1> DEFINE stop == CHOOSE k \in Steps \ {0} : Stops(k)
<1>4. \E k \in Steps \ {0} : Stops(k)
  <2> DEFINE T == {k \in 1 .. n + 1 : ord[k] = List \/ cmd[ord[k]] = c}
  <2>1. n + 1 \in T
    BY DEF Numbered
  <2>2. T \subseteq Nat /\ T # {}
    BY <2>1
  <2>3. PICK k \in T : \A j \in T : k <= j
    <3> HIDE DEF T
    <3> QED
      BY <2>2, LeastElement
  <2>4. \A j \in 1 .. k - 1 : j \in 1 .. n + 1 /\ j \notin T
    BY <2>3
  <2>5. Stops(k)
    BY <1>3, <2>3, <2>4
  <2> QED
    BY <1>3, <2>5
<1>5. stop \in Steps \ {0} /\ Stops(stop)
  <2> HIDE DEF Stops
  <2> QED
    BY <1>4
<1>6. Entry(c) = At[stop]
  BY DEF Entry
<1> HIDE DEF stop
<1>7. stop \in 1 .. n + 1
  <2>1. stop \in Nat \ {0}
    BY <1>5, NodesNat DEF Steps
  <2>2. ASSUME stop > n + 1 PROVE FALSE
    <3>1. n + 1 \in 1 .. stop - 1
      BY <2>1, <2>2
    <3>2. At[n + 1] = List
      BY <1>3 DEF Numbered
    <3> QED
      BY <1>5, <3>1, <3>2
  <2> QED
    BY <2>1, <2>2
<1>8. Entry(c) = ord[stop]
  BY <1>3, <1>6, <1>7
<1>9. \A j \in 1 .. stop - 1 : cmd[ord[j]] # c
  <2>1. \A j \in 1 .. stop - 1 : At[j] = ord[j]
    BY <1>3, <1>7
  <2> QED
    BY <1>5, <2>1
<1>10. ASSUME stop # n + 1 PROVE cmd[ord[stop]] = c
  <2>1. ord[stop] \in live
    BY <1>7, <1>10, NumberedCount
  <2>2. At[stop] = ord[stop] /\ List \notin live
    BY <1>3, <1>7, AddrAssumption DEF TypeOK
  <2> QED
    BY <1>5, <2>1, <2>2
<1> QED
  BY <1>7, <1>8, <1>9, <1>10

\* A search ends at an entry with the command, or at the head if there is none.
LEMMA EntryFound ==
  ASSUME TypeOK, Ring, NEW c
  PROVE  /\ Entry(c) = List \/ (Entry(c) \in live /\ cmd[Entry(c)] = c)
         /\ Entry(c) = List => \A m \in live : cmd[m] # c
<1>1. PICK n \in Nat : \E ord : Numbered(ord, n)
  BY DEF Ring
<1>2. PICK ord : Numbered(ord, n)
  BY <1>1
<1>3. PICK stop \in 1 .. n + 1 :
        /\ Entry(c) = ord[stop]
        /\ stop # n + 1 => cmd[ord[stop]] = c
        /\ \A j \in 1 .. stop - 1 : cmd[ord[j]] # c
  BY <1>2, EntryNumbered
<1>4. /\ \A k \in 1 .. n : ord[k] \in live
      /\ List \notin live
  BY <1>2, NumberedCount, AddrAssumption DEF TypeOK
<1>5. CASE stop = n + 1
  <2>1. ord[stop] = List
    BY <1>2, <1>5 DEF Numbered
  <2>2. ASSUME NEW m \in live PROVE cmd[m] # c
    <3>1. PICK k \in 1 .. n : ord[k] = m
      BY <1>2 DEF Numbered
    <3> QED
      BY <1>3, <1>5, <3>1
  <2> QED
    BY <1>3, <2>1, <2>2
<1>6. CASE stop # n + 1
  BY <1>3, <1>4, <1>6
<1> QED
  BY <1>5, <1>6

\* m is the entry with command c that is nearest to the head.
Foremost(c, m) ==
  \E n \in Nat : \E ord : \E k \in 1 .. n :
    /\ Numbered(ord, n)
    /\ ord[k] = m
    /\ cmd[m] = c
    /\ \A j \in 1 .. k - 1 : cmd[ord[j]] # c

\* A search finds that entry, ...
LEMMA FirstIsEntry ==
  ASSUME TypeOK, NEW c, NEW m, Foremost(c, m)
  PROVE  Entry(c) = m /\ m \in live
<1>1. PICK n \in Nat : \E ord : \E k \in 1 .. n :
        Numbered(ord, n) /\ ord[k] = m /\ cmd[m] = c /\ \A j \in 1 .. k - 1 : cmd[ord[j]] # c
  BY DEF Foremost
<1>2. PICK ord : \E k \in 1 .. n :
        Numbered(ord, n) /\ ord[k] = m /\ cmd[m] = c /\ \A j \in 1 .. k - 1 : cmd[ord[j]] # c
  BY <1>1
<1>3. PICK k \in 1 .. n :
        Numbered(ord, n) /\ ord[k] = m /\ cmd[m] = c /\ \A j \in 1 .. k - 1 : cmd[ord[j]] # c
  BY <1>2
<1>4. PICK stop \in 1 .. n + 1 :
        /\ Entry(c) = ord[stop]
        /\ stop # n + 1 => cmd[ord[stop]] = c
        /\ \A j \in 1 .. stop - 1 : cmd[ord[j]] # c
  BY <1>3, EntryNumbered
<1>5. stop = k
  <2>1. ASSUME k < stop PROVE FALSE
    <3>1. k \in 1 .. stop - 1
      BY <2>1
    <3> QED
      BY <1>3, <1>4, <3>1
  <2>2. ASSUME stop < k PROVE FALSE
    <3>1. stop \in 1 .. k - 1 /\ stop # n + 1
      BY <2>2
    <3> QED
      BY <1>3, <1>4, <3>1
  <2> QED
    BY <2>1, <2>2
<1> QED
  BY <1>3, <1>4, <1>5, NumberedCount

\* ... if there is one.
LEMMA EntryIsFirst ==
  ASSUME TypeOK, Ring, NEW c, Entry(c) # List
  PROVE  Foremost(c, Entry(c))
<1>1. PICK n \in Nat : \E ord : Numbered(ord, n)
  BY DEF Ring
<1>2. PICK ord : Numbered(ord, n)
  BY <1>1
<1>3. PICK stop \in 1 .. n + 1 :
        /\ Entry(c) = ord[stop]
        /\ stop # n + 1 => cmd[ord[stop]] = c
        /\ \A j \in 1 .. stop - 1 : cmd[ord[j]] # c
  BY <1>2, EntryNumbered
<1>4. stop # n + 1
  BY <1>2, <1>3 DEF Numbered
<1>5. stop \in 1 .. n
  BY <1>4
<1> QED
  BY <1>2, <1>3, <1>4, <1>5 DEF Foremost

--------------------------------------------------------------------------------
(* The ring is kept. *)

\* An entry is put in behind the head.
LEMMA ListAddNumbered ==
  ASSUME TypeOK, NEW n \in Nat, NEW ord, Numbered(ord, n),
         NEW new \in Nodes \ live, ListAdd(new), live' = live \cup {new}
  PROVE  \E ord2 : /\ ord2[1] = new
                   /\ \A k \in 1 .. n : ord2[k + 1] = ord[k]
                   /\ Numbered(ord2, n + 1)'
<1>2. Numbered(ord, n)
  OBVIOUS
<1> DEFINE ord2 == [k \in 0 .. n + 2 |-> IF k = 0 THEN List ELSE IF k = 1 THEN new ELSE ord[k - 1]]
<1>3. \A k \in 0 .. n + 2 : ord2[k] = IF k = 0 THEN List ELSE IF k = 1 THEN new ELSE ord[k - 1]
  OBVIOUS
<1>4. \A k \in 1 .. n : ord[k] \in live
  BY <1>2, NumberedCount
<1>5. new # List /\ List \notin live /\ new \in Places /\ List \in Places /\ live \subseteq Places
  BY AddrAssumption DEF TypeOK, Places
<1>6. next[List] = ord[1] /\ ord[0] = List /\ ord[n + 1] = List
  <2>1. next[ord[0]] = ord[0 + 1]
    BY <1>2 DEF Numbered
  <2> QED
    BY <1>2, <2>1 DEF Numbered
<1>7. ord[1] \in live \cup {List}
  BY <1>2 DEF Numbered
<1>8. /\ next' = [next EXCEPT ![new] = ord[1], ![List] = new]
      /\ prev' = [prev EXCEPT ![ord[1]] = new, ![new] = List]
  BY <1>6 DEF ListAdd
<1>9. /\ next'[List] = new /\ next'[new] = ord[1]
      /\ \A m \in Places : m # List /\ m # new => next'[m] = next[m]
      /\ prev'[ord[1]] = new /\ prev'[new] = List
      /\ \A m \in Places : m # ord[1] /\ m # new => prev'[m] = prev[m]
  BY <1>5, <1>7, <1>8 DEF TypeOK
<1> HIDE DEF ord2
<1>10. ord2 \in [0 .. n + 2 -> live' \cup {List}]
  <2>1. \A k \in 0 .. n + 2 : ord2[k] \in live' \cup {List}
    <3> SUFFICES ASSUME NEW k \in 0 .. n + 2 PROVE ord2[k] \in live' \cup {List}
      OBVIOUS
    <3>1. CASE k \in {0, 1}
      BY <1>3, <3>1
    <3>2. CASE k \notin {0, 1}
      <4>1. k - 1 \in 0 .. n + 1 /\ ord2[k] = ord[k - 1]
        BY <1>3, <3>2
      <4> QED
        BY <1>2, <4>1 DEF Numbered
    <3> QED
      BY <3>1, <3>2
  <2> QED
    BY <2>1 DEF ord2
<1>11. ASSUME NEW k \in 0 .. n + 1
       PROVE  next'[ord2[k]] = ord2[k + 1] /\ prev'[ord2[k + 1]] = ord2[k]
  <2>1. CASE k = 0
    BY <1>3, <1>9, <2>1
  <2>2. CASE k = 1
    BY <1>3, <1>9, <2>2
  <2>3. CASE k > 1
    <3> DEFINE j == k - 1
    <3>1. j \in 1 .. n /\ ord2[k] = ord[j] /\ ord2[k + 1] = ord[j + 1]
      BY <1>3, <2>3
    <3>2. next[ord[j]] = ord[j + 1] /\ prev[ord[j + 1]] = ord[j]
      BY <1>2, <3>1 DEF Numbered
    <3>3. ord[j] \in live /\ ord[j + 1] \in live \cup {List}
      <4>1. j + 1 \in 0 .. n + 1
        BY <3>1
      <4> QED
        BY <1>2, <1>4, <3>1, <4>1 DEF Numbered
    <3>4. ord[j + 1] # ord[1]
      <4>1. CASE j = n
        BY <1>4, <1>5, <1>6, <3>1, <4>1
      <4>2. CASE j # n
        <5>1. 1 \in 0 .. n /\ j + 1 \in 0 .. n /\ j + 1 # 1
          BY <3>1, <4>2
        <5> QED
          BY <1>2, <5>1 DEF Numbered
      <4> QED
        BY <4>1, <4>2
    <3> HIDE DEF j
    <3> QED
      BY <1>5, <1>9, <3>1, <3>2, <3>3, <3>4
  <2> QED
    BY <2>1, <2>2, <2>3
<1>12. ASSUME NEW j \in 0 .. n + 1, NEW k \in 0 .. n + 1, ord2[j] = ord2[k]
       PROVE  j = k
  <2>1. \A i \in 2 .. n + 1 : ord2[i] = ord[i - 1] /\ i - 1 \in 1 .. n /\ ord2[i] \in live
    BY <1>3, <1>4
  <2>2. \A i \in 0 .. n : \A l \in 0 .. n : ord[i] = ord[l] => i = l
    BY <1>2 DEF Numbered
  <2>3. ord2[0] = List /\ ord2[1] = new
    BY <1>3
  <2>4. CASE j \in 2 .. n + 1 /\ k \in 2 .. n + 1
    <3>1. j - 1 = k - 1
      BY <1>12, <2>1, <2>2, <2>4
    <3> QED
      BY <3>1
  <2>5. CASE ~ (j \in 2 .. n + 1 /\ k \in 2 .. n + 1)
    BY <1>5, <1>12, <2>1, <2>3, <2>5
  <2> QED
    BY <2>4, <2>5
<1>13. ASSUME NEW m \in live' PROVE \E k \in 1 .. n + 1 : ord2[k] = m
  <2>1. CASE m = new
    BY <1>3, <2>1
  <2>2. CASE m # new
    <3>1. PICK k \in 1 .. n : ord[k] = m
      BY <1>2, <2>2 DEF Numbered
    <3>2. k + 1 \in 1 .. n + 1 /\ ord2[k + 1] = m
      BY <1>3, <3>1
    <3> QED
      BY <3>2
  <2> QED
    BY <2>1, <2>2
<1>14. ord2[0] = List /\ ord2[n + 2] = List
  BY <1>3, <1>6
<1>15. Numbered(ord2, n + 1)'
  <2>1. (n + 1) + 1 = n + 2
    OBVIOUS
  <2> QED
    BY <1>10, <1>11, <1>12, <1>13, <1>14, <2>1 DEF Numbered
<1>16. ord2[1] = new /\ \A k \in 1 .. n : ord2[k + 1] = ord[k]
  <2>1. \A k \in 1 .. n : k + 1 \in 0 .. n + 2 /\ k + 1 # 0 /\ k + 1 # 1 /\ (k + 1) - 1 = k
    OBVIOUS
  <2> QED
    BY <1>3, <2>1
<1> QED
  BY <1>15, <1>16

LEMMA ListAddRing ==
  ASSUME TypeOK, Ring, NEW new \in Nodes \ live, ListAdd(new), live' = live \cup {new}
  PROVE  Ring'
<1>1. PICK n \in Nat : \E ord : Numbered(ord, n)
  BY DEF Ring
<1>2. PICK ord : Numbered(ord, n)
  BY <1>1
<1>3. PICK ord2 : Numbered(ord2, n + 1)'
  BY <1>2, ListAddNumbered
<1>4. n + 1 \in Nat
  OBVIOUS
<1> QED
  BY <1>3, <1>4 DEF Ring

\* An entry is taken out between its neighbours.
LEMMA ListDelNumbered ==
  ASSUME TypeOK, NEW n \in Nat, NEW ord, Numbered(ord, n),
         NEW i \in 1 .. n, NEW entry, entry = ord[i],
         entry \in live, ListDel(entry), live' = live \ {entry}
  PROVE  \E ord2 : /\ \A k \in 0 .. n : ord2[k] = IF k < i THEN ord[k] ELSE ord[k + 1]
                   /\ Numbered(ord2, n - 1)'
<1>2. Numbered(ord, n)
  OBVIOUS
<1>3. i \in 1 .. n /\ ord[i] = entry
  OBVIOUS
<1> DEFINE ord2 == [k \in 0 .. n |-> IF k < i THEN ord[k] ELSE ord[k + 1]]
<1>4. \A k \in 0 .. n : ord2[k] = IF k < i THEN ord[k] ELSE ord[k + 1]
  OBVIOUS
<1>5. List \notin live /\ List \in Places /\ live \subseteq Places
  BY AddrAssumption DEF TypeOK, Places
<1>6. /\ ord[0] = List /\ ord[n + 1] = List
      /\ \A k \in 1 .. n : ord[k] \in live
      /\ \A k \in 0 .. n + 1 : ord[k] \in live \cup {List}
      /\ \A k \in 0 .. n : next[ord[k]] = ord[k + 1] /\ prev[ord[k + 1]] = ord[k]
      /\ \A j, k \in 0 .. n : ord[j] = ord[k] => j = k
  BY <1>2, NumberedCount DEF Numbered
<1>7. next[entry] = ord[i + 1] /\ prev[entry] = ord[i - 1]
  <2>1. i \in 0 .. n /\ i - 1 \in 0 .. n /\ (i - 1) + 1 = i
    BY <1>3
  <2> QED
    BY <1>3, <1>6, <2>1
<1>8. ord[i + 1] # entry /\ ord[i - 1] # entry
  <2>1. CASE i = n
    <3>1. ord[i + 1] # entry
      BY <1>5, <1>6, <2>1
    <3>2. i - 1 \in 0 .. n /\ i \in 0 .. n /\ i - 1 # i
      BY <1>3
    <3> QED
      BY <1>3, <1>6, <3>1, <3>2
  <2>2. CASE i # n
    <3>1. i - 1 \in 0 .. n /\ i \in 0 .. n /\ i + 1 \in 0 .. n /\ i - 1 # i /\ i + 1 # i
      BY <1>3, <2>2
    <3> QED
      BY <1>3, <1>6, <3>1
  <2> QED
    BY <2>1, <2>2
<1>9. ord[i + 1] \in Places /\ ord[i - 1] \in Places /\ entry \in Places
  <2>1. i + 1 \in 0 .. n + 1 /\ i - 1 \in 0 .. n + 1
    BY <1>3
  <2> QED
    BY <1>5, <1>6, <2>1
<1>10. /\ next' = [next EXCEPT ![ord[i - 1]] = ord[i + 1], ![entry] = Poison]
       /\ prev' = [prev EXCEPT ![ord[i + 1]] = ord[i - 1], ![entry] = Poison]
  BY <1>7 DEF ListDel
<1>11. /\ next'[ord[i - 1]] = ord[i + 1]
       /\ \A m \in Places : m # entry /\ m # ord[i - 1] => next'[m] = next[m]
       /\ prev'[ord[i + 1]] = ord[i - 1]
       /\ \A m \in Places : m # entry /\ m # ord[i + 1] => prev'[m] = prev[m]
  BY <1>8, <1>9, <1>10 DEF TypeOK
<1> HIDE DEF ord2
<1>12. ord2 \in [0 .. n -> live' \cup {List}]
  <2>1. \A k \in 0 .. n : ord2[k] \in live' \cup {List}
    <3> SUFFICES ASSUME NEW k \in 0 .. n PROVE ord2[k] \in live' \cup {List}
      OBVIOUS
    <3>1. CASE k < i
      <4>1. ord[k] \in live \cup {List} /\ ord[k] # ord[i]
        BY <1>3, <1>6, <3>1
      <4> QED
        BY <1>3, <1>4, <3>1, <4>1
    <3>2. CASE ~ (k < i)
      <4>1. ord[k + 1] \in live \cup {List}
        BY <1>6
      <4>2. ord[k + 1] # ord[i]
        <5>1. CASE k = n
          BY <1>5, <1>6, <5>1
        <5>2. CASE k # n
          <6>1. k + 1 \in 0 .. n /\ i \in 0 .. n /\ k + 1 # i
            BY <1>3, <3>2, <5>2
          <6> QED
            BY <1>6, <6>1
        <5> QED
          BY <5>1, <5>2
      <4> QED
        BY <1>3, <1>4, <3>2, <4>1, <4>2
    <3> QED
      BY <3>1, <3>2
  <2> QED
    BY <2>1 DEF ord2
<1>13. ASSUME NEW j \in 0 .. n - 1, NEW k \in 0 .. n - 1, ord2[j] = ord2[k]
       PROVE  j = k
  <2>1. \A l \in 0 .. n - 1 : l \in 0 .. n /\ l + 1 \in 0 .. n
    OBVIOUS
  <2>2. PICK j2 \in 0 .. n : ord2[j] = ord[j2] /\ j2 = IF j < i THEN j ELSE j + 1
    BY <1>4, <2>1
  <2>3. PICK k2 \in 0 .. n : ord2[k] = ord[k2] /\ k2 = IF k < i THEN k ELSE k + 1
    BY <1>4, <2>1
  <2>4. j2 = k2
    BY <1>6, <1>13, <2>2, <2>3
  <2> QED
    BY <1>3, <2>2, <2>3, <2>4
<1>14. ASSUME NEW k \in 0 .. n - 1
       PROVE  next'[ord2[k]] = ord2[k + 1] /\ prev'[ord2[k + 1]] = ord2[k]
  <2>1. CASE k = i - 1
    <3>1. ord2[k] = ord[i - 1] /\ ord2[k + 1] = ord[i + 1]
      <4>1. k \in 0 .. n /\ k + 1 \in 0 .. n /\ k < i /\ ~ (k + 1 < i) /\ (k + 1) + 1 = i + 1
        BY <1>3, <2>1
      <4>2. ord2[k] = ord[k] /\ ord2[k + 1] = ord[(k + 1) + 1]
        BY <1>4, <4>1
      <4> QED
        BY <2>1, <4>1, <4>2
    <3> QED
      BY <1>11, <3>1
  <2>2. CASE k # i - 1
    <3> DEFINE j == IF k < i THEN k ELSE k + 1
    <3>1. j \in 0 .. n /\ j # i /\ j # i - 1
      BY <1>3, <2>2
    <3>2. ord2[k] = ord[j] /\ ord2[k + 1] = ord[j + 1]
      BY <1>3, <1>4, <2>2
    <3> HIDE DEF j
    <3>3. next[ord[j]] = ord[j + 1] /\ prev[ord[j + 1]] = ord[j]
      BY <1>6, <3>1
    <3>4. ord[j] # entry /\ ord[j] # ord[i - 1]
      <4>1. i \in 0 .. n /\ i - 1 \in 0 .. n
        BY <1>3
      <4> QED
        BY <1>3, <1>6, <3>1, <4>1
    <3>5. ord[j + 1] # entry /\ ord[j + 1] # ord[i + 1]
      <4>1. CASE j = n
        <5>1. ord[j + 1] # entry
          BY <1>5, <1>6, <4>1
        <5>2. i + 1 \in 1 .. n
          BY <1>3, <3>1, <4>1
        <5> QED
          BY <1>5, <1>6, <4>1, <5>1, <5>2
      <4>2. CASE j # n
        <5>1. j + 1 \in 1 .. n /\ j + 1 # i /\ j + 1 # i + 1
          BY <1>3, <3>1, <4>2
        <5>2. ord[j + 1] # entry
          BY <1>3, <1>6, <5>1
        <5>3. CASE i = n
          BY <1>5, <1>6, <5>1, <5>2, <5>3
        <5>4. CASE i # n
          <6>1. i + 1 \in 0 .. n
            BY <1>3, <5>4
          <6> QED
            BY <1>6, <5>1, <5>2, <6>1
        <5> QED
          BY <5>3, <5>4
      <4> QED
        BY <4>1, <4>2
    <3>6. ord[j] \in Places /\ ord[j + 1] \in Places
      <4>1. j \in 0 .. n + 1 /\ j + 1 \in 0 .. n + 1
        BY <3>1
      <4> QED
        BY <1>5, <1>6, <4>1
    <3> QED
      BY <1>11, <3>2, <3>3, <3>4, <3>5, <3>6
  <2> QED
    BY <2>1, <2>2
<1>15. ASSUME NEW m \in live' PROVE \E k \in 1 .. n - 1 : ord2[k] = m
  <2>1. PICK k \in 1 .. n : ord[k] = m
    BY <1>2 DEF Numbered
  <2>2. k # i
    BY <1>3, <2>1
  <2> DEFINE l == IF k < i THEN k ELSE k - 1
  <2>3. l \in 1 .. n - 1 /\ (l < i => l = k) /\ (~ (l < i) => l + 1 = k)
    BY <1>3, <2>2
  <2> HIDE DEF l
  <2>4. ord2[l] = m
    BY <1>4, <2>1, <2>3
  <2> QED
    BY <2>3, <2>4
<1>16. ord2[0] = List /\ ord2[n] = List
  BY <1>3, <1>4, <1>6
<1>17. Numbered(ord2, n - 1)'
  <2>1. (n - 1) + 1 = n
    OBVIOUS
  <2> QED
    BY <1>12, <1>13, <1>14, <1>15, <1>16, <2>1 DEF Numbered
<1> QED
  BY <1>4, <1>17

LEMMA ListDelRing ==
  ASSUME TypeOK, Ring, NEW entry \in live, ListDel(entry), live' = live \ {entry}
  PROVE  Ring'
<1>1. PICK n \in Nat : \E ord : Numbered(ord, n)
  BY DEF Ring
<1>2. PICK ord : Numbered(ord, n)
  BY <1>1
<1>3. PICK i \in 1 .. n : ord[i] = entry
  BY <1>2 DEF Numbered
<1>4. PICK ord2 : Numbered(ord2, n - 1)'
  BY <1>2, <1>3, ListDelNumbered
<1>5. n - 1 \in Nat
  BY <1>3
<1> QED
  BY <1>4, <1>5 DEF Ring

LEMMA SameRing ==
  ASSUME Ring, UNCHANGED <<live, links>>
  PROVE  Ring'
<1>1. PICK n \in Nat : \E ord : Numbered(ord, n)
  BY DEF Ring
<1>2. PICK ord : Numbered(ord, n)
  BY <1>1
<1>3. Numbered(ord, n)'
  BY <1>2 DEF Numbered, links
<1> QED
  BY <1>3 DEF Ring

\* The head alone is a ring.
LEMMA EmptyRing ==
  ASSUME live = {}, next[List] = List, prev[List] = List
  PROVE  Ring
<1> DEFINE ord == [k \in 0 .. 1 |-> List]
<1>1. Numbered(ord, 0)
  BY DEF Numbered
<1> QED
  BY <1>1 DEF Ring

\* The pointers of a place in the list lead to its neighbours, and back.
LEMMA Neighbours ==
  ASSUME TypeOK, Ring, NEW m \in live \cup {List}
  PROVE  /\ next[m] \in live \cup {List} /\ prev[next[m]] = m
         /\ prev[m] \in live \cup {List} /\ next[prev[m]] = m
<1>1. PICK n \in Nat : \E ord : Numbered(ord, n)
  BY DEF Ring
<1>2. PICK ord : Numbered(ord, n)
  BY <1>1
<1>3. \E k \in 0 .. n : ord[k] = m
  BY <1>2 DEF Numbered
<1>4. \E k \in 1 .. n + 1 : ord[k] = m
  BY <1>2 DEF Numbered
<1>5. PICK i \in 0 .. n : ord[i] = m
  BY <1>3
<1>6. PICK k \in 1 .. n + 1 : ord[k] = m
  BY <1>4
<1>7. next[m] = ord[i + 1] /\ prev[ord[i + 1]] = m /\ ord[i + 1] \in live \cup {List}
  BY <1>2, <1>5 DEF Numbered
<1>8. prev[m] = ord[k - 1] /\ next[ord[k - 1]] = m /\ ord[k - 1] \in live \cup {List}
  <2>1. k - 1 \in 0 .. n /\ (k - 1) + 1 = k
    BY <1>6
  <2> QED
    BY <1>2, <1>6, <2>1 DEF Numbered
<1> QED
  BY <1>7, <1>8

--------------------------------------------------------------------------------
(* The inductive invariant. *)

LEMMA InitAddrInv == Init => AddrInv
<1> SUFFICES ASSUME Init PROVE AddrInv
  OBVIOUS
<1>1. AddrInit
  BY DEF Init
<1>2. List \in Places /\ next[List] = List /\ prev[List] = List
  BY <1>1 DEF AddrInit, Places
<1>3. TypeOK
  BY <1>1, AddrAssumption DEF AddrInit, TypeOK, Places
<1> QED
  BY <1>1, <1>2, <1>3, EmptyRing DEF AddrInit, AddrInv, Unique

\* A new entry.
LEMMA AddNewInv ==
  ASSUME AddrInv, NEW c \in Cmds, NEW addr \in Addrs, Entry(c) = List, AddNew(c, addr)
  PROVE  AddrInv'
<1>1. PICK new \in Nodes \ live :
        /\ live' = live \cup {new}
        /\ ListAdd(new)
        /\ cmd' = With(cmd, new, Cut[c])
        /\ ip' = With(ip, new, addr)
        /\ UNCHANGED found
  BY DEF AddNew
<1>2. TypeOK /\ Ring /\ Unique
  BY DEF AddrInv
<1>3. Ring'
  BY <1>1, <1>2, ListAddRing
<1>4. /\ cmd' \in [live' -> {Cut[d] : d \in Cmds}]
      /\ cmd'[new] = Cut[c]
      /\ \A m \in live : cmd'[m] = cmd[m]
      /\ ip' \in [live' -> Addrs]
  <2>1. DOMAIN cmd = live /\ DOMAIN ip = live
    BY <1>2 DEF TypeOK
  <2>2. /\ cmd' = [m \in live' |-> IF m = new THEN Cut[c] ELSE cmd[m]]
        /\ ip' = [m \in live' |-> IF m = new THEN addr ELSE ip[m]]
    BY <1>1, <2>1 DEF With
  <2>3. ASSUME NEW m \in live' PROVE cmd'[m] \in {Cut[d] : d \in Cmds} /\ ip'[m] \in Addrs
    <3>1. CASE m = new
      BY <2>2, <3>1
    <3>2. CASE m # new
      <4>1. m \in live
        BY <1>1, <3>2
      <4> QED
        BY <1>2, <2>2, <3>2, <4>1 DEF TypeOK
    <3> QED
      BY <3>1, <3>2
  <2> QED
    BY <1>1, <2>2, <2>3
<1>5. TypeOK'
  <2>1. new \in Places /\ List \in Places /\ live' \subseteq Nodes
    BY <1>1, <1>2 DEF TypeOK, Places
  <2>2. next[List] \in live \cup {List}
    BY <1>2, Neighbours
  <2>3. next[List] \in Places
    BY <1>2, <2>1, <2>2 DEF TypeOK, Places
  <2>4. next' \in [Places -> Places \cup {Poison}] /\ prev' \in [Places -> Places \cup {Poison}]
    BY <1>1, <1>2, <2>1, <2>3 DEF TypeOK, ListAdd
  <2>5. ASSUME NEW m \in Nodes \ live' PROVE next'[m] = Poison /\ prev'[m] = Poison
    <3>1. m \in Places /\ m # new /\ m # List /\ m \notin live /\ m # next[List]
      BY <1>1, <2>2, AddrAssumption DEF Places
    <3>2. next'[m] = next[m] /\ prev'[m] = prev[m]
      BY <1>1, <1>2, <3>1 DEF TypeOK, ListAdd
    <3> QED
      BY <1>2, <3>1, <3>2 DEF TypeOK
  <2>6. found' \in Addrs \cup {NoAddr}
    BY <1>1, <1>2 DEF TypeOK
  <2> QED
    BY <1>4, <2>1, <2>4, <2>5, <2>6 DEF TypeOK
<1>6. Unique'
  <2>1. ASSUME NEW m \in live, Cut[c] \in Own PROVE cmd[m] # Cut[c]
    <3>1. c \in Fitting
      BY <2>1 DEF Own
    <3>2. Cut[c] = c
      BY <3>1 DEF Fitting
    <3> QED
      BY <1>2, <3>2, EntryFound
  <2> QED
    BY <1>1, <1>2, <1>4, <2>1 DEF Unique
<1> QED
  BY <1>3, <1>5, <1>6 DEF AddrInv

\* An entry is removed.
LEMMA RemoveInv ==
  ASSUME AddrInv, NEW c \in Cmds, AddrMgr_Remove(c)
  PROVE  AddrInv'
<1>1. TypeOK /\ Ring /\ Unique
  BY DEF AddrInv
<1> DEFINE entry == Entry(c)
<1>2. /\ entry \in live
      /\ live' = live \ {entry}
      /\ ListDel(entry)
      /\ cmd' = Without(cmd, entry)
      /\ ip' = Without(ip, entry)
      /\ UNCHANGED found
  <2>1. entry # List
    BY DEF AddrMgr_Remove
  <2>2. entry \in live
    BY <1>1, <2>1, EntryFound
  <2> QED
    BY <2>2 DEF AddrMgr_Remove
<1> HIDE DEF entry
<1>3. Ring'
  BY <1>1, <1>2, ListDelRing
<1>4. /\ cmd' = [m \in live' |-> cmd[m]]
      /\ ip' = [m \in live' |-> ip[m]]
  BY <1>1, <1>2 DEF TypeOK, Without
<1>5. TypeOK'
  <2>1. next[entry] \in Places /\ prev[entry] \in Places /\ entry \in Places
    BY <1>1, <1>2, Neighbours DEF TypeOK, Places
  <2>2. next' \in [Places -> Places \cup {Poison}] /\ prev' \in [Places -> Places \cup {Poison}]
    BY <1>1, <1>2, <2>1 DEF TypeOK, ListDel
  <2>3. ASSUME NEW m \in Nodes \ live' PROVE next'[m] = Poison /\ prev'[m] = Poison
    <3>1. m \in Places
      BY DEF Places
    <3>2. CASE m = entry
      BY <1>1, <1>2, <2>1, <3>2 DEF TypeOK, ListDel
    <3>3. CASE m # entry
      <4>1. m \notin live /\ next[m] = Poison /\ prev[m] = Poison
        BY <1>1, <1>2, <3>3 DEF TypeOK
      <4>2. next'[m] = IF m = prev[entry] THEN next[entry] ELSE next[m]
        BY <1>1, <1>2, <2>1, <3>1, <3>3 DEF TypeOK, ListDel
      <4>3. prev'[m] = IF m = next[entry] THEN prev[entry] ELSE prev[m]
        BY <1>1, <1>2, <2>1, <3>1, <3>3 DEF TypeOK, ListDel
      <4>4. prev[entry] \in live \cup {List} /\ next[entry] \in live \cup {List}
        BY <1>1, <1>2, Neighbours
      <4>5. m # List
        BY AddrAssumption
      <4> QED
        BY <4>1, <4>2, <4>3, <4>4, <4>5
    <3> QED
      BY <3>2, <3>3
  <2>4. live' \subseteq Nodes /\ found' \in Addrs \cup {NoAddr}
    BY <1>1, <1>2 DEF TypeOK
  <2>5. cmd' \in [live' -> {Cut[d] : d \in Cmds}] /\ ip' \in [live' -> Addrs]
    BY <1>1, <1>2, <1>4 DEF TypeOK
  <2> QED
    BY <2>2, <2>3, <2>4, <2>5 DEF TypeOK
<1>6. Unique'
  BY <1>1, <1>2, <1>4 DEF Unique
<1> QED
  BY <1>3, <1>5, <1>6 DEF AddrInv

\* All entries are removed.
LEMMA ClearInv ==
  ASSUME AddrInv, AddrMgr_Clear
  PROVE  AddrInv'
<1>1. List \in Places /\ live' = {} /\ next'[List] = List /\ prev'[List] = List
  BY DEF AddrMgr_Clear, Places
<1>2. Ring'
  <2>1. (live = {} /\ next[List] = List /\ prev[List] = List)' => Ring'
    BY EmptyRing, PTL
  <2> QED
    BY <1>1, <2>1
<1>3. TypeOK'
  BY AddrAssumption DEF AddrMgr_Clear, AddrInv, TypeOK, Places
<1> QED
  BY <1>1, <1>2, <1>3 DEF AddrInv, Unique

LEMMA StepAddrInv == AddrInv /\ [Next]_vars => AddrInv'
<1> SUFFICES ASSUME AddrInv, [Next]_vars PROVE AddrInv'
  OBVIOUS
<1>1. ASSUME NEW c \in Cmds, AddrMgr_Find(c) PROVE AddrInv'
  <2>1. found' \in Addrs \cup {NoAddr}
    <3>1. Entry(c) # List => Entry(c) \in live
      BY EntryFound DEF AddrInv
    <3> QED
      BY <1>1, <3>1 DEF AddrMgr_Find, AddrInv, TypeOK
  <2>2. UNCHANGED <<live, links, cmd, ip>>
    BY <1>1 DEF AddrMgr_Find
  <2> QED
    BY <2>1, <2>2, SameRing DEF links, AddrInv, TypeOK, Unique
<1>2. ASSUME NEW c \in Cmds, NEW addr \in Addrs, AddrMgr_Add(c, addr) PROVE AddrInv'
  <2>1. CASE Entry(c) # List
    <3>1. ip' = [ip EXCEPT ![Entry(c)] = addr] /\ UNCHANGED <<live, links, cmd, found>>
      BY <1>2, <2>1 DEF AddrMgr_Add
    <3>2. ip' \in [live' -> Addrs]
      BY <3>1 DEF AddrInv, TypeOK
    <3> QED
      BY <3>1, <3>2, SameRing DEF links, AddrInv, TypeOK, Unique
  <2>2. CASE Entry(c) = List
    BY <1>2, <2>2, AddNewInv DEF AddrMgr_Add
  <2> QED
    BY <2>1, <2>2
<1>3. ASSUME NEW c \in Cmds, AddrMgr_Remove(c) PROVE AddrInv'
  BY <1>3, RemoveInv
<1>4. CASE AddrMgr_Clear
  BY <1>4, ClearInv
<1>5. CASE UNCHANGED addrVars
  BY <1>5, SameRing DEF addrVars, links, AddrInv, TypeOK, Unique
<1>6. ASSUME NEW c \in Cmds, AddFails(c) PROVE AddrInv'
  BY <1>5, <1>6 DEF AddFails
<1>7. ASSUME NEW l \in Lines, DivideLine(l) PROVE AddrInv'
  BY <1>5, <1>7 DEF DivideLine
<1>8. CASE UNCHANGED vars
  BY <1>5, <1>8 DEF vars
<1> QED
  BY <1>1, <1>2, <1>3, <1>4, <1>6, <1>7, <1>8 DEF Next, AddrNext

LEMMA Invariance == Spec => []AddrInv
  BY InitAddrInv, StepAddrInv, PTL DEF Spec

\* However entries are added, removed and their memory used again, the list is
\* one ring through every allocated entry, in both directions, and a walk comes
\* to each of them and to its end.
THEOREM LinkedHolds == Spec => []Linked
<1>1. AddrInv => Linked
  <2> SUFFICES ASSUME AddrInv PROVE Linked
    OBVIOUS
  <2>1. TypeOK /\ Ring
    BY DEF AddrInv
  <2>2. PICK n \in Nat : \E ord : Numbered(ord, n)
    BY <2>1 DEF Ring
  <2>3. PICK ord : Numbered(ord, n)
    BY <2>2
  <2>4. /\ \A k \in 0 .. n + 1 : At[k] = ord[k]
        /\ Cardinality(live) = n /\ IsFiniteSet(live)
        /\ \A k \in 1 .. n : ord[k] \in live
    BY <2>1, <2>3, WalkNumbered, NumberedCount
  <2>5. At[Cardinality(live) + 1] = List
    BY <2>3, <2>4 DEF Numbered
  <2>6. {At[k] : k \in 1 .. Cardinality(live)} = live
    <3>1. ASSUME NEW m \in live PROVE \E k \in 1 .. n : At[k] = m
      <4>1. PICK k \in 1 .. n : ord[k] = m
        BY <2>3 DEF Numbered
      <4> QED
        BY <2>4, <4>1
    <3>2. \A k \in 1 .. n : At[k] \in live
      BY <2>4
    <3> QED
      BY <2>4, <3>1, <3>2
  <2>7. \A m \in live \cup {List} :
          /\ next[m] \in live \cup {List} /\ prev[next[m]] = m
          /\ prev[m] \in live \cup {List} /\ next[prev[m]] = m
    BY <2>1, Neighbours
  <2> QED
    BY <2>1, <2>5, <2>6, <2>7 DEF Linked
<1> QED
  BY <1>1, Invariance, PTL

--------------------------------------------------------------------------------
(* The manager implements the book. *)

\* What AddrMgr_Find would return for each command that fits, and how many entries
\* there are with commands that nothing longer is cut to.
BookOf == [c \in Fitting |-> IF Entry(c) = List THEN NoAddr ELSE ip[Entry(c)]]
EntriesOf == Cardinality({n \in live : cmd[n] \in Own})

\* The first entry with a command stays the first when one with another command is added;
LEMMA FirstAfterAdd ==
  ASSUME TypeOK, NEW c, NEW m, Foremost(c, m),
         NEW new \in Nodes \ live, ListAdd(new), live' = live \cup {new},
         cmd'[new] # c, \A e \in live : cmd'[e] = cmd[e]
  PROVE  Foremost(c, m)'
<1>1. PICK n \in Nat : \E ord : \E k \in 1 .. n :
        Numbered(ord, n) /\ ord[k] = m /\ cmd[m] = c /\ \A j \in 1 .. k - 1 : cmd[ord[j]] # c
  BY DEF Foremost
<1>2. PICK ord : \E k \in 1 .. n :
        Numbered(ord, n) /\ ord[k] = m /\ cmd[m] = c /\ \A j \in 1 .. k - 1 : cmd[ord[j]] # c
  BY <1>1
<1>3. PICK k \in 1 .. n :
        Numbered(ord, n) /\ ord[k] = m /\ cmd[m] = c /\ \A j \in 1 .. k - 1 : cmd[ord[j]] # c
  BY <1>2
<1>4. PICK ord2 : /\ ord2[1] = new
                  /\ \A l \in 1 .. n : ord2[l + 1] = ord[l]
                  /\ Numbered(ord2, n + 1)'
  BY <1>3, ListAddNumbered
<1>5. \A l \in 1 .. n : ord[l] \in live
  BY <1>3, NumberedCount
<1>6. n + 1 \in Nat /\ k + 1 \in 1 .. n + 1 /\ ord2[k + 1] = m /\ cmd'[m] = c
  BY <1>3, <1>4, <1>5
<1>7. ASSUME NEW j \in 1 .. (k + 1) - 1 PROVE cmd'[ord2[j]] # c
  <2>1. CASE j = 1
    BY <1>4, <2>1
  <2>2. CASE j # 1
    <3>1. j - 1 \in 1 .. k - 1 /\ j - 1 \in 1 .. n /\ (j - 1) + 1 = j
      BY <2>2
    <3>2. ord2[j] = ord[j - 1] /\ ord[j - 1] \in live
      BY <1>4, <1>5, <3>1
    <3> QED
      BY <1>3, <3>1, <3>2
  <2> QED
    BY <2>1, <2>2
<1> QED
  BY <1>4, <1>6, <1>7 DEF Foremost

\* ... and the one added is the first with its own command.
LEMMA FirstAdded ==
  ASSUME TypeOK, Ring, NEW new \in Nodes \ live, ListAdd(new), live' = live \cup {new},
         NEW c, cmd'[new] = c
  PROVE  Foremost(c, new)'
<1>1. PICK n \in Nat : \E ord : Numbered(ord, n)
  BY DEF Ring
<1>2. PICK ord : Numbered(ord, n)
  BY <1>1
<1>3. PICK ord2 : ord2[1] = new /\ Numbered(ord2, n + 1)'
  BY <1>2, ListAddNumbered
<1>4. n + 1 \in Nat /\ 1 \in 1 .. n + 1
  OBVIOUS
<1> QED
  BY <1>3, <1>4 DEF Foremost

\* The first entry with a command stays the first when another one is removed.
LEMMA FirstAfterDel ==
  ASSUME TypeOK, NEW c, NEW m, Foremost(c, m), NEW entry \in live, entry # m,
         ListDel(entry), live' = live \ {entry}, \A e \in live' : cmd'[e] = cmd[e]
  PROVE  Foremost(c, m)'
<1>1. PICK n \in Nat : \E ord : \E k \in 1 .. n :
        Numbered(ord, n) /\ ord[k] = m /\ cmd[m] = c /\ \A j \in 1 .. k - 1 : cmd[ord[j]] # c
  BY DEF Foremost
<1>2. PICK ord : \E k \in 1 .. n :
        Numbered(ord, n) /\ ord[k] = m /\ cmd[m] = c /\ \A j \in 1 .. k - 1 : cmd[ord[j]] # c
  BY <1>1
<1>3. PICK k \in 1 .. n :
        Numbered(ord, n) /\ ord[k] = m /\ cmd[m] = c /\ \A j \in 1 .. k - 1 : cmd[ord[j]] # c
  BY <1>2
<1>4. PICK i \in 1 .. n : ord[i] = entry
  BY <1>3 DEF Numbered
<1>5. PICK ord2 : /\ \A l \in 0 .. n : ord2[l] = IF l < i THEN ord[l] ELSE ord[l + 1]
                  /\ Numbered(ord2, n - 1)'
  BY <1>3, <1>4, ListDelNumbered
<1>6. \A l \in 1 .. n : ord[l] \in live
  BY <1>3, NumberedCount
<1>7. \A l \in 1 .. n : l # i => ord[l] # entry
  BY <1>3, <1>4 DEF Numbered
<1>8. k # i
  BY <1>3, <1>4
<1> DEFINE p == IF k < i THEN k ELSE k - 1
<1>9. /\ p \in 1 .. n - 1 /\ n - 1 \in Nat
      /\ p < i => p = k
      /\ ~ (p < i) => p + 1 = k
  BY <1>8
<1> HIDE DEF p
<1>10. ord2[p] = m /\ cmd'[m] = c
  <2>1. p \in 0 .. n
    BY <1>9
  <2>2. ord2[p] = ord[k]
    BY <1>5, <1>9, <2>1
  <2>3. m \in live'
    BY <1>3, <1>6
  <2> QED
    BY <1>3, <2>2, <2>3
<1>11. ASSUME NEW j \in 1 .. p - 1 PROVE cmd'[ord2[j]] # c
  <2> DEFINE l == IF j < i THEN j ELSE j + 1
  <2>1. l \in 1 .. k - 1 /\ l \in 1 .. n /\ l # i
    BY <1>9
  <2>2. ord2[j] = ord[l]
    <3>1. j \in 0 .. n
      BY <1>9
    <3> QED
      BY <1>5, <3>1
  <2> HIDE DEF l
  <2>3. ord[l] \in live'
    BY <1>6, <1>7, <2>1
  <2> QED
    BY <1>3, <2>1, <2>2, <2>3
<1> QED
  BY <1>5, <1>9, <1>10, <1>11 DEF Foremost

\* The book says of a command what the first entry with it says.
BookSays ==
  \A c \in Fitting :
    /\ \A m : Foremost(c, m) => m \in live /\ Entry(c) = m /\ BookOf[c] = ip[m]
    /\ (\A m \in live : cmd[m] # c) => Entry(c) = List /\ BookOf[c] = NoAddr
    /\ (\E m \in live : cmd[m] = c) => \E m : Foremost(c, m)

LEMMA BookEntry == AddrInv => BookSays
<1> SUFFICES ASSUME AddrInv, NEW c \in Fitting
             PROVE  /\ \A m : Foremost(c, m) => m \in live /\ Entry(c) = m
                    /\ (\A m \in live : cmd[m] # c) => Entry(c) = List
                    /\ (\E m \in live : cmd[m] = c) => \E m : Foremost(c, m)
  BY AddrAssumption DEF BookOf, BookSays, AddrInv, TypeOK
<1>1. /\ Entry(c) = List \/ (Entry(c) \in live /\ cmd[Entry(c)] = c)
      /\ Entry(c) = List => \A m \in live : cmd[m] # c
  BY EntryFound DEF AddrInv
<1>2. \A m : Foremost(c, m) => m \in live /\ Entry(c) = m
  BY FirstIsEntry DEF AddrInv
<1>3. Entry(c) # List => Foremost(c, Entry(c))
  BY EntryIsFirst DEF AddrInv
<1> QED
  BY <1>1, <1>2, <1>3

\* There is one entry for each command in the book that nothing longer is cut to.
LEMMA EntriesCount ==
  AddrInv => EntriesOf = Cardinality({c \in Own : BookOf[c] # NoAddr})
<1> SUFFICES ASSUME AddrInv
             PROVE  EntriesOf = Cardinality({c \in Own : BookOf[c] # NoAddr})
  OBVIOUS
<1> DEFINE S == {n \in live : cmd[n] \in Own}
           T == {c \in Own : BookOf[c] # NoAddr}
           f == [n \in S |-> cmd[n]]
<1>1. IsFiniteSet(S)
  <2>1. S \in SUBSET Nodes
    BY DEF AddrInv, TypeOK
  <2> QED
    BY <2>1, FS_Subset, AddrAssumption
<1>2. f \in Bijection(S, T)
  <2>1. ASSUME NEW n \in S PROVE f[n] \in T
    <3>1. cmd[n] \in Fitting
      BY DEF Own
    <3>2. PICK m : Foremost(cmd[n], m)
      BY <3>1, BookEntry DEF BookSays
    <3>3. m \in live /\ BookOf[cmd[n]] = ip[m]
      BY <3>1, <3>2, BookEntry DEF BookSays
    <3>4. ip[m] # NoAddr
      BY <3>3, AddrAssumption DEF AddrInv, TypeOK
    <3> QED
      BY <3>3, <3>4
  <2>2. \A m, n \in S : f[m] = f[n] => m = n
    BY DEF AddrInv, Unique
  <2>3. ASSUME NEW c \in T PROVE \E n \in S : f[n] = c
    <3>1. c \in Fitting
      BY DEF Own
    <3> QED
      BY <3>1, BookEntry DEF BookSays
  <2> HIDE DEF T
  <2>4. f \in [S -> T]
    BY <2>1
  <2> QED
    BY <2>2, <2>3, <2>4 DEF Bijection, Injection, Surjection, IsInjective
<1>3. ExistsBijection(S, T)
  BY <1>2 DEF ExistsBijection
<1> HIDE DEF S, T
<1>4. Cardinality(T) = Cardinality(S)
  BY <1>1, <1>3, FS_Bijection
<1> QED
  BY <1>4 DEF S, T, EntriesOf

\* A command that is cut is never found.
LEMMA CutNotFound ==
  ASSUME AddrInv, NEW c \in Cmds, c \notin Fitting
  PROVE  Entry(c) = List
<1>1. ASSUME NEW m \in live PROVE cmd[m] # c
  <2>1. PICK d \in Cmds : cmd[m] = Cut[d]
    BY DEF AddrInv, TypeOK
  <2>2. Cut[d] \in Cmds => Cut[d] \in Fitting
    BY AddrAssumption
  <2> QED
    BY <2>1, <2>2
<1> QED
  BY <1>1, EntryFound DEF AddrInv

LEMMA InitBook == Init => Book!Init
<1> SUFFICES ASSUME Init PROVE Book!Init
  OBVIOUS
<1>1. AddrInv /\ live = {} /\ found = NoAddr
  BY InitAddrInv DEF Init, AddrInit
<1>2. \A c \in Fitting : Entry(c) = List
  BY <1>1, BookEntry DEF BookSays
<1>3. Cardinality({n \in live : cmd[n] \in Own}) = 0
  BY <1>1, FS_EmptySet
<1> QED
  BY <1>1, <1>2, <1>3 DEF Book!Init

\* A step that writes a book of the right entries.
LEMMA BookWrite ==
  ASSUME AddrInv', UNCHANGED found, NEW new, new = [c \in Fitting |-> new[c]],
         \A c \in Fitting : BookOf'[c] = new[c]
  PROVE  Book!Write(new)
<1>1. BookOf' = new
  <2>1. BookOf' = [c \in Fitting |-> BookOf'[c]]
    BY DEF BookOf
  <2> QED
    BY <2>1
<1>2. EntriesOf' = Cardinality({c \in Own : BookOf'[c] # NoAddr})
  <2>1. AddrInv' => (EntriesOf = Cardinality({c \in Own : BookOf[c] # NoAddr}))'
    BY EntriesCount, PTL
  <2> QED
    BY <2>1
<1>3. EntriesOf' = Cardinality({c \in Own : new[c] # NoAddr})
  BY <1>1, <1>2
<1> QED
  <2>1. /\ [c \in Fitting |-> IF Entry(c) = List THEN NoAddr ELSE ip[Entry(c)]]' = new
        /\ Cardinality({n \in live : cmd[n] \in Own})' = Cardinality({c \in Own : new[c] # NoAddr})
    BY <1>1, <1>3 DEF BookOf, EntriesOf
  <2> QED
    BY <2>1, Zenon DEF Book!Write, Book!Cardinality, Cardinality

\* What is in the book after a step.
LEMMA BookEntryNext ==
  ASSUME AddrInv', NEW c \in Fitting
  PROVE  /\ \A m : Foremost(c, m)' => BookOf'[c] = ip'[m]
         /\ (\A m \in live' : cmd'[m] # c) => BookOf'[c] = NoAddr
         /\ BookOf'[c] \in Addrs \cup {NoAddr}
<1>1. AddrInv' => BookSays'
  BY BookEntry, PTL
<1>2. /\ \A m : Foremost(c, m)' => m \in live' /\ BookOf'[c] = ip'[m]
      /\ (\A m \in live' : cmd'[m] # c) => BookOf'[c] = NoAddr
      /\ (\E m \in live' : cmd'[m] = c) => \E m : Foremost(c, m)'
  BY <1>1 DEF BookSays
<1>3. \A m \in live' : ip'[m] \in Addrs
  BY DEF AddrInv, TypeOK
<1> QED
  BY <1>2, <1>3

\* A step that leaves the list and its commands alone leaves the first entry alone.
LEMMA SameFirst ==
  ASSUME NEW c, NEW m, Foremost(c, m), UNCHANGED <<live, links, cmd>>
  PROVE  Foremost(c, m)'
<1>1. PICK n \in Nat : \E ord : \E k \in 1 .. n :
        Numbered(ord, n) /\ ord[k] = m /\ cmd[m] = c /\ \A j \in 1 .. k - 1 : cmd[ord[j]] # c
  BY DEF Foremost
<1>2. PICK ord : \E k \in 1 .. n :
        Numbered(ord, n) /\ ord[k] = m /\ cmd[m] = c /\ \A j \in 1 .. k - 1 : cmd[ord[j]] # c
  BY <1>1
<1>3. PICK k \in 1 .. n :
        Numbered(ord, n) /\ ord[k] = m /\ cmd[m] = c /\ \A j \in 1 .. k - 1 : cmd[ord[j]] # c
  BY <1>2
<1>4. Numbered(ord, n)'
  BY <1>3 DEF Numbered, links
<1> QED
  BY <1>3, <1>4 DEF Foremost

\* A step that leaves nodes, commands and addresses alone is one of the book.
LEMMA BookSame ==
  ASSUME AddrInv, AddrInv', UNCHANGED <<live, links, cmd, ip>>
  PROVE  UNCHANGED <<BookOf, EntriesOf>>
<1>1. ASSUME NEW c \in Fitting PROVE BookOf'[c] = BookOf[c]
  <2>1. CASE \E m \in live : cmd[m] = c
    <3>1. PICK m : Foremost(c, m)
      BY <2>1, BookEntry DEF BookSays
    <3>2. Foremost(c, m)'
      BY <3>1, SameFirst
    <3> QED
      BY <3>1, <3>2, BookEntry, BookEntryNext DEF BookSays
  <2>2. CASE \A m \in live : cmd[m] # c
    BY <2>2, BookEntry, BookEntryNext DEF BookSays
  <2> QED
    BY <2>1, <2>2
<1>2. BookOf' = [c \in Fitting |-> BookOf'[c]] /\ BookOf = [c \in Fitting |-> BookOf[c]]
  BY DEF BookOf
<1>3. BookOf' = BookOf
  BY <1>1, <1>2
<1> QED
  BY <1>3 DEF EntriesOf

\* A new entry overlays the command that its own is cut to and no other.
LEMMA AddNewBook ==
  ASSUME AddrInv, AddrInv', NEW c \in Cmds, NEW addr \in Addrs, AddNew(c, addr)
  PROVE  [Book!Next]_(Book!vars)
<1>1. TypeOK /\ Ring
  BY DEF AddrInv
<1>2. PICK node \in Nodes \ live :
        /\ live' = live \cup {node}
        /\ ListAdd(node)
        /\ cmd' = With(cmd, node, Cut[c])
        /\ ip' = With(ip, node, addr)
        /\ UNCHANGED found
  BY DEF AddNew
<1>3. /\ cmd'[node] = Cut[c] /\ ip'[node] = addr
      /\ \A m \in live : cmd'[m] = cmd[m] /\ ip'[m] = ip[m]
  BY <1>1, <1>2 DEF TypeOK, With
<1>4. ASSUME NEW d \in Fitting, d # Cut[c] PROVE BookOf'[d] = BookOf[d]
  <2>1. CASE \E m \in live : cmd[m] = d
    <3>1. PICK m : Foremost(d, m)
      BY <2>1, BookEntry DEF BookSays
    <3>2. m \in live /\ BookOf[d] = ip[m]
      BY <3>1, BookEntry DEF BookSays
    <3>3. Foremost(d, m)'
      BY <1>1, <1>2, <1>3, <1>4, <3>1, FirstAfterAdd
    <3> QED
      BY <1>3, <3>2, <3>3, BookEntryNext
  <2>2. CASE \A m \in live : cmd[m] # d
    <3>1. \A m \in live' : cmd'[m] # d
      BY <1>2, <1>3, <1>4, <2>2
    <3> QED
      BY <2>2, <3>1, BookEntry, BookEntryNext DEF BookSays
  <2> QED
    BY <2>1, <2>2
<1>5. CASE Cut[c] \in Fitting
  <2> DEFINE key == Cut[c]
             new == [BookOf EXCEPT ![key] = addr]
  <2>1. DOMAIN BookOf = Fitting
    BY DEF BookOf
  <2>2. BookOf'[key] = addr
    <3>1. Foremost(key, node)'
      BY <1>1, <1>2, <1>3, FirstAdded
    <3> QED
      BY <1>3, <1>5, <3>1, BookEntryNext
  <2>3. \A d \in Fitting : BookOf'[d] = new[d]
    BY <1>4, <2>1, <2>2
  <2>4. new = [d \in Fitting |-> new[d]]
    BY <2>1
  <2> HIDE DEF new
  <2>5. Book!Write(new)
    BY <1>2, <2>3, <2>4, BookWrite
  <2>6. Book!Enter(key, addr)
    BY <2>5 DEF Book!Enter, BookOf, new
  <2> QED
    BY <1>5, <2>6 DEF Book!Next
<1>6. CASE Cut[c] \notin Fitting
  <2>1. \A d \in Fitting : BookOf'[d] = BookOf[d]
    BY <1>4, <1>6
  <2>2. BookOf' = BookOf
    <3>1. BookOf' = [d \in Fitting |-> BookOf'[d]] /\ BookOf = [d \in Fitting |-> BookOf[d]]
      BY DEF BookOf
    <3> QED
      BY <2>1, <3>1
  <2>3. EntriesOf' = EntriesOf
    <3>1. Cut[c] \notin Own
      BY <1>6 DEF Own
    <3>2. {m \in live' : cmd'[m] \in Own} = {m \in live : cmd[m] \in Own}
      BY <1>2, <1>3, <3>1
    <3> QED
      BY <3>2 DEF EntriesOf
  <2> QED
    BY <1>2, <2>2, <2>3 DEF Book!vars, BookOf, EntriesOf
<1> QED
  BY <1>5, <1>6

\* An entry that is changed is that of its command.
LEMMA ChangeBook ==
  ASSUME AddrInv, AddrInv', NEW c \in Cmds, NEW addr \in Addrs, Entry(c) # List,
         AddrMgr_Add(c, addr)
  PROVE  Book!Next
<1>1. TypeOK
  BY DEF AddrInv
<1>2. ip' = [ip EXCEPT ![Entry(c)] = addr] /\ UNCHANGED <<live, links, cmd, found>>
  BY DEF AddrMgr_Add
<1>3. c \in Fitting /\ Foremost(c, Entry(c)) /\ Entry(c) \in live /\ cmd[Entry(c)] = c
  BY CutNotFound, EntryFound, EntryIsFirst DEF AddrInv
<1> DEFINE new == [BookOf EXCEPT ![c] = addr]
<1>4. DOMAIN BookOf = Fitting
  BY DEF BookOf
<1>5. BookOf'[c] = addr
  <2>1. \A m : Foremost(c, m) => Foremost(c, m)'
    BY <1>2, SameFirst
  <2>2. PICK m : m = Entry(c)
    OBVIOUS
  <2>3. Foremost(c, m)'
    BY <1>3, <2>1, <2>2
  <2>4. BookOf'[c] = ip'[m]
    BY <1>3, <2>3, BookEntryNext
  <2> QED
    BY <1>1, <1>2, <1>3, <2>2, <2>4 DEF TypeOK
<1>6. ASSUME NEW d \in Fitting, d # c PROVE BookOf'[d] = BookOf[d]
  <2>1. CASE \E m \in live : cmd[m] = d
    <3>1. PICK m : Foremost(d, m)
      BY <2>1, BookEntry DEF BookSays
    <3>2. m \in live /\ cmd[m] = d /\ BookOf[d] = ip[m]
      BY <3>1, BookEntry DEF BookSays, Foremost
    <3>3. ip'[m] = ip[m]
      BY <1>1, <1>2, <1>3, <1>6, <3>2 DEF TypeOK
    <3>4. Foremost(d, m)'
      BY <1>2, <3>1, SameFirst
    <3> QED
      BY <3>2, <3>3, <3>4, BookEntryNext
  <2>2. CASE \A m \in live : cmd[m] # d
    BY <1>2, <2>2, BookEntry, BookEntryNext DEF BookSays
  <2> QED
    BY <2>1, <2>2
<1>7. \A d \in Fitting : BookOf'[d] = new[d]
  BY <1>4, <1>5, <1>6
<1>8. new = [d \in Fitting |-> new[d]]
  BY <1>4
<1> HIDE DEF new
<1>9. Book!Write(new)
  BY <1>2, <1>7, <1>8, BookWrite
<1>10. Book!Enter(c, addr)
  BY <1>9 DEF Book!Enter, BookOf, new
<1> QED
  BY <1>3, <1>10 DEF Book!Next

\* An entry that is removed leaves an older one of its command, if there is one.
LEMMA RemoveBook ==
  ASSUME AddrInv, AddrInv', NEW c \in Cmds, AddrMgr_Remove(c)
  PROVE  Book!Next
<1>1. TypeOK
  BY DEF AddrInv
<1>2. c \in Fitting /\ Entry(c) \in live /\ cmd[Entry(c)] = c
  BY CutNotFound, EntryFound DEF AddrMgr_Remove, AddrInv
<1>3. /\ live' = live \ {Entry(c)}
      /\ ListDel(Entry(c))
      /\ UNCHANGED found
      /\ \A m \in live' : cmd'[m] = cmd[m] /\ ip'[m] = ip[m]
  BY <1>1 DEF AddrMgr_Remove, Without, TypeOK
<1>4. PICK entry : entry = Entry(c)
  OBVIOUS
<1>5. PICK older : older = BookOf'[c]
  OBVIOUS
<1> DEFINE new == [BookOf EXCEPT ![c] = older]
<1>6. DOMAIN BookOf = Fitting
  BY DEF BookOf
<1>7. older \in Addrs \cup {NoAddr}
  BY <1>2, <1>5, BookEntryNext
<1>8. ASSUME c \in Own PROVE older = NoAddr
  <2>1. \A m \in live' : cmd'[m] # c
    BY <1>2, <1>3, <1>8 DEF AddrInv, Unique
  <2> QED
    BY <1>2, <1>5, <2>1, BookEntryNext
<1>9. ASSUME NEW d \in Fitting, d # c PROVE BookOf'[d] = BookOf[d]
  <2>1. CASE \E m \in live : cmd[m] = d
    <3>1. PICK m : Foremost(d, m)
      BY <2>1, BookEntry DEF BookSays
    <3>2. m \in live /\ cmd[m] = d /\ BookOf[d] = ip[m]
      BY <3>1, BookEntry DEF BookSays, Foremost
    <3>3. entry \in live /\ entry # m /\ ListDel(entry) /\ live' = live \ {entry}
      BY <1>2, <1>3, <1>4, <1>9, <3>2
    <3>4. Foremost(d, m)'
      BY <1>1, <1>3, <3>1, <3>3, FirstAfterDel
    <3>5. ip'[m] = ip[m]
      BY <1>3, <3>2, <3>3
    <3> QED
      BY <3>2, <3>4, <3>5, BookEntryNext
  <2>2. CASE \A m \in live : cmd[m] # d
    <3>1. \A m \in live' : cmd'[m] # d
      BY <1>3, <2>2
    <3> QED
      BY <2>2, <3>1, BookEntry, BookEntryNext DEF BookSays
  <2> QED
    BY <2>1, <2>2
<1>10. \A d \in Fitting : BookOf'[d] = new[d]
  BY <1>5, <1>6, <1>9
<1>11. new = [d \in Fitting |-> new[d]]
  BY <1>6
<1> HIDE DEF new
<1>12. Book!Write(new)
  BY <1>3, <1>10, <1>11, BookWrite
<1>13. Book!Strike(c)
  BY <1>7, <1>8, <1>12 DEF Book!Strike, BookOf, new
<1> QED
  BY <1>2, <1>13 DEF Book!Next

LEMMA StepBook == AddrInv /\ AddrInv' /\ [Next]_vars => [Book!Next]_(Book!vars)
<1> SUFFICES ASSUME AddrInv, AddrInv', [Next]_vars PROVE [Book!Next]_(Book!vars)
  OBVIOUS
<1>2. CASE UNCHANGED addrVars
  <2>1. UNCHANGED <<BookOf, EntriesOf, found>>
    BY <1>2, BookSame DEF addrVars
  <2> QED
    BY <2>1 DEF BookOf, EntriesOf, Book!vars
<1>3. ASSUME NEW c \in Cmds, AddrMgr_Find(c) PROVE [Book!Next]_(Book!vars)
  <2>1. UNCHANGED <<BookOf, EntriesOf>>
    BY <1>3, BookSame DEF AddrMgr_Find
  <2>2. CASE c \in Fitting
    <3>1. found' = BookOf[c]
      BY <1>3, <2>2 DEF AddrMgr_Find, BookOf
    <3>2. Book!Look(c)
      BY <2>1, <3>1 DEF Book!Look, BookOf, EntriesOf
    <3> QED
      BY <2>2, <3>2 DEF Book!Next
  <2>3. CASE c \notin Fitting
    <3>1. found' = NoAddr
      BY <1>3, <2>3, CutNotFound DEF AddrMgr_Find
    <3>2. Book!LookElsewhere
      BY <2>1, <3>1 DEF Book!LookElsewhere, BookOf, EntriesOf
    <3> QED
      BY <3>2 DEF Book!Next
  <2> QED
    BY <2>2, <2>3
<1>4. ASSUME NEW c \in Cmds, NEW addr \in Addrs, AddrMgr_Add(c, addr)
      PROVE  [Book!Next]_(Book!vars)
  <2>1. CASE Entry(c) # List
    BY <1>4, <2>1, ChangeBook
  <2>2. CASE Entry(c) = List
    <3>1. AddNew(c, addr)
      BY <1>4, <2>2 DEF AddrMgr_Add
    <3> QED
      BY <3>1, AddNewBook
  <2> QED
    BY <2>1, <2>2
<1>5. ASSUME NEW c \in Cmds, AddrMgr_Remove(c) PROVE [Book!Next]_(Book!vars)
  BY <1>5, RemoveBook
<1>6. CASE AddrMgr_Clear
  <2> DEFINE new == [c \in Fitting |-> NoAddr]
  <2>1. \A d \in Fitting : BookOf'[d] = new[d]
    BY <1>6, BookEntryNext DEF AddrMgr_Clear
  <2>2. new = [d \in Fitting |-> new[d]]
    OBVIOUS
  <2>3. UNCHANGED found
    BY <1>6 DEF AddrMgr_Clear
  <2> HIDE DEF new
  <2>4. Book!Write(new)
    BY <2>1, <2>2, <2>3, BookWrite
  <2>5. Book!StrikeAll
    BY <2>4 DEF Book!StrikeAll, new
  <2> QED
    BY <2>5 DEF Book!Next
<1>7. ASSUME NEW c \in Cmds, AddFails(c) PROVE [Book!Next]_(Book!vars)
  BY <1>2, <1>7 DEF AddFails
<1>8. ASSUME NEW l \in Lines, DivideLine(l) PROVE [Book!Next]_(Book!vars)
  BY <1>2, <1>8 DEF DivideLine
<1>9. CASE UNCHANGED vars
  BY <1>2, <1>9 DEF vars
<1> QED
  BY <1>3, <1>4, <1>5, <1>6, <1>7, <1>8, <1>9 DEF Next, AddrNext

\* For commands that fit the manager is a book of what was entered last; a command
\* that is cut overlays the one that it is cut to and disturbs no other, and of one
\* that nothing is cut to there is at most one entry.
THEOREM ImplementsBookHolds == Spec => ImplementsBook
<1>1. Spec => Book!Spec
  BY Invariance, InitBook, StepBook, PTL DEF Spec, Book!Spec
<1> QED
  BY <1>1 DEF ImplementsBook

--------------------------------------------------------------------------------
(* The words of a line. *)

\* The first m characters of t have n words, from the places p to the places q.
Parts(t, m, c, n, p, q) ==
  /\ \A k \in 1 .. n : p[k] \in 1 .. m /\ q[k] \in p[k] .. m
  /\ \A k \in 1 .. n - 1 : q[k] + 1 < p[k + 1]
  /\ \A k \in 1 .. n : \A j \in p[k] .. q[k] : t[j] # c
  /\ \A j \in 1 .. m : t[j] # c => \E k \in 1 .. n : j \in p[k] .. q[k]

\* f has n words, from the places a to the places b, with one separator between them.
Tight(f, c, n, a, b) ==
  /\ \A k \in 1 .. n : a[k] \in 1 .. Len(f) /\ b[k] \in a[k] .. Len(f)
  /\ n > 0 => a[1] = 1
  /\ \A k \in 1 .. n - 1 : a[k + 1] = b[k] + 2 /\ f[b[k] + 1] = c
  /\ \A k \in 1 .. n : \A j \in a[k] .. b[k] : f[j] # c

\* The words of t are those of f.
Matched(t, p, q, f, a, b, n) ==
  \A k \in 1 .. n : /\ q[k] - p[k] = b[k] - a[k]
                    /\ \A e \in 0 .. b[k] - a[k] : f[a[k] + e] = t[p[k] + e]

\* What the loop of FormatByChar has made of the first m characters of t.
Copied(t, m, c, o, flag, n, p, q, a, b) ==
  /\ Parts(t, m, c, n, p, q)
  /\ Tight(o, c, n, a, b)
  /\ Matched(t, p, q, o, a, b, n)
  /\ n = 0 => Len(o) = 0 /\ ~ flag
  /\ n > 0 /\ flag => b[n] = Len(o) - 1 /\ t[m] = c /\ o[Len(o)] = c
  /\ n > 0 /\ ~ flag => b[n] = Len(o) /\ q[n] = m

\* o2 is o with x behind it.
Longer(o2, o, x) ==
  /\ Len(o) \in Nat
  /\ Len(o2) = Len(o) + 1
  /\ o2[Len(o) + 1] = x
  /\ \A i \in 1 .. Len(o) : o2[i] = o[i]

\* A separator after another one.
LEMMA CopyNothing ==
  ASSUME NEW t, NEW m \in Nat, NEW c, NEW o, NEW n \in Nat, NEW p, NEW q, NEW a, NEW b,
         n > 0, t[m + 1] = c, Copied(t, m, c, o, TRUE, n, p, q, a, b)
  PROVE  Copied(t, m + 1, c, o, TRUE, n, p, q, a, b)
<1>1. Parts(t, m + 1, c, n, p, q)
  BY DEF Copied, Parts
<1> QED
  BY <1>1 DEF Copied

\* A separator after a word.
LEMMA CopySeparator ==
  ASSUME NEW t, NEW m \in Nat, NEW c, NEW o, NEW n \in Nat, NEW p, NEW q, NEW a, NEW b,
         n > 0, t[m + 1] = c, Copied(t, m, c, o, FALSE, n, p, q, a, b),
         NEW o2, Longer(o2, o, c)
  PROVE  Copied(t, m + 1, c, o2, TRUE, n, p, q, a, b)
<1>1. Parts(t, m + 1, c, n, p, q)
  BY DEF Copied, Parts
<1>2. \A k \in 1 .. n : a[k] \in 1 .. Len(o) /\ b[k] \in a[k] .. Len(o)
  BY DEF Copied, Tight
<1>3. Tight(o2, c, n, a, b)
  <2>1. \A k \in 1 .. n - 1 : b[k] + 1 \in 1 .. Len(o)
    <3> SUFFICES ASSUME NEW k \in 1 .. n - 1 PROVE b[k] + 1 \in 1 .. Len(o)
      OBVIOUS
    <3>1. a[k + 1] = b[k] + 2 /\ k + 1 \in 1 .. n /\ k \in 1 .. n
      BY DEF Copied, Tight
    <3>2. a[k + 1] \in 1 .. Len(o) /\ a[k] \in 1 .. Len(o) /\ b[k] \in a[k] .. Len(o)
      BY <1>2, <3>1
    <3> QED
      BY <3>1, <3>2 DEF Longer
  <2>2. \A k \in 1 .. n : \A j \in a[k] .. b[k] : j \in 1 .. Len(o)
    BY <1>2 DEF Longer
  <2>3. \A k \in 1 .. n : a[k] \in 1 .. Len(o2) /\ b[k] \in a[k] .. Len(o2)
    BY <1>2 DEF Longer
  <2>4. \A k \in 1 .. n - 1 : a[k + 1] = b[k] + 2 /\ o2[b[k] + 1] = c
    BY <2>1 DEF Copied, Tight, Longer
  <2>5. \A k \in 1 .. n : \A j \in a[k] .. b[k] : o2[j] # c
    BY <2>2 DEF Copied, Tight, Longer
  <2>6. a[1] = 1
    BY DEF Copied, Tight
  <2> QED
    BY <2>3, <2>4, <2>5, <2>6 DEF Tight
<1>4. Matched(t, p, q, o2, a, b, n)
  <2> SUFFICES ASSUME NEW k \in 1 .. n, NEW e \in 0 .. b[k] - a[k]
               PROVE  o2[a[k] + e] = o[a[k] + e]
    BY DEF Copied, Matched
  <2>1. a[k] + e \in 1 .. Len(o)
    BY <1>2 DEF Longer
  <2> QED
    BY <2>1 DEF Longer
<1>5. b[n] = Len(o2) - 1 /\ o2[Len(o2)] = c
  BY DEF Copied, Longer
<1> QED
  BY <1>1, <1>3, <1>4, <1>5 DEF Copied

\* One more character of the word.
LEMMA CopyWithin ==
  ASSUME NEW t, NEW m \in Nat, NEW c, NEW o, NEW n \in Nat, NEW p, NEW q, NEW a, NEW b,
         n > 0, t[m + 1] # c, Copied(t, m, c, o, FALSE, n, p, q, a, b),
         NEW o2, Longer(o2, o, t[m + 1])
  PROVE  \E q2, b2 : Copied(t, m + 1, c, o2, FALSE, n, p, q2, a, b2)
<1> DEFINE q2 == [k \in 1 .. n |-> IF k = n THEN m + 1 ELSE q[k]]
           b2 == [k \in 1 .. n |-> IF k = n THEN Len(o) + 1 ELSE b[k]]
<1>1. q2[n] = m + 1 /\ b2[n] = Len(o) + 1 /\ \A k \in 1 .. n - 1 : q2[k] = q[k] /\ b2[k] = b[k]
  OBVIOUS
<1>2. q[n] = m /\ b[n] = Len(o) /\ Len(o) \in Nat
  BY DEF Copied, Longer
<1>3. /\ \A k \in 1 .. n : a[k] \in 1 .. Len(o) /\ b[k] \in a[k] .. Len(o)
      /\ \A k \in 1 .. n : p[k] \in 1 .. m /\ q[k] \in p[k] .. m
  BY DEF Copied, Tight, Parts
<1> HIDE DEF q2, b2
<1>4. Parts(t, m + 1, c, n, p, q2)
  <2>1. ASSUME NEW k \in 1 .. n PROVE p[k] \in 1 .. m + 1 /\ q2[k] \in p[k] .. m + 1
    <3>1. p[k] \in 1 .. m /\ q[k] \in p[k] .. m
      BY <1>3
    <3>2. q2[k] = m + 1 \/ q2[k] = q[k]
      BY <1>1
    <3> QED
      BY <3>1, <3>2
  <2>2. \A k \in 1 .. n - 1 : q2[k] + 1 < p[k + 1]
    BY <1>1 DEF Copied, Parts
  <2>3. ASSUME NEW k \in 1 .. n, NEW j \in p[k] .. q2[k] PROVE t[j] # c
    <3>1. CASE k = n
      BY <1>1, <1>2, <1>3, <3>1 DEF Copied, Parts
    <3>2. CASE k # n
      <4>1. j \in p[k] .. q[k]
        BY <1>1, <3>2
      <4> QED
        BY <4>1 DEF Copied, Parts
    <3> QED
      BY <3>1, <3>2
  <2>4. ASSUME NEW j \in 1 .. m + 1, t[j] # c PROVE \E k \in 1 .. n : j \in p[k] .. q2[k]
    <3>1. CASE j = m + 1
      BY <1>1, <1>3, <3>1
    <3>2. CASE j # m + 1
      <4>1. PICK k \in 1 .. n : j \in p[k] .. q[k]
        BY <2>4, <3>2 DEF Copied, Parts
      <4>2. p[k] \in 1 .. m /\ q[k] \in p[k] .. m /\ (q2[k] = m + 1 \/ q2[k] = q[k])
        BY <1>1, <1>3
      <4>3. j \in p[k] .. q2[k]
        BY <4>1, <4>2
      <4> QED
        BY <4>3
    <3> QED
      BY <3>1, <3>2
  <2> QED
    BY <2>1, <2>2, <2>3, <2>4 DEF Parts
<1>5. Tight(o2, c, n, a, b2)
  <2>1. \A k \in 1 .. n : a[k] \in 1 .. Len(o2) /\ b2[k] \in a[k] .. Len(o2)
    BY <1>1, <1>2, <1>3 DEF Longer
  <2>2. ASSUME NEW k \in 1 .. n - 1 PROVE a[k + 1] = b2[k] + 2 /\ o2[b2[k] + 1] = c
    <3>1. a[k + 1] = b[k] + 2 /\ o[b[k] + 1] = c /\ k + 1 \in 1 .. n /\ k \in 1 .. n
      BY DEF Copied, Tight
    <3>2. a[k + 1] \in 1 .. Len(o) /\ a[k] \in 1 .. Len(o) /\ b[k] \in a[k] .. Len(o)
      BY <1>3, <3>1
    <3>3. b[k] + 1 \in 1 .. Len(o)
      BY <1>2, <3>1, <3>2
    <3> QED
      BY <1>1, <3>1, <3>3 DEF Longer
  <2>3. ASSUME NEW k \in 1 .. n, NEW j \in a[k] .. b2[k] PROVE o2[j] # c
    <3>1. CASE j = Len(o) + 1
      BY <3>1 DEF Longer
    <3>2. CASE j # Len(o) + 1
      <4>0. a[k] \in 1 .. Len(o) /\ b[k] \in a[k] .. Len(o)
        BY <1>3
      <4>1. j \in a[k] .. b[k] /\ j \in 1 .. Len(o)
        BY <1>1, <1>2, <3>2, <4>0
      <4>2. o[j] # c
        BY <4>1 DEF Copied, Tight
      <4> QED
        BY <4>1, <4>2 DEF Longer
    <3> QED
      BY <3>1, <3>2
  <2>4. a[1] = 1
    BY DEF Copied, Tight
  <2> QED
    BY <2>1, <2>2, <2>3, <2>4 DEF Tight
<1>6. Matched(t, p, q2, o2, a, b2, n)
  <2> SUFFICES ASSUME NEW k \in 1 .. n
               PROVE  /\ q2[k] - p[k] = b2[k] - a[k]
                      /\ \A e \in 0 .. b2[k] - a[k] : o2[a[k] + e] = t[p[k] + e]
    BY DEF Matched
  <2>1. /\ q[k] - p[k] = b[k] - a[k]
        /\ \A e \in 0 .. b[k] - a[k] : o[a[k] + e] = t[p[k] + e]
    BY DEF Copied, Matched
  <2>0. /\ a[k] \in 1 .. Len(o) /\ b[k] \in a[k] .. Len(o)
        /\ p[k] \in 1 .. m /\ q[k] \in p[k] .. m
    BY <1>3
  <2>2. q2[k] - p[k] = b2[k] - a[k]
    <3>1. CASE k = n
      <4>1. m - p[k] = Len(o) - a[k] /\ q2[k] = m + 1 /\ b2[k] = Len(o) + 1
        BY <1>1, <1>2, <2>1, <3>1
      <4>2. p[k] \in Int /\ a[k] \in Int /\ Len(o) \in Int
        BY <1>2, <2>0
      <4> QED
        BY <4>1, <4>2
    <3>2. CASE k # n
      BY <1>1, <2>1, <3>2
    <3> QED
      BY <3>1, <3>2
  <2>3. ASSUME NEW e \in 0 .. b2[k] - a[k] PROVE o2[a[k] + e] = t[p[k] + e]
    <3>1. CASE e \in 0 .. b[k] - a[k]
      <4>1. a[k] + e \in 1 .. Len(o)
        BY <1>2, <2>0, <3>1
      <4> QED
        BY <2>1, <3>1, <4>1 DEF Longer
    <3>2. CASE e \notin 0 .. b[k] - a[k]
      <4>1. k = n
        BY <1>1, <3>2
      <4>2. a[k] + e = Len(o) + 1 /\ p[k] + e = m + 1
        <5>1. e = Len(o) + 1 - a[k]
          BY <1>1, <1>2, <2>0, <3>2, <4>1
        <5>2. m - p[k] = Len(o) - a[k]
          BY <1>2, <2>1, <4>1
        <5>3. p[k] \in Int /\ a[k] \in Int /\ Len(o) \in Int
          BY <1>2, <2>0
        <5>4. \A x, y, l \in Int : e = l + 1 - y /\ m - x = l - y => y + e = l + 1 /\ x + e = m + 1
          OBVIOUS
        <5> QED
          BY <5>1, <5>2, <5>3, <5>4
      <4> QED
        BY <4>2 DEF Longer
    <3> QED
      BY <3>1, <3>2
  <2> QED
    BY <2>2, <2>3
<1>7. b2[n] = Len(o2) /\ q2[n] = m + 1
  BY <1>1 DEF Longer
<1>8. Copied(t, m + 1, c, o2, FALSE, n, p, q2, a, b2)
  BY <1>4, <1>5, <1>6, <1>7 DEF Copied
<1> QED
  BY <1>8

\* The first character of a word.
LEMMA CopyFirst ==
  ASSUME NEW t, NEW m \in Nat, NEW c, NEW o, NEW flag, NEW n \in Nat, NEW p, NEW q, NEW a, NEW b,
         n = 0 \/ flag, t[m + 1] # c, Copied(t, m, c, o, flag, n, p, q, a, b),
         NEW o2, Longer(o2, o, t[m + 1])
  PROVE  \E p2, q2, a2, b2 : Copied(t, m + 1, c, o2, FALSE, n + 1, p2, q2, a2, b2)
<1> DEFINE New(s, e) == [k \in 1 .. n + 1 |-> IF k = n + 1 THEN e ELSE s[k]]
           p2 == New(p, m + 1)
           q2 == New(q, m + 1)
           a2 == New(a, Len(o) + 1)
           b2 == New(b, Len(o) + 1)
<1>1. /\ p2[n + 1] = m + 1 /\ q2[n + 1] = m + 1
      /\ a2[n + 1] = Len(o) + 1 /\ b2[n + 1] = Len(o) + 1
      /\ \A k \in 1 .. n : p2[k] = p[k] /\ q2[k] = q[k] /\ a2[k] = a[k] /\ b2[k] = b[k]
  OBVIOUS
<1> HIDE DEF p2, q2, a2, b2
<1>2. ASSUME NEW k \in 1 .. n
      PROVE  /\ a[k] \in 1 .. Len(o) /\ b[k] \in a[k] .. Len(o)
             /\ p[k] \in 1 .. m /\ q[k] \in p[k] .. m
             /\ a[k] \in Nat /\ b[k] \in Nat /\ p[k] \in Nat /\ q[k] \in Nat
  <2>1. /\ a[k] \in 1 .. Len(o) /\ b[k] \in a[k] .. Len(o)
        /\ p[k] \in 1 .. m /\ q[k] \in p[k] .. m
    BY DEF Copied, Tight, Parts
  <2> QED
    BY <2>1 DEF Longer
<1>3. Len(o) \in Nat /\ Len(o2) = Len(o) + 1
  BY DEF Longer
<1>4. Parts(t, m + 1, c, n + 1, p2, q2)
  <2>1. ASSUME NEW k \in 1 .. n + 1 PROVE p2[k] \in 1 .. m + 1 /\ q2[k] \in p2[k] .. m + 1
    <3>1. CASE k = n + 1
      BY <1>1, <3>1
    <3>2. CASE k # n + 1
      <4>1. k \in 1 .. n
        BY <3>2
      <4>2. p[k] \in 1 .. m /\ q[k] \in p[k] .. m
        BY <1>2, <4>1
      <4> QED
        BY <1>1, <4>1, <4>2
    <3> QED
      BY <3>1, <3>2
  <2>2. ASSUME NEW k \in 1 .. (n + 1) - 1 PROVE q2[k] + 1 < p2[k + 1]
    <3>1. k \in 1 .. n
      OBVIOUS
    <3>2. CASE k = n
      <4>1. t[m] = c /\ flag /\ n > 0
        BY <3>1, <3>2 DEF Copied
      <4>2. q[n] # m
        <5>1. q[n] \in p[n] .. q[n]
          BY <1>2, <3>1, <3>2
        <5>2. t[q[n]] # c
          BY <3>1, <3>2, <5>1 DEF Copied, Parts
        <5> QED
          BY <4>1, <5>2
      <4>3. q[n] < m /\ q[n] \in Nat
        BY <1>2, <3>1, <3>2, <4>2
      <4> QED
        BY <1>1, <3>1, <3>2, <4>3
    <3>3. CASE k # n
      <4>1. k \in 1 .. n - 1 /\ k + 1 \in 1 .. n
        BY <3>3
      <4> QED
        BY <1>1, <3>1, <4>1 DEF Copied, Parts
    <3> QED
      BY <3>2, <3>3
  <2>3. ASSUME NEW k \in 1 .. n + 1, NEW j \in p2[k] .. q2[k] PROVE t[j] # c
    <3>1. CASE k = n + 1
      BY <1>1, <3>1
    <3>2. CASE k # n + 1
      <4>1. k \in 1 .. n /\ j \in p[k] .. q[k]
        BY <1>1, <3>2
      <4> QED
        BY <4>1 DEF Copied, Parts
    <3> QED
      BY <3>1, <3>2
  <2>4. ASSUME NEW j \in 1 .. m + 1, t[j] # c PROVE \E k \in 1 .. n + 1 : j \in p2[k] .. q2[k]
    <3>1. CASE j = m + 1
      <4>1. j \in p2[n + 1] .. q2[n + 1] /\ n + 1 \in 1 .. n + 1
        BY <1>1, <3>1
      <4> QED
        BY <4>1
    <3>2. CASE j # m + 1
      <4>0. j \in 1 .. m
        BY <3>2
      <4>1. PICK k \in 1 .. n : j \in p[k] .. q[k]
        BY <2>4, <4>0 DEF Copied, Parts
      <4>2. j \in p2[k] .. q2[k] /\ k \in 1 .. n + 1
        BY <1>1, <4>1
      <4> QED
        BY <4>2
    <3> QED
      BY <3>1, <3>2
  <2> QED
    BY <2>1, <2>2, <2>3, <2>4 DEF Parts
<1>5. Tight(o2, c, n + 1, a2, b2)
  <2>1. ASSUME NEW k \in 1 .. n + 1 PROVE a2[k] \in 1 .. Len(o2) /\ b2[k] \in a2[k] .. Len(o2)
    <3>1. CASE k = n + 1
      BY <1>1, <1>3, <3>1
    <3>2. CASE k # n + 1
      <4>1. k \in 1 .. n
        BY <3>2
      <4>2. a[k] \in 1 .. Len(o) /\ b[k] \in a[k] .. Len(o)
        BY <1>2, <4>1
      <4> QED
        BY <1>1, <1>3, <4>1, <4>2
    <3> QED
      BY <3>1, <3>2
  <2>2. ASSUME NEW k \in 1 .. (n + 1) - 1 PROVE a2[k + 1] = b2[k] + 2 /\ o2[b2[k] + 1] = c
    <3>1. k \in 1 .. n
      OBVIOUS
    <3>2. CASE k = n
      <4>1. b[n] = Len(o) - 1 /\ o[Len(o)] = c
        BY <3>1, <3>2 DEF Copied
      <4>2. b[n] \in Nat /\ Len(o) \in 1 .. Len(o)
        BY <1>2, <1>3, <3>1, <3>2, <4>1
      <4>3. o2[Len(o)] = c
        BY <4>1, <4>2 DEF Longer
      <4>4. b2[k] + 1 = Len(o) /\ a2[k + 1] = Len(o) + 1
        BY <1>1, <1>3, <3>1, <3>2, <4>1
      <4> QED
        BY <1>3, <3>2, <4>2, <4>3, <4>4, <1>1, <3>1, <4>1
    <3>3. CASE k # n
      <4>1. k \in 1 .. n - 1 /\ k + 1 \in 1 .. n
        BY <3>3
      <4>2. a[k + 1] = b[k] + 2 /\ o[b[k] + 1] = c
        BY <4>1 DEF Copied, Tight
      <4>3. a[k + 1] \in 1 .. Len(o) /\ b[k] \in Nat
        BY <1>2, <3>1, <4>1
      <4>4. b[k] + 1 \in 1 .. Len(o)
        BY <1>3, <4>2, <4>3
      <4> QED
        BY <1>1, <3>1, <4>1, <4>2, <4>4 DEF Longer
    <3> QED
      BY <3>2, <3>3
  <2>3. ASSUME NEW k \in 1 .. n + 1, NEW j \in a2[k] .. b2[k] PROVE o2[j] # c
    <3>1. CASE k = n + 1
      <4>1. j = Len(o) + 1
        BY <1>1, <1>3, <3>1
      <4> QED
        BY <4>1 DEF Longer
    <3>2. CASE k # n + 1
      <4>1. k \in 1 .. n /\ j \in a[k] .. b[k]
        BY <1>1, <3>2
      <4>2. o[j] # c
        BY <4>1 DEF Copied, Tight
      <4>3. j \in 1 .. Len(o)
        BY <1>2, <1>3, <4>1
      <4> QED
        BY <4>2, <4>3 DEF Longer
    <3> QED
      BY <3>1, <3>2
  <2>4. a2[1] = 1
    <3>1. CASE n = 0
      BY <1>1, <3>1 DEF Copied
    <3>2. CASE n > 0
      BY <1>1, <3>2 DEF Copied, Tight
    <3> QED
      BY <3>1, <3>2
  <2> QED
    BY <2>1, <2>2, <2>3, <2>4 DEF Tight
<1>6. Matched(t, p2, q2, o2, a2, b2, n + 1)
  <2> SUFFICES ASSUME NEW k \in 1 .. n + 1
               PROVE  /\ q2[k] - p2[k] = b2[k] - a2[k]
                      /\ \A e \in 0 .. b2[k] - a2[k] : o2[a2[k] + e] = t[p2[k] + e]
    BY DEF Matched
  <2>1. CASE k = n + 1
    <3>1. q2[k] - p2[k] = 0 /\ b2[k] - a2[k] = 0
      BY <1>1, <1>3, <2>1
    <3>2. o2[a2[k] + 0] = t[p2[k] + 0]
      BY <1>1, <1>3, <2>1 DEF Longer
    <3> QED
      BY <3>1, <3>2
  <2>2. CASE k # n + 1
    <3>1. k \in 1 .. n
      BY <2>2
    <3>2. q[k] - p[k] = b[k] - a[k] /\ \A e \in 0 .. b[k] - a[k] : o[a[k] + e] = t[p[k] + e]
      BY <3>1 DEF Copied, Matched
    <3>3. ASSUME NEW e \in 0 .. b[k] - a[k] PROVE o2[a[k] + e] = o[a[k] + e]
      <4>1. a[k] + e \in 1 .. Len(o)
        BY <1>2, <1>3, <3>1
      <4> QED
        BY <4>1 DEF Longer
    <3> QED
      BY <1>1, <3>1, <3>2, <3>3
  <2> QED
    BY <2>1, <2>2
<1>7. b2[n + 1] = Len(o2) /\ q2[n + 1] = m + 1
  BY <1>1, <1>3
<1>8. Copied(t, m + 1, c, o2, FALSE, n + 1, p2, q2, a2, b2)
  <2>1. n + 1 # 0
    OBVIOUS
  <2> QED
    BY <1>4, <1>5, <1>6, <1>7, <2>1 DEF Copied
<1> QED
  BY <1>8

\* s is t without its first d characters, which are separators.
Dropped(s, t, c, d) ==
  /\ Len(s) = Len(t) - d
  /\ \A i \in 1 .. Len(t) - d : s[i] = t[d + i]
  /\ \A j \in 1 .. d : t[j] = c
  /\ d < Len(t) => t[d + 1] # c

\* FormatByChar passes over the separators that a line begins with.
LEMMA SkippedParts ==
  ASSUME NEW S, NEW t \in Seq(S), NEW c
  PROVE  /\ Skipped(t, c) \in Seq(S)
         /\ \E d \in 0 .. Len(t) : Dropped(Skipped(t, c), t, c, d)
<1> DEFINE First(i) == (i > Len(t) \/ t[i] # c) /\ \A j \in 1 .. i - 1 : t[j] = c
           first == CHOOSE i \in 1 .. Len(t) + 1 : First(i)
           T == {i \in 1 .. Len(t) + 1 : i > Len(t) \/ t[i] # c}
<1>1. Len(t) \in Nat
  BY LenProperties
<1>2. \E i \in 1 .. Len(t) + 1 : First(i)
  <2>1. T \subseteq Nat /\ Len(t) + 1 \in T
    BY <1>1
  <2>2. PICK i \in T : \A y \in T : i <= y
    <3> HIDE DEF T
    <3> QED
      BY <2>1, LeastElement
  <2>3. ASSUME NEW j \in 1 .. i - 1 PROVE t[j] = c
    <3>1. j \in 1 .. Len(t) + 1 /\ ~ (i <= j) /\ j <= Len(t)
      BY <1>1, <2>2
    <3> QED
      BY <2>2, <3>1
  <2> QED
    BY <2>2, <2>3
<1>3. first \in 1 .. Len(t) + 1 /\ First(first)
  <2> HIDE DEF First
  <2> QED
    BY <1>2
<1>4. Skipped(t, c) = SubSeq(t, first, Len(t))
  BY DEF Skipped
<1> HIDE DEF first
<1>5. \A i \in first .. Len(t) : t[i] \in S
  <2> SUFFICES ASSUME NEW i \in first .. Len(t) PROVE t[i] \in S
    OBVIOUS
  <2>1. i \in 1 .. Len(t)
    BY <1>1, <1>3
  <2> QED
    BY <2>1, ElementOfSeq
<1>6. /\ SubSeq(t, first, Len(t)) \in Seq(S)
      /\ Len(SubSeq(t, first, Len(t))) = IF first <= Len(t) THEN Len(t) - first + 1 ELSE 0
      /\ \A i \in 1 .. Len(t) - first + 1 : SubSeq(t, first, Len(t))[i] = t[first + i - 1]
  <2>1. first \in Int /\ Len(t) \in Int
    BY <1>1, <1>3
  <2> QED
    BY <1>5, <2>1, SubSeqProperties
<1> DEFINE d == first - 1
<1>7. d \in 0 .. Len(t) /\ first = d + 1
  BY <1>1, <1>3
<1>8. Len(Skipped(t, c)) = Len(t) - d
  BY <1>1, <1>3, <1>4, <1>6
<1>9. \A i \in 1 .. Len(t) - d : Skipped(t, c)[i] = t[d + i]
  <2> SUFFICES ASSUME NEW i \in 1 .. Len(t) - d PROVE Skipped(t, c)[i] = t[d + i]
    OBVIOUS
  <2>1. i \in 1 .. Len(t) - first + 1 /\ first + i - 1 = d + i
    BY <1>1, <1>3
  <2> QED
    BY <1>4, <1>6, <2>1
<1>10. (\A j \in 1 .. d : t[j] = c) /\ (d < Len(t) => t[d + 1] # c)
  BY <1>1, <1>3
<1>11. Dropped(Skipped(t, c), t, c, d)
  BY <1>8, <1>9, <1>10 DEF Dropped
<1> QED
  BY <1>4, <1>6, <1>7, <1>11

\* The recursion of Squeezed is defined for a rest of any length.
SqueezeUpTo(g, s, c, n) ==
  g = [i \in 0 .. n |->
        IF i = 0 THEN [out |-> <<>>, flag |-> FALSE] ELSE Copy(g[i - 1], s[i], c)]

LEMMA SqueezeExists ==
  ASSUME NEW s, NEW c, NEW m \in Nat
  PROVE  \E g : SqueezeUpTo(g, s, c, m)
<1> DEFINE Rest(r, k) == Copy(r, s[k], c)
           start == [out |-> <<>>, flag |-> FALSE]
           Fold(g, n) == g = [k \in 0 .. n |-> IF k = 0 THEN start ELSE Rest(g[k - 1], k)]
           P == {n \in Nat : \E g : Fold(g, n)}
<1> HIDE DEF Rest, start
<1>1. 0 \in P
  <2>1. Fold([k \in 0 .. 0 |-> start], 0)
    OBVIOUS
  <2> QED
    BY <2>1
<1>2. ASSUME NEW n \in P PROVE n + 1 \in P
  <2>1. PICK g : Fold(g, n)
    OBVIOUS
  <2> DEFINE h == [k \in 0 .. n + 1 |-> IF k = n + 1 THEN Rest(g[n], n + 1) ELSE g[k]]
  <2>2. \A k \in 0 .. n + 1 : h[k] = IF k = 0 THEN start ELSE Rest(h[k - 1], k)
    <3> SUFFICES ASSUME NEW k \in 0 .. n + 1 PROVE h[k] = IF k = 0 THEN start ELSE Rest(h[k - 1], k)
      OBVIOUS
    <3>1. CASE k = n + 1
      BY <3>1
    <3>2. CASE k # n + 1
      BY <2>1, <3>2
    <3> QED
      BY <3>1, <3>2
  <2>3. h = [k \in 0 .. n + 1 |-> IF k = 0 THEN start ELSE Rest(h[k - 1], k)]
    BY <2>2
  <2> HIDE DEF h
  <2>4. \E g2 : Fold(g2, n + 1)
    BY <2>3
  <2>5. n + 1 \in Nat
    OBVIOUS
  <2> HIDE DEF Fold
  <2> QED
    BY <2>4, <2>5
<1> HIDE DEF P
<1>3. m \in P
  BY <1>1, <1>2, Induction
<1> QED
  BY <1>3 DEF P, Rest, start, SqueezeUpTo

\* FormatByChar before it looks at the end, for a whole line.
LEMMA SqueezedParts ==
  ASSUME NEW S, NEW t \in Seq(S), NEW c
  PROVE  /\ Squeezed(t, c).out \in Seq(S)
         /\ Squeezed(t, c).flag \in BOOLEAN
         /\ \E n \in Nat : \E p, q, a, b :
              Copied(t, Len(t), c, Squeezed(t, c).out, Squeezed(t, c).flag, n, p, q, a, b)
<1> DEFINE s == Skipped(t, c)
           f == CHOOSE g : SqueezeUpTo(g, s, c, Len(s))
<1>1. s \in Seq(S)
  BY SkippedParts
<1>2. PICK d \in 0 .. Len(t) : Dropped(s, t, c, d)
  BY SkippedParts
<1> HIDE DEF s
<1>3. Len(t) \in Nat /\ Len(s) \in Nat /\ d \in Nat /\ Len(t) = d + Len(s)
  BY <1>2, <1>1, LenProperties DEF Dropped
<1>4. SqueezeUpTo(f, s, c, Len(s))
  BY <1>3, SqueezeExists
<1>5. Squeezed(t, c) = f[Len(s)]
  BY Zenon DEF Squeezed, SqueezeUpTo, s
<1> HIDE DEF f
<1>6. f[0] = [out |-> <<>>, flag |-> FALSE]
  BY <1>3, <1>4 DEF SqueezeUpTo
<1>7. ASSUME NEW k \in 0 .. Len(s) - 1
      PROVE  f[k + 1] = Copy(f[k], t[d + k + 1], c) /\ t[d + k + 1] \in S
  <2>1. k + 1 \in 0 .. Len(s) /\ k + 1 # 0 /\ (k + 1) - 1 = k
    BY <1>3
  <2>2. f[k + 1] = Copy(f[k], s[k + 1], c)
    BY <1>4, <2>1 DEF SqueezeUpTo
  <2>3. s[k + 1] = t[d + k + 1] /\ d + k + 1 \in 1 .. Len(t)
    <3>1. k + 1 \in 1 .. Len(s) /\ d + (k + 1) = d + k + 1 /\ d + k + 1 \in 1 .. Len(t)
      BY <1>3
    <3>2. s[k + 1] = t[d + (k + 1)]
      BY <1>2, <3>1 DEF Dropped
    <3> QED
      BY <3>1, <3>2
  <2> QED
    BY <2>2, <2>3, ElementOfSeq
<1> DEFINE Good(k) ==
      \E o \in Seq(S), flag \in BOOLEAN :
        /\ f[k] = [out |-> o, flag |-> flag]
        /\ \E n \in Nat : (n = 0 => k = 0) /\ \E p, q, a, b : Copied(t, d + k, c, o, flag, n, p, q, a, b)
    P == {k \in Nat : k <= Len(s) => Good(k)}
<1>8. ASSUME NEW k, NEW o \in Seq(S), NEW flag \in BOOLEAN, f[k] = [out |-> o, flag |-> flag],
             NEW n \in Nat, n = 0 => k = 0, \E p, q, a, b : Copied(t, d + k, c, o, flag, n, p, q, a, b)
      PROVE  Good(k)
  BY <1>8
<1>9. Good(0)
  <2>1. <<>> \in Seq(S) /\ Len(<<>>) = 0
    BY EmptySeq
  <2>2. Copied(t, d + 0, c, <<>>, FALSE, 0, <<>>, <<>>, <<>>, <<>>)
    BY <1>2, <1>3, <2>1 DEF Dropped, Copied, Parts, Tight, Matched
  <2> QED
    BY <1>6, <2>1, <2>2
<1>10. ASSUME NEW k \in 0 .. Len(s) - 1, Good(k) PROVE Good(k + 1)
  <2>1. PICK o \in Seq(S), flag \in BOOLEAN :
          /\ f[k] = [out |-> o, flag |-> flag]
          /\ \E n \in Nat : (n = 0 => k = 0) /\ \E p, q, a, b : Copied(t, d + k, c, o, flag, n, p, q, a, b)
    BY <1>10
  <2>2. PICK n \in Nat : (n = 0 => k = 0) /\ \E p, q, a, b : Copied(t, d + k, c, o, flag, n, p, q, a, b)
    BY <2>1
  <2>3. PICK p, q, a, b : Copied(t, d + k, c, o, flag, n, p, q, a, b)
    BY <2>2
  <2> DEFINE m == d + k
             x == t[m + 1]
             o2 == Append(o, x)
  <2>4. m \in Nat /\ m + 1 = d + (k + 1) /\ k \in Nat /\ k + 1 # 0
    BY <1>3
  <2> HIDE DEF Good
  <2>5. f[k + 1] = Copy([out |-> o, flag |-> flag], x, c) /\ x \in S
    BY <1>7, <2>1, <2>4
  <2> HIDE DEF m, x
  <2>6. o2 \in Seq(S) /\ Longer(o2, o, x)
    <3>1. Len(o) \in Nat
      BY LenProperties
    <3> QED
      BY <2>5, <3>1, AppendProperties DEF Longer
  <2> HIDE DEF o2
  <2>7. Copied(t, m, c, o, flag, n, p, q, a, b)
    BY <2>3 DEF m
  <2>8. CASE x = c /\ flag
    <3>1. n > 0
      BY <2>7, <2>8 DEF Copied
    <3>2. Copied(t, m + 1, c, o, TRUE, n, p, q, a, b)
      BY <2>4, <2>7, <2>8, <3>1, CopyNothing DEF x
    <3>3. f[k + 1] = [out |-> o, flag |-> TRUE]
      BY <2>5, <2>8 DEF Copy
    <3>4. \E p2, q2, a2, b2 : Copied(t, d + (k + 1), c, o, TRUE, n, p2, q2, a2, b2)
      BY <2>4, <3>2
    <3>5. n # 0
      BY <3>1
    <3> QED
      BY <1>8, <2>4, <3>3, <3>4, <3>5
  <2>9. CASE x = c /\ ~ flag
    <3>1. n > 0
      <4>1. SUFFICES ASSUME n = 0 PROVE FALSE
        OBVIOUS
      <4>2. k = 0 /\ d < Len(t)
        BY <1>3, <2>2, <4>1
      <4>3. x = t[d + 1]
        BY <4>2, <1>3 DEF x, m
      <4> QED
        BY <1>2, <2>9, <4>2, <4>3 DEF Dropped
    <3>2. Copied(t, m + 1, c, o2, TRUE, n, p, q, a, b)
      BY <2>4, <2>6, <2>7, <2>9, <3>1, CopySeparator DEF x
    <3>3. f[k + 1] = [out |-> o2, flag |-> TRUE]
      BY <2>5, <2>9 DEF Copy, o2
    <3>4. \E p2, q2, a2, b2 : Copied(t, d + (k + 1), c, o2, TRUE, n, p2, q2, a2, b2)
      BY <2>4, <3>2
    <3>5. n # 0
      BY <3>1
    <3> QED
      BY <1>8, <2>4, <2>6, <3>3, <3>4, <3>5
  <2>10. CASE x # c /\ n > 0 /\ ~ flag
    <3>1. \E q2, b2 : Copied(t, m + 1, c, o2, FALSE, n, p, q2, a, b2)
      BY <2>4, <2>6, <2>7, <2>10, CopyWithin DEF x
    <3>2. f[k + 1] = [out |-> o2, flag |-> FALSE]
      BY <2>5, <2>10 DEF Copy, o2
    <3>3. \E p2, q2, a2, b2 : Copied(t, d + (k + 1), c, o2, FALSE, n, p2, q2, a2, b2)
      BY <2>4, <3>1
    <3>5. n # 0
      BY <2>10
    <3> QED
      BY <1>8, <2>4, <2>6, <3>2, <3>3, <3>5
  <2>11. CASE x # c /\ (n = 0 \/ flag)
    <3>1. \E p2, q2, a2, b2 : Copied(t, m + 1, c, o2, FALSE, n + 1, p2, q2, a2, b2)
      BY <2>4, <2>6, <2>7, <2>11, CopyFirst DEF x
    <3>2. f[k + 1] = [out |-> o2, flag |-> FALSE]
      BY <2>5, <2>11 DEF Copy, o2
    <3>3. n + 1 \in Nat /\ n + 1 # 0
      OBVIOUS
    <3>4. \E p2, q2, a2, b2 : Copied(t, d + (k + 1), c, o2, FALSE, n + 1, p2, q2, a2, b2)
      BY <2>4, <3>1
    <3> QED
      BY <1>8, <2>6, <3>2, <3>3, <3>4
  <2>12. n = 0 \/ n > 0
    OBVIOUS
  <2> QED
    BY <2>8, <2>9, <2>10, <2>11, <2>12
<1>11. Good(Len(s))
  <2>1. 0 \in P
    BY <1>9
  <2> HIDE DEF Good
  <2>2. ASSUME NEW k \in P \cap Nat PROVE k + 1 \in P
    <3> SUFFICES ASSUME k + 1 <= Len(s) PROVE Good(k + 1)
      OBVIOUS
    <3>1. k \in 0 .. Len(s) - 1 /\ k <= Len(s)
      BY <1>3
    <3>2. Good(k)
      BY <2>2, <3>1
    <3> QED
      BY <1>10, <3>1, <3>2
  <2>3. Len(s) \in P
    <3> HIDE DEF P
    <3> QED
      BY <1>3, <2>1, <2>2, Induction
  <2> QED
    BY <1>3, <2>3
<1>12. PICK o \in Seq(S), flag \in BOOLEAN :
        /\ f[Len(s)] = [out |-> o, flag |-> flag]
        /\ \E n \in Nat : \E p, q, a, b : Copied(t, d + Len(s), c, o, flag, n, p, q, a, b)
  BY <1>11
<1>13. Squeezed(t, c).out = o /\ Squeezed(t, c).flag = flag
  BY <1>5, <1>12
<1> QED
  BY <1>3, <1>12, <1>13

\* FormatByChar leaves the words of a line, with one separator between them.
LEMMA FormatParts ==
  ASSUME NEW S, NEW t \in Seq(S), NEW c
  PROVE  /\ Formatted(t, c) \in Seq(S)
         /\ \E n \in Nat : \E p, q, a, b :
              /\ Parts(t, Len(t), c, n, p, q)
              /\ Tight(Formatted(t, c), c, n, a, b)
              /\ Matched(t, p, q, Formatted(t, c), a, b, n)
              /\ n = 0 => Formatted(t, c) = <<>>
              /\ n > 0 => b[n] = Len(Formatted(t, c))
<1> DEFINE o == Squeezed(t, c).out
           flag == Squeezed(t, c).flag
           F == Formatted(t, c)
<1>1. o \in Seq(S) /\ flag \in BOOLEAN
  BY SqueezedParts
<1>2. PICK n \in Nat : \E p, q, a, b : Copied(t, Len(t), c, o, flag, n, p, q, a, b)
  BY SqueezedParts
<1>3. PICK p, q, a, b : Copied(t, Len(t), c, o, flag, n, p, q, a, b)
  BY <1>2
<1>4. F = IF flag THEN SubSeq(o, 1, Len(o) - 1) ELSE o
  BY DEF Formatted
<1> HIDE DEF o, flag, F
<1>5. Len(o) \in Nat
  BY <1>1, LenProperties
<1>6. CASE ~ flag
  <2>1. n = 0 => o = <<>>
    BY <1>1, <1>3, EmptySeq DEF Copied
  <2> QED
    BY <1>1, <1>3, <1>4, <1>6, <2>1 DEF Copied, F
<1>7. CASE flag
  <2>1. n > 0 /\ b[n] = Len(o) - 1
    BY <1>3, <1>7 DEF Copied
  <2>2. ASSUME NEW k \in 1 .. n
        PROVE  a[k] \in 1 .. Len(o) /\ b[k] \in a[k] .. Len(o) - 1 /\ a[k] \in Nat /\ b[k] \in Nat
    <3>1. a[k] \in 1 .. Len(o) /\ b[k] \in a[k] .. Len(o)
      BY <1>3 DEF Copied, Tight
    <3>2. b[k] # Len(o)
      <4>1. o[b[k]] # c
        <5>1. b[k] \in a[k] .. b[k]
          BY <3>1
        <5> QED
          BY <1>3, <5>1 DEF Copied, Tight
      <4>2. o[Len(o)] = c
        BY <1>3, <1>7, <2>1 DEF Copied
      <4> QED
        BY <4>1, <4>2
    <3> QED
      BY <1>5, <3>1, <3>2
  <2>3. n \in 1 .. n
    BY <2>1
  <2>4. Len(o) - 1 \in Nat /\ Len(o) - 1 > 0
    BY <1>5, <2>1, <2>2, <2>3
  <2>5. /\ F \in Seq(S) /\ Len(F) = Len(o) - 1
        /\ \A i \in 1 .. Len(o) - 1 : F[i] = o[i]
    <3>1. \A i \in 1 .. Len(o) - 1 : o[i] \in S
      BY <1>1, <1>5, ElementOfSeq
    <3>2. 1 \in Int /\ Len(o) - 1 \in Int /\ F = SubSeq(o, 1, Len(o) - 1)
      BY <1>4, <1>5, <1>7
    <3>3. /\ F \in Seq(S)
          /\ Len(F) = IF 1 <= Len(o) - 1 THEN Len(o) - 1 - 1 + 1 ELSE 0
          /\ \A i \in 1 .. Len(o) - 1 - 1 + 1 : F[i] = o[1 + i - 1]
      BY <3>1, <3>2, SubSeqProperties
    <3> QED
      BY <1>5, <2>4, <3>3
  <2>6. Tight(F, c, n, a, b)
    <3>1. \A k \in 1 .. n : a[k] \in 1 .. Len(F) /\ b[k] \in a[k] .. Len(F)
      BY <1>5, <2>2, <2>5
    <3>2. a[1] = 1
      BY <1>3, <2>1 DEF Copied, Tight
    <3>3. ASSUME NEW k \in 1 .. n - 1 PROVE a[k + 1] = b[k] + 2 /\ F[b[k] + 1] = c
      <4>1. a[k + 1] = b[k] + 2 /\ o[b[k] + 1] = c /\ k \in 1 .. n /\ k + 1 \in 1 .. n
        BY <1>3 DEF Copied, Tight
      <4>2. a[k + 1] \in 1 .. Len(F) /\ b[k] \in Nat
        BY <2>2, <3>1, <4>1
      <4>3. b[k] + 1 \in 1 .. Len(o) - 1
        BY <2>4, <2>5, <4>1, <4>2
      <4> QED
        BY <2>5, <4>1, <4>3
    <3>4. ASSUME NEW k \in 1 .. n, NEW j \in a[k] .. b[k] PROVE F[j] # c
      <4>1. o[j] # c
        BY <1>3 DEF Copied, Tight
      <4>2. j \in 1 .. Len(o) - 1
        BY <1>5, <2>2
      <4> QED
        BY <2>5, <4>1, <4>2
    <3> QED
      BY <3>1, <3>2, <3>3, <3>4 DEF Tight
  <2>7. Matched(t, p, q, F, a, b, n)
    <3> SUFFICES ASSUME NEW k \in 1 .. n, NEW e \in 0 .. b[k] - a[k]
                 PROVE  F[a[k] + e] = o[a[k] + e]
      BY <1>3 DEF Copied, Matched
    <3>1. a[k] + e \in 1 .. Len(o) - 1
      BY <1>5, <2>2
    <3> QED
      BY <2>5, <3>1
  <2> QED
    BY <1>3, <2>1, <2>5, <2>6, <2>7 DEF Copied, F
<1> QED
  BY <1>6, <1>7

\* m words of the buffer have ended before its first i characters do, and not all.
Pending(F, buf, c, n, a, b, m, i) ==
  /\ Longer(buf, F, c)
  /\ n \in Nat /\ Tight(F, c, n, a, b) /\ b[n] = Len(F)
  /\ m \in 0 .. n - 1 /\ i \in 0 .. Len(F)
  /\ m > 0 => b[m] + 1 <= i
  /\ i <= b[m + 1]

\* The next character is a separator just if word m + 1 ends there.
EndsNext(buf, c, n, a, b, m, i) ==
  /\ buf[i + 1] = c <=> i = b[m + 1]
  /\ a[m + 1] = IF m = 0 THEN 1 ELSE b[m] + 2
  /\ i = b[m + 1] => m + 1 = n \/ i + 1 <= b[m + 2]

\* What ends a word in the buffer is its separator; there are no others.
LEMMA SeparatorAt ==
  ASSUME NEW F, NEW buf, NEW c, NEW n, NEW a, NEW b, NEW m, NEW i,
         Pending(F, buf, c, n, a, b, m, i)
  PROVE  EndsNext(buf, c, n, a, b, m, i)
<1>1. /\ Len(F) \in Nat /\ Longer(buf, F, c)
      /\ n \in Nat /\ n > 0 /\ Tight(F, c, n, a, b) /\ b[n] = Len(F)
      /\ m \in 0 .. n - 1 /\ i \in 0 .. Len(F)
      /\ m > 0 => b[m] + 1 <= i
      /\ i <= b[m + 1]
  BY DEF Pending, Longer
<1>2. m + 1 \in 1 .. n
  BY <1>1
<1>3. ASSUME NEW k \in 1 .. n PROVE a[k] \in 1 .. Len(F) /\ b[k] \in a[k] .. Len(F) /\ a[k] \in Nat /\ b[k] \in Nat
  BY <1>1 DEF Tight
<1>4. a[m + 1] = IF m = 0 THEN 1 ELSE b[m] + 2
  <2>1. CASE m = 0
    BY <1>1, <2>1 DEF Tight
  <2>2. CASE m # 0
    <3>1. m \in 1 .. n - 1
      BY <1>1, <2>2
    <3> QED
      BY <1>1, <2>2, <3>1 DEF Tight
  <2> QED
    BY <1>1, <2>1, <2>2
<1>5. CASE i = b[m + 1]
  <2>1. CASE m + 1 = n
    <3>1. buf[i + 1] = c
      BY <1>1, <1>5, <2>1 DEF Longer
    <3> QED
      BY <1>1, <1>4, <1>5, <2>1, <3>1 DEF EndsNext
  <2>2. CASE m + 1 # n
    <3>1. m + 1 \in 1 .. n - 1 /\ m + 2 = (m + 1) + 1 /\ m + 2 \in 1 .. n
      BY <1>1, <2>2
    <3>2. a[m + 2] = b[m + 1] + 2 /\ F[b[m + 1] + 1] = c
      BY <1>1, <3>1 DEF Tight
    <3>3. a[m + 2] \in Nat /\ b[m + 2] \in a[m + 2] .. Len(F)
      BY <1>1, <1>3, <3>1
    <3>4. i + 1 \in 1 .. Len(F) /\ i + 1 <= b[m + 2]
      BY <1>1, <1>5, <3>2, <3>3
    <3>5. buf[i + 1] = c
      BY <1>1, <1>5, <3>2, <3>4 DEF Longer
    <3> QED
      BY <1>1, <1>4, <1>5, <3>4, <3>5 DEF EndsNext
  <2> QED
    BY <1>1, <2>1, <2>2
<1>6. CASE i # b[m + 1]
  <2>1. b[m + 1] \in Nat /\ b[m + 1] <= Len(F) /\ i < b[m + 1]
    <3>1. i <= b[m + 1]
      BY <1>1, <1>2
    <3> QED
      BY <1>1, <1>2, <1>3, <1>6, <3>1
  <2>2. i + 1 \in a[m + 1] .. b[m + 1]
    <3>1. CASE m = 0
      BY <1>1, <1>4, <2>1, <3>1
    <3>2. CASE m # 0
      <4>1. b[m] + 1 <= i /\ b[m] \in Nat
        BY <1>1, <1>3, <3>2
      <4> QED
        BY <1>1, <1>4, <2>1, <3>2, <4>1
    <3> QED
      BY <1>1, <3>1, <3>2
  <2>3. F[i + 1] # c
    BY <1>1, <1>2, <2>2 DEF Tight
  <2>4. i + 1 \in 1 .. Len(F)
    BY <1>1, <2>1
  <2>5. buf[i + 1] # c
    BY <1>1, <2>3, <2>4 DEF Longer
  <2> QED
    BY <1>1, <1>4, <1>6, <2>5 DEF EndsNext
<1> QED
  BY <1>1, <1>5, <1>6

\* The recursion of DivideByChar is defined for a buffer of any length.
DivideUpTo(g, buf, c, row, col, n) ==
  g = [i \in 0 .. n |->
        IF i = 0 THEN [argv |-> <<>>, j |-> 1] ELSE Divide(g[i - 1], i, buf, c, row, col)]

LEMMA DivideExists ==
  ASSUME NEW buf, NEW c, NEW row, NEW col, NEW m \in Nat
  PROVE  \E g : DivideUpTo(g, buf, c, row, col, m)
<1> DEFINE Rest(r, k) == Divide(r, k, buf, c, row, col)
           start == [argv |-> <<>>, j |-> 1]
           Fold(g, n) == g = [k \in 0 .. n |-> IF k = 0 THEN start ELSE Rest(g[k - 1], k)]
           P == {n \in Nat : \E g : Fold(g, n)}
<1> HIDE DEF Rest, start
<1>1. 0 \in P
  <2>1. Fold([k \in 0 .. 0 |-> start], 0)
    OBVIOUS
  <2> QED
    BY <2>1
<1>2. ASSUME NEW n \in P PROVE n + 1 \in P
  <2>1. PICK g : Fold(g, n)
    OBVIOUS
  <2> DEFINE h == [k \in 0 .. n + 1 |-> IF k = n + 1 THEN Rest(g[n], n + 1) ELSE g[k]]
  <2>2. \A k \in 0 .. n + 1 : h[k] = IF k = 0 THEN start ELSE Rest(h[k - 1], k)
    <3> SUFFICES ASSUME NEW k \in 0 .. n + 1 PROVE h[k] = IF k = 0 THEN start ELSE Rest(h[k - 1], k)
      OBVIOUS
    <3>1. CASE k = n + 1
      BY <3>1
    <3>2. CASE k # n + 1
      BY <2>1, <3>2
    <3> QED
      BY <3>1, <3>2
  <2>3. h = [k \in 0 .. n + 1 |-> IF k = 0 THEN start ELSE Rest(h[k - 1], k)]
    BY <2>2
  <2> HIDE DEF h
  <2>4. \E g2 : Fold(g2, n + 1)
    BY <2>3
  <2>5. n + 1 \in Nat
    OBVIOUS
  <2> HIDE DEF Fold
  <2> QED
    BY <2>4, <2>5
<1> HIDE DEF P
<1>3. m \in P
  BY <1>1, <1>2, Induction
<1> QED
  BY <1>3 DEF P, Rest, start, DivideUpTo

\* v has the words of the buffer, as many as there are rows, and F the separators
\* between them.
TakenFrom(F, buf, c, row, col, n, a, b, v) ==
  /\ Len(v) = IF n < row THEN n ELSE row
  /\ \A k \in 1 .. n : k <= row => v[k] = CutTo(SubSeq(buf, a[k], b[k]), col)
  /\ CharCount(F, c) = n - 1

\* DivideByChar takes the words of the buffer, as many as it has rows for, and in
\* the buffer is a separator for each word.
LEMMA DividedParts ==
  ASSUME NEW S, NEW F \in Seq(S), NEW c \in S, NEW row \in Nat, NEW col,
         NEW n \in Nat, n > 0, NEW a, NEW b, Tight(F, c, n, a, b), b[n] = Len(F),
         NEW buf, buf = Append(F, c), NEW f, DivideUpTo(f, buf, c, row, col, Len(buf))
  PROVE  TakenFrom(F, buf, c, row, col, n, a, b, f[Len(buf)].argv)
<1> DEFINE Word(k) == CutTo(SubSeq(buf, a[k], b[k]), col)
           W == {Word(k) : k \in 1 .. n}
           Min(k) == IF k < row THEN k ELSE row
           Ends(i) == {h \in 1 .. i : buf[h] = c}
           \* v and j once m words have ended
           Taken(v, j, m) ==
             /\ Len(v) = Min(m)
             /\ \A k \in 1 .. Min(m) : v[k] = Word(k)
             /\ m < row => j = IF m = 0 THEN 1 ELSE b[m] + 2
           Between(i, m) ==
             /\ m > 0 => b[m] + 1 <= i
             /\ m < n => i <= b[m + 1]
             /\ IsFiniteSet(Ends(i)) /\ Cardinality(Ends(i)) = m
           Good(i) ==
             \E m \in 0 .. n : Between(i, m) /\
               \E v \in Seq(W) : \E j : f[i] = [argv |-> v, j |-> j] /\ Taken(v, j, m)
<1>1. /\ Len(F) \in Nat /\ Len(buf) = Len(F) + 1 /\ Longer(buf, F, c)
  BY LenProperties, AppendProperties DEF Longer
<1>2. ASSUME NEW k \in 1 .. n PROVE a[k] \in 1 .. Len(F) /\ b[k] \in a[k] .. Len(F) /\ a[k] \in Nat /\ b[k] \in Nat
  <2>1. a[k] \in 1 .. Len(F) /\ b[k] \in a[k] .. Len(F)
    BY DEF Tight
  <2> QED
    BY <1>1, <2>1
<1>3. f[0] = [argv |-> <<>>, j |-> 1]
  BY <1>1 DEF DivideUpTo
<1>4. ASSUME NEW i \in 0 .. Len(F) PROVE f[i + 1] = Divide(f[i], i + 1, buf, c, row, col)
  <2>1. i + 1 \in 0 .. Len(buf) /\ i + 1 # 0 /\ (i + 1) - 1 = i
    BY <1>1
  <2> QED
    BY <2>1 DEF DivideUpTo
<1> HIDE DEF Word, W, Taken, Ends
<1>5. ASSUME NEW i, NEW m \in 0 .. n, Between(i, m), NEW v \in Seq(W), NEW j,
              f[i] = [argv |-> v, j |-> j], Taken(v, j, m)
       PROVE  Good(i)
  <2> HIDE DEF Between
  <2> QED
    BY <1>5
<1>6. Good(0)
  <2>1. Ends(0) = {}
    BY DEF Ends
  <2>2. Between(0, 0)
    <3>1. 1 \in 1 .. n
      OBVIOUS
    <3>2. 0 <= b[1]
      BY <1>2, <3>1
    <3> QED
      <4>1. 0 + 1 = 1
        OBVIOUS
      <4>2. 0 > 0 => b[0] + 1 <= 0
        OBVIOUS
      <4>3. 0 < n => 0 <= b[0 + 1]
        BY <3>2, <4>1
      <4>4. IsFiniteSet(Ends(0)) /\ Cardinality(Ends(0)) = 0
        BY <2>1, FS_EmptySet
      <4> QED
        BY <4>2, <4>3, <4>4
  <2>3. <<>> \in Seq(W) /\ Len(<<>>) = 0
    BY EmptySeq
  <2>4. Taken(<<>>, 1, 0)
    BY <2>3 DEF Taken
  <2>5. 0 \in 0 .. n
    OBVIOUS
  <2> HIDE DEF Between, Good
  <2> QED
    BY <1>3, <1>5, <2>2, <2>3, <2>4, <2>5
<1>7. ASSUME NEW i \in 0 .. Len(F), NEW m \in 0 .. n, Between(i, m)
      PROVE  /\ m < n
             /\ buf[i + 1] = c <=> i = b[m + 1]
             /\ a[m + 1] = IF m = 0 THEN 1 ELSE b[m] + 2
             /\ i = b[m + 1] => m + 1 = n \/ i + 1 <= b[m + 2]
             /\ b[m + 1] \in Nat
  <2>1. m # n
    BY <1>1, <1>7
  <2>2. m \in 0 .. n - 1 /\ m + 1 \in 1 .. n /\ i <= b[m + 1]
    BY <1>7, <2>1
  <2>3. m > 0 => b[m] + 1 <= i
    BY <1>7
  <2>4. EndsNext(buf, c, n, a, b, m, i)
    <3>1. Pending(F, buf, c, n, a, b, m, i)
      BY <1>1, <2>2, <2>3 DEF Pending
    <3> QED
      BY <3>1, SeparatorAt
  <2> QED
    BY <1>2, <2>2, <2>4 DEF EndsNext
<1>8. ASSUME NEW i \in 0 .. Len(F), Good(i) PROVE Good(i + 1)
  <2>1. PICK m \in 0 .. n : Between(i, m) /\
          \E v \in Seq(W) : \E j : f[i] = [argv |-> v, j |-> j] /\ Taken(v, j, m)
    BY <1>8
  <2>2. PICK v \in Seq(W) : \E j : f[i] = [argv |-> v, j |-> j] /\ Taken(v, j, m)
    BY <2>1
  <2>3. PICK j : f[i] = [argv |-> v, j |-> j] /\ Taken(v, j, m)
    BY <2>2
  <2>4. f[i + 1] = Divide([argv |-> v, j |-> j], i + 1, buf, c, row, col)
    BY <1>4, <2>3
  <2>5. /\ m < n /\ m + 1 \in 1 .. n
        /\ buf[i + 1] = c <=> i = b[m + 1]
        /\ a[m + 1] = IF m = 0 THEN 1 ELSE b[m] + 2
        /\ i = b[m + 1] => m + 1 = n \/ i + 1 <= b[m + 2]
        /\ b[m + 1] \in Nat
    <3>1. Between(i, m)
      BY <2>1
    <3> HIDE DEF Between
    <3> QED
      BY <1>7, <3>1
  <2>6. Len(v) = Min(m)
    BY <2>3 DEF Taken
  <2>7. CASE i = b[m + 1]
    <3>1. Between(i + 1, m + 1)
      <4>1. Ends(i + 1) = Ends(i) \cup {i + 1} /\ i + 1 \notin Ends(i)
        <5>1. i + 1 \in Nat /\ i \in Nat /\ buf[i + 1] = c
          BY <2>5, <2>7
        <5> QED
          BY <5>1 DEF Ends
      <4>2. IsFiniteSet(Ends(i)) /\ Cardinality(Ends(i)) = m
        BY <2>1
      <4>3. IsFiniteSet(Ends(i + 1)) /\ Cardinality(Ends(i + 1)) = m + 1
        <5>1. IsFiniteSet(Ends(i) \cup {i + 1}) /\ Cardinality(Ends(i) \cup {i + 1}) = m + 1
          BY <4>1, <4>2, FS_AddElement
        <5> QED
          BY <4>1, <5>1
      <4>4. m + 1 < n => i + 1 <= b[(m + 1) + 1]
        <5>1. (m + 1) + 1 = m + 2
          OBVIOUS
        <5> QED
          BY <2>5, <2>7, <5>1
      <4>5. b[m + 1] + 1 <= i + 1
        BY <2>5, <2>7
      <4> QED
        BY <4>3, <4>4, <4>5
    <3>2. CASE m < row
      <4>1. Len(v) < row /\ j = a[m + 1]
        BY <2>3, <2>5, <2>6, <3>2 DEF Taken
      <4>2. f[i + 1] = [argv |-> Append(v, Word(m + 1)), j |-> (i + 1) + 1]
        <5>1. (i + 1) - 1 = b[m + 1]
          BY <2>7
        <5> QED
          BY <2>4, <2>5, <2>7, <4>1, <5>1 DEF Divide, Word
      <4>3. /\ Append(v, Word(m + 1)) \in Seq(W) /\ Len(Append(v, Word(m + 1))) = m + 1
            /\ Append(v, Word(m + 1))[m + 1] = Word(m + 1)
            /\ \A k \in 1 .. m : Append(v, Word(m + 1))[k] = v[k]
        <5>1. Word(m + 1) \in W
          BY <2>5 DEF W
        <5>2. Len(v) = m
          BY <2>6, <3>2
        <5> QED
          BY <5>1, <5>2, AppendProperties
      <4>4. Taken(Append(v, Word(m + 1)), (i + 1) + 1, m + 1)
        <5>1. Min(m + 1) = m + 1 /\ Min(m) = m /\ m + 1 # 0
          BY <3>2
        <5>2. \A k \in 1 .. m + 1 : Append(v, Word(m + 1))[k] = Word(k)
          BY <2>3, <4>3, <5>1 DEF Taken
        <5>3. (i + 1) + 1 = b[m + 1] + 2
          BY <2>7
        <5> QED
          BY <4>3, <5>1, <5>2, <5>3 DEF Taken
      <4>5. m + 1 \in 0 .. n
        BY <2>5
      <4> HIDE DEF Between, Good
      <4> QED
        BY <1>5, <3>1, <4>2, <4>3, <4>4, <4>5
    <3>3. CASE ~ (m < row)
      <4>1. f[i + 1] = [argv |-> v, j |-> j]
        BY <2>4, <2>6, <3>3 DEF Divide
      <4>2. Taken(v, j, m + 1)
        <5>1. Min(m + 1) = row /\ Min(m) = row /\ ~ (m + 1 < row)
          BY <3>3
        <5> QED
          BY <2>3, <5>1 DEF Taken
      <4>3. m + 1 \in 0 .. n
        BY <2>5
      <4> HIDE DEF Between, Good
      <4> QED
        BY <1>5, <3>1, <4>1, <4>2, <4>3
    <3> QED
      BY <3>2, <3>3
  <2>8. CASE i # b[m + 1]
    <3>1. Between(i + 1, m)
      <4>1. Ends(i + 1) = Ends(i)
        <5>1. i + 1 \in Nat /\ i \in Nat /\ buf[i + 1] # c
          BY <2>5, <2>8
        <5> QED
          BY <5>1 DEF Ends
      <4>2. i + 1 <= b[m + 1]
        BY <2>1, <2>5, <2>8
      <4>3. m > 0 => b[m] + 1 <= i + 1
        <5>1. m > 0 => b[m] \in Nat /\ b[m] + 1 <= i
          BY <1>2, <2>1
        <5> QED
          BY <5>1
      <4>4. IsFiniteSet(Ends(i)) /\ Cardinality(Ends(i)) = m
        BY <2>1
      <4> QED
        BY <4>1, <4>2, <4>3, <4>4
    <3>2. f[i + 1] = [argv |-> v, j |-> j]
      BY <2>4, <2>5, <2>8 DEF Divide
    <3> HIDE DEF Between, Good
    <3> QED
      BY <1>5, <2>3, <3>1, <3>2
  <2> QED
    BY <2>7, <2>8
<1>9. \A i \in 0 .. Len(F) + 1 : Good(i)
  <2> DEFINE P == {i \in Nat : i <= Len(F) + 1 => Good(i)}
  <2>1. 0 \in P
    BY <1>6
  <2> HIDE DEF Good
  <2>2. ASSUME NEW i \in P \cap Nat PROVE i + 1 \in P
    <3> SUFFICES ASSUME i + 1 <= Len(F) + 1 PROVE Good(i + 1)
      OBVIOUS
    <3>1. i \in 0 .. Len(F) /\ i <= Len(F) + 1
      BY <1>1
    <3> QED
      BY <1>8, <2>2, <3>1
  <2> HIDE DEF P
  <2>3. Nat \subseteq P
    BY <2>1, <2>2, Induction
  <2> QED
    BY <1>1, <2>3 DEF P
<1>10. CharCount(F, c) = n - 1
  <2>1. PICK m \in 0 .. n : Between(Len(F), m)
    <3>1. Good(Len(F))
      <4> HIDE DEF Good
      <4> QED
        BY <1>1, <1>9
    <3> QED
      BY <3>1
  <2>2. m < n /\ b[m + 1] \in Nat /\ (Len(F) = b[m + 1] => m + 1 = n \/ Len(F) + 1 <= b[m + 2])
    <3>1. Len(F) \in 0 .. Len(F)
      BY <1>1
    <3> HIDE DEF Between
    <3> QED
      BY <1>7, <2>1, <3>1
  <2>3. Len(F) = b[m + 1]
    <3>1. b[m + 1] <= Len(F)
      BY <1>1, <1>2, <2>2
    <3>2. Len(F) <= b[m + 1]
      BY <2>1, <2>2
    <3> QED
      BY <1>1, <2>2, <3>1, <3>2
  <2>4. m + 1 = n
    <3> SUFFICES ASSUME m + 1 # n PROVE FALSE
      OBVIOUS
    <3>1. m + 2 \in 1 .. n
      BY <2>2
    <3>2. b[m + 2] \in Nat /\ b[m + 2] <= Len(F)
      BY <1>1, <1>2, <3>1
    <3> QED
      BY <1>1, <2>2, <2>3, <3>2
  <2>5. {h \in DOMAIN F : F[h] = c} = Ends(Len(F))
    BY <1>1, LenProperties DEF Longer, Ends
  <2>6. Cardinality(Ends(Len(F))) = n - 1
    BY <2>1, <2>4
  <2> QED
    BY <2>5, <2>6 DEF CharCount
<1>11. PICK m \in 0 .. n : Between(Len(buf), m) /\
         \E v \in Seq(W) : \E j : f[Len(buf)] = [argv |-> v, j |-> j] /\ Taken(v, j, m)
  <2>1. Good(Len(buf))
    <3> HIDE DEF Good
    <3> QED
      BY <1>1, <1>9
  <2> QED
    BY <2>1
<1>12. m = n
  <2> SUFFICES ASSUME m # n PROVE FALSE
    OBVIOUS
  <2>1. m + 1 \in 1 .. n /\ Len(F) + 1 <= b[m + 1]
    BY <1>1, <1>11
  <2> QED
    BY <1>1, <1>2, <2>1
<1>13. PICK v \in Seq(W) : \E j : f[Len(buf)] = [argv |-> v, j |-> j] /\ Taken(v, j, n)
  BY <1>11, <1>12
<1>14. f[Len(buf)].argv = v /\ Len(v) = Min(n) /\ \A k \in 1 .. Min(n) : v[k] = Word(k)
  BY <1>13 DEF Taken
<1> QED
  BY <1>10, <1>14 DEF Word, TakenFrom

\* The words of the line come in their order.
LEMMA PartsInOrder ==
  ASSUME NEW t, NEW m \in Nat, NEW c, NEW n \in Nat, NEW p, NEW q, Parts(t, m, c, n, p, q)
  PROVE  \A j, k \in 1 .. n : j < k => q[j] + 1 < p[k]
<1>1. ASSUME NEW k \in 1 .. n PROVE p[k] \in 1 .. m /\ q[k] \in p[k] .. m /\ p[k] \in Nat /\ q[k] \in Nat
  <2>1. p[k] \in 1 .. m /\ q[k] \in p[k] .. m
    BY DEF Parts
  <2> QED
    BY <2>1
<1> DEFINE Good(k) == k \in 1 .. n => \A j \in 1 .. n : j < k => q[j] + 1 < p[k]
           P == {k \in Nat : Good(k)}
<1>2. 0 \in P
  OBVIOUS
<1>3. ASSUME NEW k \in P \cap Nat PROVE k + 1 \in P
  <2> SUFFICES ASSUME k + 1 \in 1 .. n, NEW j \in 1 .. n, j < k + 1 PROVE q[j] + 1 < p[k + 1]
    OBVIOUS
  <2>1. k \in 1 .. n - 1 /\ k \in 1 .. n
    OBVIOUS
  <2>2. q[k] + 1 < p[k + 1]
    BY <2>1 DEF Parts
  <2>3. CASE j = k
    BY <2>2, <2>3
  <2>4. CASE j # k
    <3>1. q[j] + 1 < p[k]
      BY <2>1, <2>4
    <3>2. p[k] \in Nat /\ q[k] \in p[k] .. m /\ q[j] \in Nat /\ p[k + 1] \in Nat /\ q[k] \in Nat
      BY <1>1, <2>1
    <3> QED
      BY <2>2, <3>1, <3>2
  <2> QED
    BY <2>3, <2>4
<1> HIDE DEF P
<1>4. Nat \subseteq P
  BY <1>2, <1>3, Induction
<1> QED
  BY <1>4 DEF P

\* The places of the first k words.
FirstWords(p, q, k) == {<<p[j], q[j]>> : j \in 1 .. k}

LEMMA PartsCount ==
  ASSUME NEW t, NEW m \in Nat, NEW c, NEW n \in Nat, NEW p, NEW q, Parts(t, m, c, n, p, q),
         NEW k \in 0 .. n
  PROVE  Cardinality(FirstWords(p, q, k)) = k
<1> DEFINE D == 1 .. k
           T == {<<p[j], q[j]>> : j \in D}
           g == [j \in D |-> <<p[j], q[j]>>]
<1>1. IsFiniteSet(D) /\ Cardinality(D) = k
  BY FS_Interval
<1>2. g \in Surjection(D, T)
  <2>1. g \in [D -> T]
    OBVIOUS
  <2>2. \A w \in T : \E j \in D : g[j] = w
    OBVIOUS
  <2> QED
    BY <2>1, <2>2 DEF Surjection
<1>3. g \in Injection(D, T)
  <2>1. ASSUME NEW i \in D, NEW j \in D, g[i] = g[j] PROVE i = j
    <3>1. p[i] = p[j]
      BY <2>1
    <3>2. i \in 1 .. n /\ j \in 1 .. n
      OBVIOUS
    <3>3. ASSUME NEW x \in 1 .. n, NEW y \in 1 .. n, x < y PROVE p[x] # p[y]
      <4>1. q[x] + 1 < p[y]
        BY <3>3, PartsInOrder
      <4>2. p[x] \in 1 .. m /\ q[x] \in p[x] .. m
        BY DEF Parts
      <4> QED
        BY <4>1, <4>2
    <3>4. ~ (i < j) /\ ~ (j < i)
      BY <3>1, <3>2, <3>3
    <3> QED
      BY <3>2, <3>4
  <2>2. g \in [D -> T]
    OBVIOUS
  <2> HIDE DEF D, T, g
  <2> QED
    BY <2>1, <2>2 DEF Injection, IsInjective
<1> HIDE DEF D, T, g
<1>4. IsFiniteSet(T) /\ Cardinality(T) = Cardinality(D)
  BY <1>1, <1>2, <1>3, FS_Surjection
<1> QED
  BY <1>1, <1>4 DEF D, T, FirstWords

\* The words of a line are the parts that were numbered, in their order.
LEMMA WordsAreParts ==
  ASSUME NEW S, NEW t \in Seq(S), NEW c, NEW n \in Nat, NEW p, NEW q, Parts(t, Len(t), c, n, p, q)
  PROVE  /\ Words(t, c) = FirstWords(p, q, n)
         /\ Cardinality(Words(t, c)) = n
         /\ \A k \in 1 .. n : Number(Words(t, c), <<p[k], q[k]>>) = k
<1> DEFINE W == FirstWords(p, q, n)
<1>1. Len(t) \in Nat /\ DOMAIN t = 1 .. Len(t)
  BY LenProperties
<1>2. ASSUME NEW k \in 1 .. n
      PROVE  /\ p[k] \in 1 .. Len(t) /\ q[k] \in p[k] .. Len(t) /\ q[k] \in 1 .. Len(t)
             /\ p[k] \in Nat /\ q[k] \in Nat
  <2>1. p[k] \in 1 .. Len(t) /\ q[k] \in p[k] .. Len(t)
    BY DEF Parts
  <2> QED
    BY <1>1, <2>1
<1>3. \A j, k \in 1 .. n : j < k => q[j] + 1 < p[k]
  BY <1>1, PartsInOrder
\* Around a word are separators.
<1>4. ASSUME NEW k \in 1 .. n, NEW i \in 1 .. Len(t), i = p[k] - 1 \/ i = q[k] + 1 PROVE t[i] = c
  <2> SUFFICES ASSUME t[i] # c PROVE FALSE
    OBVIOUS
  <2>1. PICK j \in 1 .. n : i \in p[j] .. q[j]
    BY DEF Parts
  <2>2. j # k
    BY <1>2, <1>4, <2>1
  <2>3. CASE j < k
    <3>1. q[j] + 1 < p[k]
      BY <1>3, <2>3
    <3> QED
      BY <1>2, <1>4, <2>1, <3>1
  <2>4. CASE k < j
    <3>1. q[k] + 1 < p[j]
      BY <1>3, <2>4
    <3> QED
      BY <1>2, <1>4, <2>1, <3>1
  <2> QED
    BY <2>2, <2>3, <2>4
<1>5. ASSUME NEW k \in 1 .. n PROVE <<p[k], q[k]>> \in Words(t, c)
  <2>1. p[k] <= q[k] /\ \A j \in p[k] .. q[k] : t[j] # c
    BY <1>2 DEF Parts
  <2>2. p[k] = 1 \/ t[p[k] - 1] = c
    <3>1. p[k] # 1 => p[k] - 1 \in 1 .. Len(t)
      BY <1>1, <1>2
    <3> QED
      BY <1>4, <3>1
  <2>3. q[k] = Len(t) \/ t[q[k] + 1] = c
    <3>1. q[k] # Len(t) => q[k] + 1 \in 1 .. Len(t)
      BY <1>1, <1>2
    <3> QED
      BY <1>4, <3>1
  <2> QED
    BY <1>1, <1>2, <2>1, <2>2, <2>3 DEF Words
<1>6. ASSUME NEW w \in Words(t, c) PROVE w \in W
  <2>1. /\ w[1] \in 1 .. Len(t) /\ w[2] \in 1 .. Len(t) /\ w = <<w[1], w[2]>> /\ w[1] <= w[2]
        /\ \A j \in w[1] .. w[2] : t[j] # c
        /\ w[1] = 1 \/ t[w[1] - 1] = c
        /\ w[2] = Len(t) \/ t[w[2] + 1] = c
    BY <1>1 DEF Words
  <2> DEFINE x == w[1]
             y == w[2]
  <2>2. /\ x \in 1 .. Len(t) /\ y \in 1 .. Len(t) /\ w = <<x, y>> /\ x <= y
        /\ \A j \in x .. y : t[j] # c
        /\ x = 1 \/ t[x - 1] = c
        /\ y = Len(t) \/ t[y + 1] = c
    BY <2>1
  <2> HIDE DEF x, y
  <2>3. t[x] # c
    BY <2>2
  <2>4. PICK k \in 1 .. n : x \in p[k] .. q[k]
    BY <2>2, <2>3 DEF Parts
  <2> DEFINE u == p[k]
             v == q[k]
  <2>5. u \in Nat /\ v \in Nat /\ u >= 1 /\ v <= Len(t) /\ x \in u .. v
    BY <1>2, <2>4
  <2>6. \A j \in u .. v : t[j] # c
    BY DEF Parts
  <2>7. v + 1 \in 1 .. Len(t) => t[v + 1] = c
    BY <1>4
  <2> HIDE DEF u, v
  <2>8. x = u
    <3> SUFFICES ASSUME x # u PROVE FALSE
      OBVIOUS
    <3>1. x - 1 \in u .. v /\ x # 1
      BY <2>2, <2>5
    <3> QED
      BY <2>2, <2>6, <3>1
  <2>9. x \in Nat /\ y \in Nat /\ Len(t) \in Nat /\ x >= 1 /\ x <= y /\ y <= Len(t)
    <3>1. x \in 1 .. Len(t) /\ y \in 1 .. Len(t) /\ x <= y
      BY <2>2
    <3>2. Len(t) \in Nat
      BY <1>1
    <3> QED
      BY <3>1, <3>2
  <2>10. y = v
    <3>1. CASE y < v
      <4>1. y + 1 \in u .. v /\ y # Len(t)
        BY <2>5, <2>8, <2>9, <3>1
      <4> QED
        BY <2>2, <2>6, <4>1
    <3>2. CASE y > v
      <4>1. v + 1 \in x .. y /\ v + 1 \in 1 .. Len(t)
        BY <2>5, <2>9, <3>2
      <4> QED
        BY <2>2, <2>7, <4>1
    <3> QED
      BY <2>2, <2>5, <3>1, <3>2
  <2> QED
    BY <2>2, <2>8, <2>10 DEF FirstWords, u, v
<1>7. Words(t, c) = W
  <2>1. \A w \in W : w \in Words(t, c)
    BY <1>5 DEF FirstWords
  <2>2. \A w \in Words(t, c) : w \in W
    BY <1>6
  <2> QED
    BY <2>1, <2>2
<1>8. Cardinality(W) = n
  <2>1. n \in 0 .. n
    OBVIOUS
  <2> QED
    BY <1>1, <2>1, PartsCount
<1>9. ASSUME NEW k \in 1 .. n PROVE Number(W, <<p[k], q[k]>>) = k
  <2>1. {v \in W : v[1] <= p[k]} = FirstWords(p, q, k)
    <3>1. ASSUME NEW j \in 1 .. n PROVE p[j] <= p[k] <=> j <= k
      <4>1. CASE j < k
        BY <1>2, <1>3, <4>1
      <4>2. CASE j = k
        BY <1>2, <4>2
      <4>3. CASE k < j
        <5>1. q[k] + 1 < p[j]
          BY <1>3, <4>3
        <5> QED
          BY <1>2, <4>3, <5>1
      <4> QED
        BY <4>1, <4>2, <4>3
    <3>2. ASSUME NEW v \in W, v[1] <= p[k] PROVE v \in FirstWords(p, q, k)
      <4>1. PICK j \in 1 .. n : v = <<p[j], q[j]>>
        BY DEF FirstWords
      <4>2. j \in 1 .. k
        BY <3>1, <3>2, <4>1
      <4> QED
        BY <4>1, <4>2 DEF FirstWords
    <3>3. ASSUME NEW j \in 1 .. k PROVE <<p[j], q[j]>> \in W /\ p[j] <= p[k]
      <4>1. j \in 1 .. n /\ j <= k
        OBVIOUS
      <4> QED
        BY <3>1, <4>1 DEF FirstWords
    <3>4. ASSUME NEW v \in FirstWords(p, q, k) PROVE v \in W /\ v[1] <= p[k]
      <4>1. PICK j \in 1 .. k : v = <<p[j], q[j]>>
        BY DEF FirstWords
      <4> QED
        BY <3>3, <4>1
    <3> QED
      BY <3>2, <3>4
  <2>2. k \in 0 .. n
    OBVIOUS
  <2>3. Cardinality(FirstWords(p, q, k)) = k
    BY <1>1, <2>2, PartsCount
  <2> QED
    BY <2>1, <2>3 DEF Number
<1> QED
  BY <1>7, <1>8, <1>9

\* strncpy copies a word that fits and the beginning of one that does not.
LEMMA CutToIs ==
  ASSUME NEW S, NEW w \in Seq(S), NEW col
  PROVE  CutTo(w, col) = IF Len(w) < col THEN w ELSE SubSeq(w, 1, col - 1)
<1>1. Len(w) \in Nat
  BY LenProperties
<1> DEFINE u == SubSeq(w, 1, Len(w))
<1>2. w = u
  <2>1. \A i \in 1 .. Len(w) : w[i] \in S
    BY ElementOfSeq
  <2>2. /\ u \in Seq(S)
        /\ Len(u) = IF 1 <= Len(w) THEN Len(w) - 1 + 1 ELSE 0
        /\ \A i \in 1 .. Len(w) - 1 + 1 : u[i] = w[1 + i - 1]
    <3>1. 1 \in Int /\ Len(w) \in Int
      BY <1>1
    <3> QED
      BY <2>1, <3>1, SubSeqProperties
  <2> HIDE DEF u
  <2>3. Len(w) = Len(u)
    BY <1>1, <2>2
  <2>4. \A i \in 1 .. Len(w) : w[i] = u[i]
    BY <1>1, <2>2
  <2> QED
    BY <2>2, <2>3, <2>4, SeqEqual
<1>3. CASE Len(w) < col
  BY <1>2, <1>3 DEF CutTo
<1>4. CASE ~ (Len(w) < col)
  BY <1>4 DEF CutTo
<1> QED
  BY <1>3, <1>4

\* A word of the line is the same in the buffer.
LEMMA SameWord ==
  ASSUME NEW S, NEW t \in Seq(S), NEW F \in Seq(S), NEW buf, NEW c, Longer(buf, F, c),
         NEW n \in Nat, NEW p, NEW q, NEW a, NEW b, NEW sep,
         Parts(t, Len(t), sep, n, p, q), Tight(F, sep, n, a, b), Matched(t, p, q, F, a, b, n),
         NEW k \in 1 .. n
  PROVE  SubSeq(buf, a[k], b[k]) = SubSeq(t, p[k], q[k]) /\ SubSeq(t, p[k], q[k]) \in Seq(S)
<1> DEFINE a1 == a[k]
           b1 == b[k]
           p1 == p[k]
           q1 == q[k]
<1>1. Len(t) \in Nat /\ Len(F) \in Nat
  BY LenProperties
<1>2. a1 \in 1 .. Len(F) /\ b1 \in a1 .. Len(F) /\ p1 \in 1 .. Len(t) /\ q1 \in p1 .. Len(t)
  BY DEF Tight, Parts
<1>3. q1 - p1 = b1 - a1 /\ \A e \in 0 .. b1 - a1 : F[a1 + e] = t[p1 + e]
  BY DEF Matched
<1> HIDE DEF a1, b1, p1, q1
<1>4. /\ a1 \in Nat /\ b1 \in Nat /\ p1 \in Nat /\ q1 \in Nat
      /\ 1 <= a1 /\ a1 <= b1 /\ b1 <= Len(F) /\ 1 <= p1 /\ p1 <= q1 /\ q1 <= Len(t)
  BY <1>1, <1>2
<1>5. ASSUME NEW i \in a1 .. b1 PROVE buf[i] = F[i] /\ F[i] \in S
  <2>1. i \in 1 .. Len(F)
    BY <1>1, <1>4
  <2> QED
    BY <2>1, ElementOfSeq DEF Longer
<1>6. ASSUME NEW i \in p1 .. q1 PROVE t[i] \in S
  <2>1. i \in 1 .. Len(t)
    BY <1>1, <1>4
  <2> QED
    BY <2>1, ElementOfSeq
<1> DEFINE u == SubSeq(buf, a1, b1)
           v == SubSeq(t, p1, q1)
<1>7. /\ u \in Seq(S) /\ Len(u) = IF a1 <= b1 THEN b1 - a1 + 1 ELSE 0
      /\ \A i \in 1 .. b1 - a1 + 1 : u[i] = buf[a1 + i - 1]
  <2>1. a1 \in Int /\ b1 \in Int /\ \A i \in a1 .. b1 : buf[i] \in S
    BY <1>4, <1>5
  <2> QED
    BY <2>1, SubSeqProperties
<1>8. /\ v \in Seq(S) /\ Len(v) = IF p1 <= q1 THEN q1 - p1 + 1 ELSE 0
      /\ \A i \in 1 .. q1 - p1 + 1 : v[i] = t[p1 + i - 1]
  <2>1. p1 \in Int /\ q1 \in Int /\ \A i \in p1 .. q1 : t[i] \in S
    BY <1>4, <1>6
  <2> QED
    BY <2>1, SubSeqProperties
<1> HIDE DEF u, v
<1>9. Len(u) = b1 - a1 + 1 /\ Len(v) = b1 - a1 + 1 /\ q1 - p1 + 1 = b1 - a1 + 1
  BY <1>3, <1>4, <1>7, <1>8
<1>10. ASSUME NEW i \in 1 .. b1 - a1 + 1 PROVE u[i] = v[i]
  <2>1. i - 1 \in 0 .. b1 - a1 /\ a1 + i - 1 \in a1 .. b1
    BY <1>4
  <2>2. a1 + i - 1 = a1 + (i - 1) /\ p1 + i - 1 = p1 + (i - 1)
    BY <1>4
  <2>3. F[a1 + (i - 1)] = t[p1 + (i - 1)]
    BY <1>3, <2>1
  <2>4. u[i] = buf[a1 + i - 1]
    BY <1>7
  <2>5. v[i] = t[p1 + i - 1]
    BY <1>8, <1>9
  <2>6. buf[a1 + i - 1] = F[a1 + i - 1]
    BY <1>5, <2>1
  <2> QED
    BY <2>2, <2>3, <2>4, <2>5, <2>6
<1>11. u = v
  BY <1>7, <1>8, <1>9, <1>10, SeqEqual
<1> QED
  BY <1>8, <1>11 DEF u, v, a1, b1, p1, q1

\* What Divided says of a line t with memory for its copy and of its words v.
DividedInto(t, c, row, col, v) ==
  LET words == Words(t, c)
      count == Cardinality(words)
      Word(w) == SubSeq(t, w[1], w[2])
  IN /\ Len(v) = IF count < row THEN count ELSE row
     /\ \A w \in words : Number(words, w) <= row =>
          v[Number(words, w)] =
            IF Len(Word(w)) < col THEN Word(w) ELSE SubSeq(Word(w), 1, col - 1)
     /\ words # {} => count = CharCount(Formatted(t, c), c) + 1

\* What DivideByChar does with a line when malloc succeeds.
LEMMA DividedLine ==
  ASSUME NEW S, NEW t \in Seq(S), NEW c \in S, NEW row \in Nat, NEW col
  PROVE  DividedInto(t, c, row, col, DivideByChar(t, c, row, col, TRUE))
<1> DEFINE F == FormatByChar(t, c, TRUE)
           buf == Append(F, c)
           f == CHOOSE g : DivideUpTo(g, buf, c, row, col, Len(buf))
           A == DivideByChar(t, c, row, col, TRUE)
           W == Words(t, c)
           Word(w) == SubSeq(t, w[1], w[2])
           Cutting(w) == IF Len(Word(w)) < col THEN Word(w) ELSE SubSeq(Word(w), 1, col - 1)
<1>0. F = Formatted(t, c)
  BY DEF FormatByChar
<1>1. F \in Seq(S)
  BY <1>0, FormatParts
<1>2. PICK n \in Nat : \E p, q, a, b :
        /\ Parts(t, Len(t), c, n, p, q) /\ Tight(F, c, n, a, b) /\ Matched(t, p, q, F, a, b, n)
        /\ n = 0 => F = <<>>
        /\ n > 0 => b[n] = Len(F)
  <2>1. \E k \in Nat : \E p, q, a, b :
          LET G == Formatted(t, c) IN
          /\ Parts(t, Len(t), c, k, p, q) /\ Tight(G, c, k, a, b) /\ Matched(t, p, q, G, a, b, k)
          /\ k = 0 => G = <<>>
          /\ k > 0 => b[k] = Len(G)
    BY FormatParts
  <2> HIDE DEF F
  <2> QED
    BY <1>0, <2>1
<1>3. PICK p, q, a, b :
        /\ Parts(t, Len(t), c, n, p, q) /\ Tight(F, c, n, a, b) /\ Matched(t, p, q, F, a, b, n)
        /\ n = 0 => F = <<>>
        /\ n > 0 => b[n] = Len(F)
  BY <1>2
<1>4. A = IF F = <<>> THEN <<>> ELSE f[Len(buf)].argv
  BY Zenon DEF DivideByChar, DivideUpTo
<1> HIDE DEF F, f, A, W
<1>5. Len(F) \in Nat /\ buf \in Seq(S) /\ Len(buf) = Len(F) + 1 /\ Longer(buf, F, c)
  BY <1>1, LenProperties, AppendProperties DEF Longer
<1> HIDE DEF buf
<1>6. DivideUpTo(f, buf, c, row, col, Len(buf))
  <2>1. \E g : DivideUpTo(g, buf, c, row, col, Len(buf))
    <3>1. Len(buf) \in Nat
      BY <1>5
    <3> QED
      BY <3>1, DivideExists
  <2> QED
    BY <2>1 DEF f
<1>7. /\ W = FirstWords(p, q, n) /\ Cardinality(W) = n
      /\ \A k \in 1 .. n : Number(W, <<p[k], q[k]>>) = k
  BY <1>3, WordsAreParts DEF W
<1>8. ASSUME n > 0 PROVE F # <<>> /\ TakenFrom(F, buf, c, row, col, n, a, b, A)
  <2>1. F # <<>>
    <3>1. n \in 1 .. n
      BY <1>8
    <3>2. a[n] \in 1 .. Len(F)
      BY <1>3, <3>1 DEF Tight
    <3> QED
      BY <1>5, <3>2, EmptySeq
  <2>2. Tight(F, c, n, a, b) /\ b[n] = Len(F)
    BY <1>3, <1>8
  <2>3. buf = Append(F, c)
    BY DEF buf
  <2>4. A = f[Len(buf)].argv
    BY <1>4, <2>1
  <2>5. TakenFrom(F, buf, c, row, col, n, a, b, f[Len(buf)].argv)
    BY <1>1, <1>6, <1>8, <2>2, <2>3, DividedParts
  <2> QED
    BY <2>1, <2>4, <2>5
<1>9. Len(A) = IF n < row THEN n ELSE row
  <2>1. CASE n = 0
    BY <1>3, <1>4, <2>1, EmptySeq
  <2>2. CASE n > 0
    BY <1>8, <2>2 DEF TakenFrom
  <2> QED
    BY <2>1, <2>2
<1>10. ASSUME NEW k \in 1 .. n, k <= row PROVE A[k] = Cutting(<<p[k], q[k]>>)
  <2>1. SubSeq(buf, a[k], b[k]) = SubSeq(t, p[k], q[k]) /\ SubSeq(t, p[k], q[k]) \in Seq(S)
    <3>1. Longer(buf, F, c)
      BY <1>5
    <3>2. Parts(t, Len(t), c, n, p, q) /\ Tight(F, c, n, a, b) /\ Matched(t, p, q, F, a, b, n)
      BY <1>3
    <3> QED
      BY <1>1, <3>1, <3>2, SameWord
  <2>2. Word(<<p[k], q[k]>>) = SubSeq(t, p[k], q[k])
    OBVIOUS
  <2>3. A[k] = CutTo(SubSeq(buf, a[k], b[k]), col)
    BY <1>10, <1>8 DEF TakenFrom
  <2> HIDE DEF Word
  <2> QED
    BY <2>1, <2>2, <2>3, CutToIs
<1>11. ASSUME W # {} PROVE Cardinality(W) = CharCount(F, c) + 1
  <2>1. n > 0
    BY <1>7, <1>11 DEF FirstWords
  <2>2. CharCount(F, c) = n - 1
    BY <1>8, <2>1 DEF TakenFrom
  <2> QED
    BY <1>7, <2>2
<1>12. ASSUME NEW w \in W, Number(W, w) <= row PROVE A[Number(W, w)] = Cutting(w)
  <2>1. PICK k \in 1 .. n : w = <<p[k], q[k]>>
    BY <1>7 DEF FirstWords
  <2>2. Number(W, w) = k
    BY <1>7, <2>1
  <2> HIDE DEF Cutting
  <2> QED
    BY <1>10, <1>12, <2>1, <2>2
<1> QED
  BY <1>0, <1>7, <1>9, <1>11, <1>12 DEF A, W, DividedInto

\* A line of any length is divided into its words, wherever and however often the
\* separator stands in it: the first Row of them, each cut to its column, and as many
\* as CharCount counts separators in the formatted line, and one more; a line for
\* whose copy there is no memory has none.
THEOREM DividedHolds == Spec => []Divided
<1>1. Init => Divided
  <2> SUFFICES ASSUME Init PROVE Divided
    OBVIOUS
  <2>1. line = <<>> /\ argv = <<>> /\ ~ refused
    BY DEF Init
  <2>2. Words(line, Sep) = {}
    BY <2>1 DEF Words
  <2>3. Cardinality({}) = 0 /\ Len(argv) = 0 /\ Row \in Nat
    BY <2>1, FS_EmptySet, EmptySeq, LineAssumption
  <2> QED
    BY <2>2, <2>3 DEF Divided
<1>2. Divided /\ [Next]_vars => Divided'
  <2> SUFFICES ASSUME Divided, [Next]_vars PROVE Divided'
    OBVIOUS
  <2>1. CASE UNCHANGED lineVars
    BY <2>1 DEF lineVars, Divided
  <2>2. ASSUME NEW l \in Lines, DivideLine(l) PROVE Divided'
    <3> DEFINE S == {l[i] : i \in DOMAIN l} \cup {Sep}
    <3>1. PICK ok \in AllocOutcomes :
            /\ line' = l
            /\ argv' = DivideByChar(l, Sep, Row, Col, ok)
            /\ refused' = (l # <<>> /\ ~ ok)
      BY <2>2 DEF DivideLine
    <3>2. l \in Seq(S)
      <4>1. l \in Seq({l[i] : i \in DOMAIN l})
        BY LineAssumption
      <4> DEFINE T == {l[i] : i \in DOMAIN l}
      <4>2. T \subseteq S
        OBVIOUS
      <4> HIDE DEF T, S
      <4> QED
        BY <4>1, <4>2 DEF T
    <3>3. Sep \in S /\ Row \in Nat
      BY LineAssumption
    <3> HIDE DEF S
    <3>4. DividedInto(l, Sep, Row, Col, DivideByChar(l, Sep, Row, Col, TRUE))
      BY <3>2, <3>3, DividedLine
    <3>5. CharCount(FormatByChar(l, Sep, TRUE), Sep) = CharCount(Formatted(l, Sep), Sep)
      BY DEF FormatByChar
    <3>6. CASE ok
      BY <3>1, <3>4, <3>5, <3>6 DEF Divided, DividedInto
    <3>7. CASE ~ ok
      <4>1. argv' = <<>>
        <5>1. FormatByChar(l, Sep, ok) = <<>>
          BY <3>7 DEF FormatByChar
        <5>2. DivideByChar(l, Sep, Row, Col, ok) = <<>>
          BY <5>1, Zenon DEF DivideByChar
        <5> QED
          BY <3>1, <5>2
      <4>2. CASE l = <<>>
        <5>1. line' = l /\ ~ refused'
          BY <3>1, <4>2
        <5>2. Words(l, Sep) = {}
          BY <4>2 DEF Words
        <5>3. Words(line', Sep) = {}
          BY <5>1, <5>2
        <5>4. Cardinality({}) = 0 /\ Len(argv') = 0 /\ Row \in Nat
          BY <3>3, <4>1, FS_EmptySet, EmptySeq
        <5> QED
          BY <5>1, <5>3, <5>4 DEF Divided
      <4>3. CASE l # <<>>
        <5>1. refused'
          BY <3>1, <3>7, <4>3
        <5> QED
          BY <3>1, <3>4, <3>5, <4>1, <5>1 DEF Divided, DividedInto
      <4> QED
        BY <4>2, <4>3
    <3> QED
      BY <3>6, <3>7, AddrAssumption
  <2> QED
    BY <2>1, <2>2 DEF Next, vars
<1> QED
  BY <1>1, <1>2, PTL DEF Spec
================================================================================
