---------------------------- MODULE SelectEchoProofs ----------------------------
(***************************************************************************)
(* Proofs about SelectEcho.tla, for the three editions, any number of      *)
(* clients, descriptors and words and any size of a Winsock set.           *)
(*                                                                         *)
(* The inductive invariant is made of parts that are preserved one after   *)
(* the other: Typed (types), Lined (a client is in the backlog once and    *)
(* has no descriptor then), Registered (sets and descriptors agree),       *)
(* Scanning (what is still to be scanned is in the set) and Echoing (what  *)
(* was read and not written back is in the buffer).  Telling, which rests  *)
(* on them, says what is lost once a write has failed.                     *)
(***************************************************************************)
EXTENDS SelectEcho, SequenceTheorems, WellFoundedInduction, TLAPS

--------------------------------------------------------------------------------
(* Induction over the natural numbers, with a set in the place of a predicate. *)

Below == {ss \in Nat \X Nat : ss[1] < ss[2]}

LEMMA BelowWellFounded == IsWellFoundedOn(Below, Nat)
  BY NatLessThanWellFounded DEF OpToRel, Below

\* A set of natural numbers that is not empty has a least element.
LEMMA LeastElement ==
  ASSUME NEW T, T \subseteq Nat, T # {}
  PROVE  \E m \in T : \A y \in T : m <= y
<1>1. PICK m \in T : \A y \in T : ~ (<<y, m>> \in Below)
  BY BelowWellFounded, WFMin
<1>2. ASSUME NEW y \in T PROVE m <= y
  <2>1. y \in Nat /\ m \in Nat
    OBVIOUS
  <2>2. <<y, m>> \in Nat \X Nat => ~ (y < m)
    BY <1>1 DEF Below
  <2> QED
    BY <2>1, <2>2
<1> QED
  BY <1>2

\* What holds of 0, and of n + 1 if of n, holds of every natural number.
LEMMA Induction ==
  ASSUME NEW P, 0 \in P, \A n \in P \cap Nat : n + 1 \in P
  PROVE  Nat \subseteq P
<1> DEFINE Q == {n \in Nat : n \notin P}
<1>1. SUFFICES ASSUME Q # {} PROVE FALSE
  OBVIOUS
<1>2. PICK m \in Q : \A y \in Q : m <= y
  BY <1>1, LeastElement
<1>3. m - 1 \in P \cap Nat
  <2>1. m - 1 \in Nat
    BY <1>2
  <2> QED
    BY <1>2, <2>1
<1>4. (m - 1) + 1 = m
  BY <1>2
<1> QED
  BY <1>2, <1>3, <1>4

--------------------------------------------------------------------------------
(* Sequences as ordered sets. *)

\* The elements of a sequence, by their places.
LEMMA RangeIs ==
  ASSUME NEW S, NEW s \in Seq(S)
  PROVE  /\ \A x : x \in Range(s) <=> \E i \in 1 .. Len(s) : s[i] = x
         /\ IsInjective(s) <=> \A i, j \in 1 .. Len(s) : s[i] = s[j] => i = j
         /\ Range(s) \subseteq S
  BY DEF Range, IsInjective

LEMMA EmptyParts == Range(<<>>) = {} /\ IsInjective(<<>>)
  BY DEF Range, IsInjective

LEMMA OneParts == \A x : Range(<<x>>) = {x} /\ IsInjective(<<x>>)
  BY DEF Range, IsInjective

LEMMA ConcatParts ==
  ASSUME NEW S, NEW s \in Seq(S), NEW t \in Seq(S)
  PROVE  /\ s \o t \in Seq(S)
         /\ Range(s \o t) = Range(s) \cup Range(t)
         /\ IsInjective(s) /\ IsInjective(t) /\ Range(s) \cap Range(t) = {} => IsInjective(s \o t)
<1>1. /\ s \o t \in Seq(S)
      /\ Len(s \o t) = Len(s) + Len(t)
      /\ \A i \in 1 .. Len(s) + Len(t) : (s \o t)[i] = IF i <= Len(s) THEN s[i] ELSE t[i - Len(s)]
  BY ConcatProperties
<1>2. Len(s) \in Nat /\ Len(t) \in Nat
  BY LenProperties
<1>3. ASSUME NEW i \in 1 .. Len(s) PROVE i \in 1 .. Len(s \o t) /\ (s \o t)[i] = s[i]
  BY <1>1, <1>2
<1>4. ASSUME NEW i \in 1 .. Len(t)
      PROVE  i + Len(s) \in 1 .. Len(s \o t) /\ (s \o t)[i + Len(s)] = t[i]
  <2>1. i + Len(s) \in 1 .. Len(s) + Len(t) /\ ~ (i + Len(s) <= Len(s)) /\ (i + Len(s)) - Len(s) = i
    BY <1>2
  <2> QED
    BY <1>1, <2>1
<1>5. ASSUME NEW i \in 1 .. Len(s \o t)
      PROVE  \/ i \in 1 .. Len(s) /\ (s \o t)[i] = s[i]
             \/ i - Len(s) \in 1 .. Len(t) /\ (s \o t)[i] = t[i - Len(s)]
  BY <1>1, <1>2
<1>6. /\ \A x : x \in Range(s) <=> \E i \in 1 .. Len(s) : s[i] = x
      /\ \A x : x \in Range(t) <=> \E i \in 1 .. Len(t) : t[i] = x
      /\ \A x : x \in Range(s \o t) <=> \E i \in 1 .. Len(s \o t) : (s \o t)[i] = x
  BY <1>1, RangeIs
<1>7. /\ IsInjective(s) <=> \A i, j \in 1 .. Len(s) : s[i] = s[j] => i = j
      /\ IsInjective(t) <=> \A i, j \in 1 .. Len(t) : t[i] = t[j] => i = j
      /\ IsInjective(s \o t) <=> \A i, j \in 1 .. Len(s \o t) : (s \o t)[i] = (s \o t)[j] => i = j
  BY <1>1, RangeIs
<1>8. Range(s \o t) = Range(s) \cup Range(t)
  <2>1. ASSUME NEW x \in Range(s \o t) PROVE x \in Range(s) \cup Range(t)
    BY <1>5, <1>6
  <2>2. ASSUME NEW x \in Range(s) \cup Range(t) PROVE x \in Range(s \o t)
    BY <1>3, <1>4, <1>6
  <2> QED
    BY <2>1, <2>2
<1>9. ASSUME IsInjective(s), IsInjective(t), Range(s) \cap Range(t) = {},
             NEW i \in 1 .. Len(s \o t), NEW j \in 1 .. Len(s \o t), (s \o t)[i] = (s \o t)[j]
      PROVE  i = j
  <2>1. CASE i \in 1 .. Len(s) /\ (s \o t)[i] = s[i] /\ j \in 1 .. Len(s) /\ (s \o t)[j] = s[j]
    BY <1>7, <1>9, <2>1
  <2>2. CASE /\ i - Len(s) \in 1 .. Len(t) /\ (s \o t)[i] = t[i - Len(s)]
             /\ j - Len(s) \in 1 .. Len(t) /\ (s \o t)[j] = t[j - Len(s)]
    <3>1. i - Len(s) = j - Len(s)
      BY <1>7, <1>9, <2>2
    <3> QED
      BY <1>1, <1>2, <3>1
  <2>3. CASE i \in 1 .. Len(s) /\ (s \o t)[i] = s[i] /\ j - Len(s) \in 1 .. Len(t) /\ (s \o t)[j] = t[j - Len(s)]
    <3>1. s[i] \in Range(s) /\ t[j - Len(s)] \in Range(t)
      BY <1>6, <2>3
    <3> QED
      BY <1>9, <2>3, <3>1
  <2>4. CASE j \in 1 .. Len(s) /\ (s \o t)[j] = s[j] /\ i - Len(s) \in 1 .. Len(t) /\ (s \o t)[i] = t[i - Len(s)]
    <3>1. s[j] \in Range(s) /\ t[i - Len(s)] \in Range(t)
      BY <1>6, <2>4
    <3> QED
      BY <1>9, <2>4, <3>1
  <2> QED
    BY <1>5, <2>1, <2>2, <2>3, <2>4
<1> QED
  BY <1>1, <1>7, <1>8, <1>9

LEMMA AppendParts ==
  ASSUME NEW S, NEW s \in Seq(S), NEW e \in S
  PROVE  /\ Append(s, e) \in Seq(S)
         /\ Range(Append(s, e)) = Range(s) \cup {e}
         /\ IsInjective(s) /\ e \notin Range(s) => IsInjective(Append(s, e))
<1>1. <<e>> \in Seq(S) /\ Append(s, e) = s \o <<e>>
  BY AppendIsConcat
<1> DEFINE t == <<e>>
<1>2. t \in Seq(S) /\ Append(s, e) = s \o t /\ Range(t) = {e} /\ IsInjective(t)
  BY <1>1, OneParts
<1> HIDE DEF t
<1>3. /\ s \o t \in Seq(S)
      /\ Range(s \o t) = Range(s) \cup Range(t)
      /\ IsInjective(s) /\ Range(s) \cap Range(t) = {} => IsInjective(s \o t)
  BY <1>2, ConcatParts
<1> QED
  BY <1>2, <1>3

\* The rest of a sequence in which nothing is twice has all of it but the first.
LEMMA TailParts ==
  ASSUME NEW S, NEW s \in Seq(S), s # <<>>, IsInjective(s)
  PROVE  /\ Head(s) \in Range(s)
         /\ Tail(s) \in Seq(S)
         /\ Range(Tail(s)) = Range(s) \ {Head(s)}
         /\ IsInjective(Tail(s))
<1>1. /\ Tail(s) \in Seq(S)
      /\ Len(Tail(s)) = Len(s) - 1
      /\ \A i \in 1 .. Len(Tail(s)) : Tail(s)[i] = s[i + 1]
  BY HeadTailProperties
<1>2. Len(s) \in Nat \ {0} /\ Head(s) = s[1]
  BY EmptySeq
<1>3. ASSUME NEW i \in 1 .. Len(Tail(s)) PROVE i + 1 \in 1 .. Len(s) /\ Tail(s)[i] = s[i + 1] /\ s[i + 1] # s[1]
  BY <1>1, <1>2, RangeIs
<1>4. ASSUME NEW i \in 1 .. Len(s), i # 1 PROVE i - 1 \in 1 .. Len(Tail(s)) /\ Tail(s)[i - 1] = s[i]
  BY <1>1, <1>2, <1>4
<1>5. Range(Tail(s)) = Range(s) \ {Head(s)}
  <2>1. \A x : x \in Range(Tail(s)) <=> \E i \in 1 .. Len(Tail(s)) : Tail(s)[i] = x
    BY <1>1, RangeIs
  <2>2. \A x : x \in Range(s) <=> \E i \in 1 .. Len(s) : s[i] = x
    BY RangeIs
  <2>3. ASSUME NEW x \in Range(Tail(s)) PROVE x \in Range(s) /\ x # Head(s)
    BY <1>2, <1>3, <2>1, <2>2
  <2>4. ASSUME NEW x \in Range(s), x # Head(s) PROVE x \in Range(Tail(s))
    BY <1>2, <1>4, <2>1, <2>2, <2>4
  <2> QED
    BY <2>3, <2>4
<1>6. IsInjective(Tail(s))
  <2>1. \A i, j \in 1 .. Len(s) : s[i] = s[j] => i = j
    BY RangeIs
  <2>2. ASSUME NEW i \in 1 .. Len(Tail(s)), NEW j \in 1 .. Len(Tail(s)), Tail(s)[i] = Tail(s)[j]
        PROVE  i = j
    <3>1. i + 1 = j + 1
      BY <1>3, <2>1, <2>2
    <3> QED
      BY <3>1
  <2> QED
    BY <1>1, <2>2, RangeIs
<1> QED
  BY <1>1, <1>2, <1>5, <1>6, RangeIs

\* The recursion of Kept is defined for a sequence of any length.
KeptUpTo(g, s, T, m) ==
  g = [k \in 0 .. m |->
        IF k = 0 THEN <<>> ELSE IF s[k] \in T THEN Append(g[k - 1], s[k]) ELSE g[k - 1]]

LEMMA KeptExists ==
  ASSUME NEW s, NEW T, NEW m \in Nat
  PROVE  \E g : KeptUpTo(g, s, T, m)
<1> DEFINE Rest(t, k) == IF s[k] \in T THEN Append(t, s[k]) ELSE t
           Fold(g, n) == g = [k \in 0 .. n |-> IF k = 0 THEN <<>> ELSE Rest(g[k - 1], k)]
           P == {n \in Nat : \E g : Fold(g, n)}
<1> HIDE DEF Rest
<1>1. 0 \in P
  <2>1. Fold([k \in 0 .. 0 |-> <<>>], 0)
    OBVIOUS
  <2> QED
    BY <2>1
<1>2. ASSUME NEW n \in P PROVE n + 1 \in P
  <2>1. PICK g : Fold(g, n)
    OBVIOUS
  <2> DEFINE h == [k \in 0 .. n + 1 |-> IF k = n + 1 THEN Rest(g[n], n + 1) ELSE g[k]]
  <2>2. \A k \in 0 .. n + 1 : h[k] = IF k = 0 THEN <<>> ELSE Rest(h[k - 1], k)
    <3> SUFFICES ASSUME NEW k \in 0 .. n + 1 PROVE h[k] = IF k = 0 THEN <<>> ELSE Rest(h[k - 1], k)
      OBVIOUS
    <3>1. CASE k = n + 1
      BY <3>1
    <3>2. CASE k # n + 1
      BY <2>1, <3>2
    <3> QED
      BY <3>1, <3>2
  <2>3. h = [k \in 0 .. n + 1 |-> IF k = 0 THEN <<>> ELSE Rest(h[k - 1], k)]
    BY <2>2
  <2> HIDE DEF h
  <2>4. \E g2 : Fold(g2, n + 1)
    BY <2>3
  <2>5. n + 1 \in Nat
    OBVIOUS
  <2> HIDE DEF Fold
  <2> QED
    BY <2>4, <2>5
<1> HIDE DEF P
<1>3. m \in P
  BY <1>1, <1>2, Induction
<1> QED
  BY <1>3 DEF P, Rest, KeptUpTo

\* Kept leaves the elements that are in the set, each as often as it was there.
LEMMA KeptParts ==
  ASSUME NEW S, NEW s \in Seq(S), NEW T
  PROVE  /\ Kept(s, T) \in Seq(S)
         /\ Range(Kept(s, T)) = Range(s) \cap T
         /\ IsInjective(s) => IsInjective(Kept(s, T))
<1>1. Len(s) \in Nat
  BY LenProperties
<1> DEFINE f == CHOOSE g : KeptUpTo(g, s, T, Len(s))
<1>2. \E g : KeptUpTo(g, s, T, Len(s))
  BY <1>1, KeptExists
<1>3. KeptUpTo(f, s, T, Len(s))
  BY <1>2
<1>4. f = [k \in 0 .. Len(s) |->
             IF k = 0 THEN <<>> ELSE IF s[k] \in T THEN Append(f[k - 1], s[k]) ELSE f[k - 1]]
  <2> HIDE DEF f
  <2> QED
    BY <1>3 DEF KeptUpTo
<1>5. Kept(s, T) = f[Len(s)]
  BY Zenon DEF Kept, KeptUpTo
<1> HIDE DEF f
<1>6. f[0] = <<>>
  BY <1>1, <1>4
<1>7. ASSUME NEW k \in 0 .. Len(s) - 1
      PROVE  f[k + 1] = IF s[k + 1] \in T THEN Append(f[k], s[k + 1]) ELSE f[k]
  <2>1. k + 1 \in 0 .. Len(s) /\ k + 1 # 0 /\ (k + 1) - 1 = k
    BY <1>1
  <2> QED
    BY <1>4, <2>1
<1> DEFINE Good(k) ==
      /\ f[k] \in Seq(S)
      /\ \A x : x \in Range(f[k]) <=> x \in T /\ \E j \in 1 .. k : s[j] = x
      /\ IsInjective(s) => IsInjective(f[k])
    P == {k \in Nat : k <= Len(s) => Good(k)}
<1>8. 0 \in P
  <2>1. f[0] \in Seq(S) /\ Range(f[0]) = {} /\ IsInjective(f[0])
    BY <1>6, EmptyParts, EmptySeq
  <2>2. \A x : ~ (\E j \in 1 .. 0 : s[j] = x)
    OBVIOUS
  <2>3. Good(0)
    BY <2>1, <2>2
  <2> QED
    BY <2>3
<1>9. ASSUME NEW k \in P \cap Nat PROVE k + 1 \in P
  <2> SUFFICES ASSUME k + 1 <= Len(s) PROVE Good(k + 1)
    BY <1>9
  <2>1. Good(k) /\ k \in 0 .. Len(s) - 1
    BY <1>1
  <2>2. s[k + 1] \in S
    BY <1>1, <2>1, ElementOfSeq
  <2>3. \A x : (\E j \in 1 .. k + 1 : s[j] = x) <=> (x = s[k + 1] \/ \E j \in 1 .. k : s[j] = x)
    OBVIOUS
  <2>4. CASE s[k + 1] \in T
    <3>1. f[k + 1] = Append(f[k], s[k + 1])
      BY <1>7, <2>1, <2>4
    <3>2. ASSUME IsInjective(s) PROVE s[k + 1] \notin Range(f[k])
      <4>1. \A j \in 1 .. k : s[j] # s[k + 1]
        BY <1>1, <2>1, <3>2, RangeIs
      <4> QED
        BY <2>1, <4>1
    <3>3. /\ f[k + 1] \in Seq(S)
          /\ Range(f[k + 1]) = Range(f[k]) \cup {s[k + 1]}
          /\ IsInjective(s) => IsInjective(f[k + 1])
      BY <2>1, <2>2, <3>1, <3>2, AppendParts
    <3> QED
      BY <2>1, <2>3, <2>4, <3>3
  <2>5. CASE s[k + 1] \notin T
    <3>1. f[k + 1] = f[k]
      BY <1>7, <2>1, <2>5
    <3> QED
      BY <2>1, <2>3, <2>5, <3>1
  <2> QED
    BY <2>4, <2>5
<1> HIDE DEF P
<1>10. Len(s) \in P
  BY <1>1, <1>8, <1>9, Induction
<1>11. Good(Len(s))
  BY <1>1, <1>10 DEF P
<1>12. \A x : x \in Range(s) <=> \E j \in 1 .. Len(s) : s[j] = x
  BY RangeIs
<1> QED
  BY <1>5, <1>11, <1>12

--------------------------------------------------------------------------------
(* The inductive invariant. *)

\* TypeOK, without what Scanning says.
Typed ==
  /\ edition \in Editions
  /\ alive \in BOOLEAN
  /\ peer \in [Peers -> {"new", "open", "fin", "reset", "broken"}]
  /\ sent \in [Peers -> Seq({Quit, Text})]
  /\ rd \in [Peers -> Nat]
  /\ \A p \in Peers : rd[p] <= Len(sent[p])
  /\ echoed \in [Peers -> Seq({Quit, Text})]
  /\ backlog \in Seq(Peers)
  /\ fdt \in [Fds -> Peers \cup {NoPeer}]
  /\ reads \in Seq(Fds \cup {ServerFd})
  /\ unseen \subseteq Fds
  /\ max \in Fds \cup {ServerFd}
  /\ todo \in Seq(Fds \cup {ServerFd})
  /\ cur \in Fds \cup {ServerFd}
  /\ buf \in Seq({Quit, Text})
  /\ pc \in {"select", "scan", "write"}

\* A client is in the backlog once, and has no descriptor before accept().
Lined ==
  /\ IsInjective(backlog)
  /\ \A p \in Range(backlog) : peer[p] # "new"
  /\ \A p \in Peers : peer[p] = "new" \/ p \in Range(backlog) =>
       ~Connected(p) /\ rd[p] = 0 /\ echoed[p] = <<>>

\* What is still to be scanned is in the set, once each, and what is written to is
\* in the set and was scanned; accept() is called while a connection waits.
Scanning ==
  /\ IsInjective(todo)
  /\ Range(todo) \subseteq Range(reads)
  /\ ServerFd \in Range(todo) => backlog # <<>>
  /\ pc = "write" <=> buf # <<>>
  /\ pc = "write" <=> cur # ServerFd
  /\ pc = "write" => cur \in Range(reads) \ Range(todo)
  /\ edition # "winsock" => unseen = {}

\* What was read of a connection that can be written to was echoed, but for what
\* is in the buffer.
Holding(p) == pc = "write" /\ fdt[cur] = p
Echoing ==
  \A p \in Peers :
    /\ Len(echoed[p]) <= Len(sent[p])
    /\ \A i \in 1 .. Len(echoed[p]) : echoed[p][i] = sent[p][i]
    /\ Connected(p) /\ peer[p] \in {"open", "fin"} =>
         rd[p] = Len(echoed[p]) + IF Holding(p) THEN Len(buf) ELSE 0
    /\ Holding(p) =>
         /\ Len(buf) <= rd[p]
         /\ \A i \in 1 .. Len(buf) : buf[i] = sent[p][rd[p] - Len(buf) + i]

EchoInv == Typed /\ Registered /\ Lined /\ Scanning /\ Echoing

LEMMA FdsFacts ==
  ASSUME Typed
  PROVE  /\ Fds \subseteq Nat /\ ServerFd \in Nat /\ ServerFd \notin Fds
         /\ \A fd \in Fds : fd > ServerFd
         /\ edition \in {"linux", "winsock", "serial"}
  BY EchoAssumption DEF Typed, Fds

\* Nothing is in the set twice, nor is a descriptor in it that is free.
LEMMA ReadsFacts ==
  ASSUME Typed, Registered, Scanning
  PROVE  /\ IsInjective(reads)
         /\ \A fd \in Range(reads) : fd = ServerFd \/ (fd \in Fds /\ fdt[fd] \in Peers /\ fd \notin unseen)
         /\ edition = "serial" => \E fd : reads = <<fd>>
<1>1. CASE edition = "serial"
  <2>1. CASE reads = <<ServerFd>>
    BY <1>1, <2>1, OneParts
  <2>2. CASE reads # <<ServerFd>>
    <3>1. PICK fd \in Fds : reads = <<fd>> /\ {f \in Fds : fdt[f] # NoPeer} = {fd}
      BY <1>1, <2>2 DEF Registered
    <3>2. fdt[fd] \in Peers /\ fd \notin unseen
      BY <1>1, <3>1 DEF Typed, Scanning
    <3>3. Range(reads) = {fd} /\ IsInjective(reads)
      BY <3>1, OneParts
    <3> QED
      BY <1>1, <3>1, <3>2, <3>3
  <2> QED
    BY <2>1, <2>2
<1>2. CASE edition # "serial"
  BY <1>2 DEF Registered, Typed
<1> QED
  BY <1>1, <1>2

\* A descriptor that is scanned is that of one client, which waits no longer.
LEMMA ClientOf ==
  ASSUME EchoInv, NEW fd \in Range(reads), fd # ServerFd
  PROVE  /\ fd \in Fds /\ fdt[fd] \in Peers /\ Connected(fdt[fd])
         /\ \A g \in Fds : fdt[g] = fdt[fd] => g = fd
         /\ peer[fdt[fd]] # "new" /\ fdt[fd] \notin Range(backlog)
         /\ peer[fdt[fd]] \in {"open", "fin", "reset", "broken"}
<1>1. fd \in Fds /\ fdt[fd] \in Peers
  BY ReadsFacts DEF EchoInv
<1>2. fdt[fd] # NoPeer
  BY <1>1, EchoAssumption
<1>3. \A g \in Fds : fdt[g] = fdt[fd] => g = fd
  BY <1>1, <1>2 DEF EchoInv, Registered
<1>4. Connected(fdt[fd])
  BY <1>1 DEF Connected
<1>5. peer[fdt[fd]] # "new" /\ fdt[fd] \notin Range(backlog)
  BY <1>1, <1>4 DEF EchoInv, Lined
<1> QED
  BY <1>1, <1>3, <1>4, <1>5 DEF EchoInv, Typed

\* The head of what is to be scanned, and the rest.
LEMMA ScanFacts ==
  ASSUME Typed, Registered, Scanning, NEW fd, ScanAt(fd)
  PROVE  /\ fd \in Range(reads)
         /\ Tail(todo) \in Seq(Fds \cup {ServerFd})
         /\ IsInjective(Tail(todo))
         /\ Range(Tail(todo)) \subseteq Range(reads)
         /\ fd \notin Range(Tail(todo))
         /\ Range(Tail(todo)) \subseteq Range(todo)
         /\ pc = "scan" /\ buf = <<>> /\ cur = ServerFd
<1>1. /\ Head(todo) \in Range(todo)
      /\ Tail(todo) \in Seq(Fds \cup {ServerFd})
      /\ Range(Tail(todo)) = Range(todo) \ {Head(todo)}
      /\ IsInjective(Tail(todo))
  BY TailParts DEF Typed, Scanning, ScanAt
<1> QED
  BY <1>1 DEF Scanning, ScanAt

--------------------------------------------------------------------------------
(* Parts that only some actions touch. *)

LEMMA SameRegistered ==
  ASSUME Registered, UNCHANGED <<edition, fdt, reads, unseen, max>>
  PROVE  Registered'
  BY DEF Registered, Fds

LEMMA SameLined ==
  ASSUME Lined, UNCHANGED <<edition, peer, backlog, fdt, rd, echoed>>
  PROVE  Lined'
  BY DEF Lined, Connected, Fds

LEMMA SameEchoing ==
  ASSUME Echoing, UNCHANGED <<edition, peer, sent, rd, echoed, fdt, cur, buf, pc>>
  PROVE  Echoing'
  BY DEF Echoing, Connected, Holding, Fds

LEMMA SameScanning ==
  ASSUME Scanning, UNCHANGED <<edition, backlog, reads, unseen, max, todo, cur, buf, pc>>
  PROVE  Scanning'
  BY DEF Scanning

LEMMA SameInv ==
  ASSUME EchoInv, UNCHANGED vars
  PROVE  EchoInv'
<1>1. Registered' /\ Lined' /\ Echoing' /\ Scanning'
  BY SameRegistered, SameLined, SameEchoing, SameScanning DEF EchoInv, vars, life, net, sets
<1> QED
  BY <1>1 DEF EchoInv, Typed, vars, life, net, sets, Fds

--------------------------------------------------------------------------------
(* The clients, and the console. *)

LEMMA ConnectInv ==
  ASSUME EchoInv, NEW p \in Peers, Connect(p)
  PROVE  EchoInv'
<1>1. /\ peer[p] = "new"
      /\ peer' = [peer EXCEPT ![p] = "open"]
      /\ backlog' = Append(backlog, p)
      /\ UNCHANGED <<edition, alive, sent, rd, echoed, fdt, sets, todo, cur, buf, pc>>
  BY DEF Connect, life
<1>2. p \notin Range(backlog) /\ ~Connected(p) /\ rd[p] = 0 /\ echoed[p] = <<>>
  BY <1>1 DEF EchoInv, Lined
<1>3. backlog' \in Seq(Peers) /\ Range(backlog') = Range(backlog) \cup {p} /\ IsInjective(backlog')
  BY <1>1, <1>2, AppendParts DEF EchoInv, Typed, Lined
<1>4. Typed'
  BY <1>1, <1>3 DEF EchoInv, Typed, sets, Fds
<1>5. Registered'
  BY <1>1, SameRegistered DEF EchoInv, sets
<1>6. Lined'
  <2>1. \A q \in Peers : peer'[q] = IF q = p THEN "open" ELSE peer[q]
    BY <1>1 DEF EchoInv, Typed
  <2>2. \A q \in Peers : Connected(q)' <=> Connected(q)
    BY <1>1 DEF Connected, Fds
  <2>3. Range(backlog) \subseteq Peers
    BY RangeIs DEF EchoInv, Typed
  <2> QED
    BY <1>1, <1>2, <1>3, <2>1, <2>2, <2>3 DEF EchoInv, Lined
<1>7. Scanning'
  <2>1. backlog' # <<>>
    BY <1>3, EmptyParts
  <2> QED
    BY <1>1, <2>1 DEF EchoInv, Scanning, sets
<1>8. Echoing'
  <2>1. \A q \in Peers : q # p => peer'[q] = peer[q]
    BY <1>1 DEF EchoInv, Typed
  <2>2. \A q \in Peers : (Connected(q)' <=> Connected(q)) /\ (Holding(q)' <=> Holding(q))
    BY <1>1 DEF Connected, Holding, Fds
  <2> QED
    BY <1>1, <1>2, <2>1, <2>2 DEF EchoInv, Echoing
<1> QED
  BY <1>4, <1>5, <1>6, <1>7, <1>8 DEF EchoInv

LEMMA SendInv ==
  ASSUME EchoInv, NEW p \in Peers, NEW word \in {Quit, Text}, Send(p, word)
  PROVE  EchoInv'
<1>1. /\ sent' = [sent EXCEPT ![p] = Append(sent[p], word)]
      /\ UNCHANGED <<edition, alive, peer, rd, echoed, backlog, fdt, sets, todo, cur, buf, pc>>
  BY DEF Send, life
<1>2. /\ sent'[p] = Append(sent[p], word)
      /\ \A q \in Peers : q # p => sent'[q] = sent[q]
  BY <1>1 DEF EchoInv, Typed
<1>3. /\ sent'[p] \in Seq({Quit, Text})
      /\ Len(sent'[p]) = Len(sent[p]) + 1
      /\ \A i \in 1 .. Len(sent[p]) : sent'[p][i] = sent[p][i]
      /\ Len(sent[p]) \in Nat
  BY <1>2, AppendProperties, LenProperties DEF EchoInv, Typed
<1>4. \A q \in Peers : /\ Len(sent[q]) <= Len(sent'[q])
                       /\ Len(sent[q]) \in Nat /\ Len(sent'[q]) \in Nat
                       /\ \A i \in 1 .. Len(sent[q]) : sent'[q][i] = sent[q][i]
  <2> TAKE q \in Peers
  <2>1. CASE q = p
    BY <1>3, <2>1
  <2>2. CASE q # p
    <3>1. sent[q] \in Seq({Quit, Text}) /\ sent'[q] = sent[q]
      BY <1>2, <2>2 DEF EchoInv, Typed
    <3>2. Len(sent[q]) \in Nat
      BY <3>1, LenProperties
    <3> QED
      BY <3>1, <3>2
  <2> QED
    BY <2>1, <2>2
<1>5. Typed'
  BY <1>1, <1>2, <1>3, <1>4 DEF EchoInv, Typed, sets, Fds
<1>6. Registered' /\ Lined' /\ Scanning'
  BY <1>1, SameRegistered, SameLined, SameScanning DEF EchoInv, sets
<1>7. Echoing'
  <2> SUFFICES ASSUME NEW q \in Peers
               PROVE  /\ Len(echoed[q]) <= Len(sent'[q])
                      /\ \A i \in 1 .. Len(echoed[q]) : echoed[q][i] = sent'[q][i]
                      /\ Holding(q) => \A i \in 1 .. Len(buf) : buf[i] = sent'[q][rd[q] - Len(buf) + i]
    <3>1. \A r \in Peers : (Connected(r)' <=> Connected(r)) /\ (Holding(r)' <=> Holding(r))
      BY <1>1 DEF Connected, Holding, Fds
    <3>2. peer' = peer /\ rd' = rd /\ echoed' = echoed /\ buf' = buf
      BY <1>1
    <3>3. \A r \in Peers :
            /\ Connected(r) /\ peer[r] \in {"open", "fin"} =>
                 rd[r] = Len(echoed[r]) + IF Holding(r) THEN Len(buf) ELSE 0
            /\ Holding(r) => Len(buf) <= rd[r]
      BY DEF EchoInv, Echoing
    <3> QED
      BY <3>1, <3>2, <3>3 DEF Echoing
  <2>1. Len(echoed[q]) \in Nat /\ Len(buf) \in Nat /\ rd[q] \in Nat /\ rd[q] <= Len(sent[q])
    BY LenProperties DEF EchoInv, Typed
  <2>2. Len(echoed[q]) <= Len(sent[q]) /\ \A i \in 1 .. Len(echoed[q]) : echoed[q][i] = sent[q][i]
    BY DEF EchoInv, Echoing
  <2>3. ASSUME Holding(q), NEW i \in 1 .. Len(buf)
        PROVE  buf[i] = sent'[q][rd[q] - Len(buf) + i]
    <3>1. Len(buf) <= rd[q] /\ buf[i] = sent[q][rd[q] - Len(buf) + i]
      BY <2>3 DEF EchoInv, Echoing
    <3>2. rd[q] - Len(buf) + i \in 1 .. Len(sent[q])
      BY <1>4, <2>1, <3>1
    <3> QED
      BY <1>4, <3>1, <3>2
  <2>4. Len(sent[q]) \in Nat /\ Len(sent'[q]) \in Nat /\ Len(sent[q]) <= Len(sent'[q])
    BY <1>4
  <2>5. ASSUME NEW i \in 1 .. Len(echoed[q]) PROVE echoed[q][i] = sent'[q][i]
    <3>1. i \in 1 .. Len(sent[q])
      BY <2>1, <2>2, <2>4
    <3> QED
      BY <1>4, <2>2, <3>1
  <2>6. Len(echoed[q]) <= Len(sent'[q])
    BY <2>1, <2>2, <2>4
  <2> QED
    BY <2>3, <2>5, <2>6
<1> QED
  BY <1>5, <1>6, <1>7 DEF EchoInv

LEMMA LeaveInv ==
  ASSUME EchoInv, NEW p \in Peers, NEW how \in {"fin", "reset", "broken"}, Leave(p, how)
  PROVE  EchoInv'
<1>1. /\ peer' = [peer EXCEPT ![p] = how]
      /\ peer[p] = "open" \/ (peer[p] = "fin" /\ how = "broken")
      /\ UNCHANGED <<edition, alive, sent, rd, echoed, backlog, fdt, sets, todo, cur, buf, pc>>
  BY DEF Leave, life
<1>2. \A q \in Peers : peer'[q] = IF q = p THEN how ELSE peer[q]
  BY <1>1 DEF EchoInv, Typed
<1>3. \A q \in Peers : (Connected(q)' <=> Connected(q)) /\ (Holding(q)' <=> Holding(q))
  BY <1>1 DEF Connected, Holding, Fds
<1>4. Typed'
  BY <1>1 DEF EchoInv, Typed, sets, Fds
<1>5. Registered' /\ Scanning'
  BY <1>1, SameRegistered, SameScanning DEF EchoInv, sets
<1>6. Lined'
  <2>1. Range(backlog) \subseteq Peers
    BY RangeIs DEF EchoInv, Typed
  <2> QED
    BY <1>1, <1>2, <1>3, <2>1 DEF EchoInv, Lined
<1>7. Echoing'
  BY <1>1, <1>2, <1>3 DEF EchoInv, Echoing
<1> QED
  BY <1>4, <1>5, <1>6, <1>7 DEF EchoInv

\* The process ends: SIGINT, or SIGPIPE.
LEMMA ExitInv ==
  ASSUME EchoInv, Exit, UNCHANGED <<edition, net, rd, echoed>>
  PROVE  EchoInv'
<1>1. /\ backlog' = <<>> /\ fdt' = [fd \in Fds |-> NoPeer] /\ reads' = <<ServerFd>>
      /\ unseen' = {} /\ max' = ServerFd /\ todo' = <<>> /\ cur' = ServerFd
      /\ buf' = <<>> /\ pc' = "select" /\ alive' = FALSE
      /\ UNCHANGED <<edition, peer, sent, rd, echoed>> /\ Fds' = Fds
  BY DEF Exit, net, Fds
<1>2. Range(backlog') = {} /\ IsInjective(backlog') /\ Range(todo') = {} /\ IsInjective(todo')
      /\ Range(reads') = {ServerFd} /\ IsInjective(reads')
  BY <1>1, EmptyParts, OneParts
<1>3. \A q \in Peers : ~Connected(q)' /\ ~Holding(q)'
  BY <1>1, EchoAssumption DEF Connected, Holding
<1>4. Typed'
  <2>1. /\ backlog' \in Seq(Peers) /\ buf' \in Seq({Quit, Text}) /\ todo' \in Seq(Fds \cup {ServerFd})
        /\ reads' \in Seq(Fds \cup {ServerFd})
    BY <1>1, EmptySeq
  <2>2. fdt' \in [Fds -> Peers \cup {NoPeer}]
    BY <1>1
  <2>3. /\ edition' \in Editions
        /\ peer' \in [Peers -> {"new", "open", "fin", "reset", "broken"}]
        /\ sent' \in [Peers -> Seq({Quit, Text})]
        /\ rd' \in [Peers -> Nat]
        /\ \A p \in Peers : rd'[p] <= Len(sent'[p])
        /\ echoed' \in [Peers -> Seq({Quit, Text})]
    BY <1>1 DEF EchoInv, Typed
  <2> QED
    BY <1>1, <2>1, <2>2, <2>3 DEF Typed
<1>5. Registered'
  <2>1. {fd \in Fds : fdt'[fd] # NoPeer} = {}
    BY <1>1
  <2>2. ServerFd <= ServerFd
    BY EchoAssumption
  <2> QED
    BY <1>1, <1>2, <2>1, <2>2 DEF Registered
<1>6. Lined'
  BY <1>1, <1>2, <1>3 DEF EchoInv, Lined
<1>7. Scanning'
  BY <1>1, <1>2 DEF Scanning
<1>8. Echoing'
  <2>1. \A q \in Peers : /\ Len(echoed[q]) <= Len(sent[q])
                         /\ \A i \in 1 .. Len(echoed[q]) : echoed[q][i] = sent[q][i]
    BY DEF EchoInv, Echoing
  <2>2. sent' = sent /\ echoed' = echoed
    BY <1>1
  <2> QED
    BY <1>3, <2>1, <2>2 DEF Echoing
<1> QED
  BY <1>4, <1>5, <1>6, <1>7, <1>8 DEF EchoInv

--------------------------------------------------------------------------------
(* The loop of main. *)

\* Nothing is written back: not by this step, and not before it.
LEMMA IdleEchoing ==
  ASSUME Echoing, UNCHANGED <<edition, peer, sent, rd, echoed, fdt>>, pc # "write", pc' # "write"
  PROVE  Echoing'
<1>1. \A q \in Peers : (Connected(q)' <=> Connected(q)) /\ ~Holding(q) /\ ~Holding(q)'
  BY DEF Connected, Holding, Fds
<1>2. \A q \in Peers :
        /\ Len(echoed[q]) <= Len(sent[q])
        /\ \A i \in 1 .. Len(echoed[q]) : echoed[q][i] = sent[q][i]
        /\ Connected(q) /\ peer[q] \in {"open", "fin"} => rd[q] = Len(echoed[q]) + 0
  BY <1>1 DEF Echoing
<1> QED
  BY <1>1, <1>2 DEF Echoing

LEMMA SelectInv ==
  ASSUME EchoInv, Select
  PROVE  EchoInv'
<1> DEFINE T == {fd \in Range(reads) : (edition = "linux" => fd <= max) /\ Ready(fd)}
<1>1. /\ pc = "select" /\ pc' = "scan" /\ todo' = Kept(reads, T)
      /\ UNCHANGED <<edition, alive, peer, sent, rd, echoed, backlog, fdt, reads, unseen, max, cur, buf>>
      /\ Fds' = Fds
  BY DEF Select, life, net, sets, Fds
<1>2. ServerFd \in T => backlog # <<>>
  BY DEF Ready
<1> HIDE DEF T
<1>3. /\ todo' \in Seq(Fds \cup {ServerFd})
      /\ Range(todo') = Range(reads) \cap T
      /\ IsInjective(todo')
  BY <1>1, KeptParts, ReadsFacts DEF EchoInv, Typed
<1>4. Typed'
  BY <1>1, <1>3 DEF EchoInv, Typed
<1>5. Registered' /\ Lined'
  BY <1>1, SameRegistered, SameLined DEF EchoInv, sets
<1>6. Scanning'
  BY <1>1, <1>2, <1>3 DEF EchoInv, Scanning
<1>7. Echoing'
  BY <1>1, IdleEchoing DEF EchoInv
<1> QED
  BY <1>4, <1>5, <1>6, <1>7 DEF EchoInv

LEMMA ScanEndInv ==
  ASSUME EchoInv, ScanEnd
  PROVE  EchoInv'
<1>1. /\ pc = "scan" /\ pc' = "select"
      /\ UNCHANGED <<edition, alive, peer, sent, rd, echoed, backlog, fdt, reads, unseen, max, todo, cur, buf>>
      /\ Fds' = Fds
  BY DEF ScanEnd, life, net, sets, Fds
<1>2. Typed'
  BY <1>1 DEF EchoInv, Typed
<1>3. Registered' /\ Lined'
  BY <1>1, SameRegistered, SameLined DEF EchoInv, sets
<1>4. Scanning'
  BY <1>1 DEF EchoInv, Scanning
<1>5. Echoing'
  BY <1>1, IdleEchoing DEF EchoInv
<1> QED
  BY <1>2, <1>3, <1>4, <1>5 DEF EchoInv

\* The scan goes on past a descriptor.
LEMMA PassedInv ==
  ASSUME EchoInv, NEW fd, ScanAt(fd), Passed(fd)
  PROVE  EchoInv'
<1>1. /\ todo' = Tail(todo)
      /\ UNCHANGED <<edition, alive, peer, sent, rd, echoed, backlog, fdt, reads, unseen, max, cur, buf, pc>>
      /\ Fds' = Fds
  BY DEF Passed, life, net, sets, Fds
<1>2. /\ todo' \in Seq(Fds \cup {ServerFd}) /\ IsInjective(todo')
      /\ Range(todo') \subseteq Range(reads) /\ Range(todo') \subseteq Range(todo)
      /\ pc = "scan" /\ buf = <<>> /\ cur = ServerFd
  BY <1>1, ScanFacts DEF EchoInv
<1>3. Typed'
  BY <1>1, <1>2 DEF EchoInv, Typed
<1>4. Registered' /\ Lined' /\ Echoing'
  BY <1>1, SameRegistered, SameLined, SameEchoing DEF EchoInv, sets
<1>5. Scanning'
  BY <1>1, <1>2 DEF EchoInv, Scanning
<1> QED
  BY <1>3, <1>4, <1>5 DEF EchoInv

\* FD_SET adds one descriptor, that was not in the set; or none when it is full.
LEMMA WatchParts ==
  ASSUME EchoInv, NEW fd \in FreeFds
  PROVE  /\ Watch(fd) \in Seq(Fds \cup {ServerFd})
         /\ IsInjective(Watch(fd))
         /\ edition = "serial" => Watch(fd) = <<fd>>
         /\ edition # "serial" => Range(Watch(fd)) = Range(reads) \cup (IF Full THEN {} ELSE {fd})
<1> DEFINE S == Fds \cup {ServerFd}
<1>1. fd \in Fds /\ fd > ServerFd /\ fd \in Nat /\ S \subseteq Nat /\ reads \in Seq(S)
  BY FdsFacts DEF FreeFds, EchoInv, Typed
<1>2. fd \notin Range(reads) /\ IsInjective(reads)
  <2>1. fdt[fd] = NoPeer /\ fd # ServerFd
    BY <1>1, EchoAssumption DEF FreeFds
  <2> QED
    BY <2>1, ReadsFacts, EchoAssumption DEF EchoInv
<1>3. edition \in {"linux", "winsock", "serial"}
  BY FdsFacts DEF EchoInv
<1>4. CASE edition = "linux"
  <2> DEFINE L == {r \in Range(reads) : r < fd}
             H == {r \in Range(reads) : r > fd}
             low == Kept(reads, L)
             one == <<fd>>
             high == Kept(reads, H)
  <2>1. Watch(fd) = (low \o one) \o high /\ ~Full
    BY <1>4 DEF Watch, Full
  <2>2. L \cup H = Range(reads) /\ L \cap H = {} /\ fd \notin L /\ fd \notin H
    <3>1. Range(reads) \subseteq Nat
      BY <1>1, RangeIs
    <3> QED
      BY <1>1, <1>2, <3>1
  <2>3. /\ one \in Seq(S) /\ Range(one) = {fd} /\ IsInjective(one)
    BY <1>1, OneParts
  <2> HIDE DEF L, H, S
  <2>4. /\ low \in Seq(S) /\ Range(low) = Range(reads) \cap L /\ IsInjective(low)
        /\ high \in Seq(S) /\ Range(high) = Range(reads) \cap H /\ IsInjective(high)
    BY <1>1, <1>2, KeptParts
  <2> HIDE DEF low, one, high
  <2>5. /\ low \o one \in Seq(S)
        /\ Range(low \o one) = Range(low) \cup Range(one)
        /\ Range(low) \cap Range(one) = {} => IsInjective(low \o one)
    BY <2>3, <2>4, ConcatParts
  <2> DEFINE left == low \o one
  <2>6. /\ left \in Seq(S) /\ IsInjective(left) /\ Range(left) = Range(low) \cup {fd}
        /\ Range(left) \cap Range(high) = {}
    BY <2>2, <2>3, <2>4, <2>5
  <2>7. Watch(fd) = left \o high
    BY <2>1
  <2> HIDE DEF left
  <2>8. /\ left \o high \in Seq(S)
        /\ Range(left \o high) = Range(left) \cup Range(high)
        /\ IsInjective(left \o high)
    BY <2>4, <2>6, ConcatParts
  <2>9. Range(left \o high) = Range(reads) \cup {fd}
    BY <2>2, <2>4, <2>6, <2>8
  <2> QED
    BY <1>4, <2>1, <2>7, <2>8, <2>9 DEF S
<1>5. CASE edition = "winsock"
  <2>1. Watch(fd) = IF Full THEN reads ELSE Append(reads, fd)
    BY <1>5 DEF Watch
  <2> QED
    BY <1>1, <1>2, <1>5, <2>1, AppendParts
<1>6. CASE edition = "serial"
  BY <1>1, <1>6, OneParts DEF Watch
<1> QED
  BY <1>3, <1>4, <1>5, <1>6

LEMMA AcceptInv ==
  ASSUME EchoInv, NEW fd \in Fds, Accept(fd)
  PROVE  EchoInv'
<1> DEFINE p == Head(backlog)
           open == {f \in Fds : fdt[f] # NoPeer}
<1>1. /\ ScanAt(ServerFd) /\ fd \in FreeFds
      /\ fdt' = [fdt EXCEPT ![fd] = p]
      /\ backlog' = Tail(backlog)
      /\ reads' = Watch(fd)
      /\ unseen' = IF Full THEN unseen \cup {fd} ELSE unseen
      /\ max' = IF edition = "linux" THEN Higher(fd) ELSE max
      /\ todo' = Tail(todo)
      /\ UNCHANGED <<edition, alive, peer, sent, rd, echoed, cur, buf, pc>>
      /\ Fds' = Fds
  BY DEF Accept, life, net, Fds
<1>2. backlog # <<>>
  BY <1>1, TailParts DEF EchoInv, Scanning, Typed, ScanAt
<1>3. /\ p \in Range(backlog) /\ p \in Peers
      /\ backlog' \in Seq(Peers) /\ IsInjective(backlog')
      /\ Range(backlog') = Range(backlog) \ {p}
      /\ Range(backlog) \subseteq Peers
  BY <1>1, <1>2, TailParts, RangeIs DEF EchoInv, Lined, Typed
<1>4. ~Connected(p) /\ rd[p] = 0 /\ echoed[p] = <<>> /\ peer[p] # "new"
  BY <1>3 DEF EchoInv, Lined
<1>5. /\ Tail(todo) \in Seq(Fds \cup {ServerFd}) /\ IsInjective(Tail(todo))
      /\ Range(Tail(todo)) \subseteq Range(reads) /\ ServerFd \notin Range(Tail(todo))
      /\ ServerFd \in Range(reads)
      /\ pc = "scan" /\ buf = <<>> /\ cur = ServerFd
  BY <1>1, ScanFacts DEF EchoInv
<1>6. /\ reads' \in Seq(Fds \cup {ServerFd}) /\ IsInjective(reads')
      /\ edition = "serial" => reads' = <<fd>>
      /\ edition # "serial" => Range(reads') = Range(reads) \cup (IF Full THEN {} ELSE {fd})
  BY <1>1, WatchParts
<1> HIDE DEF p
<1>7. /\ fdt' \in [Fds -> Peers \cup {NoPeer}] /\ fdt'[fd] = p /\ fdt[fd] = NoPeer /\ p # NoPeer
      /\ \A f \in Fds : f # fd => fdt'[f] = fdt[f]
      /\ open' = open \cup {fd} /\ fd \notin open
  <2>1. fdt \in [Fds -> Peers \cup {NoPeer}] /\ fdt[fd] = NoPeer /\ p # NoPeer
    BY <1>1, <1>3, EchoAssumption DEF EchoInv, Typed, FreeFds
  <2>2. fdt' \in [Fds -> Peers \cup {NoPeer}] /\ \A f \in Fds : fdt'[f] = IF f = fd THEN p ELSE fdt[f]
    BY <1>1, <1>3, <2>1
  <2> QED
    BY <1>1, <2>1, <2>2
<1>8. \A q \in Peers : q # p => (Connected(q)' <=> Connected(q))
  BY <1>1, <1>7, EchoAssumption DEF Connected
<1>9. Typed'
  <2>1. max' \in Fds \cup {ServerFd} /\ unseen' \subseteq Fds
    BY <1>1 DEF Higher, EchoInv, Typed
  <2> QED
    BY <1>1, <1>3, <1>5, <1>6, <1>7, <2>1 DEF EchoInv, Typed
<1>10. Registered'
  <2>1. unseen' \subseteq open'
    BY <1>1, <1>7 DEF EchoInv, Registered
  <2>2. ASSUME edition = "serial" PROVE reads' = <<fd>> /\ open' = {fd}
    <3>1. open = {}
      <4>1. ASSUME NEW f \in Fds, reads = <<f>> PROVE FALSE
        BY <1>5, <4>1, OneParts, FdsFacts DEF EchoInv
      <4> QED
        BY <2>2, <4>1 DEF EchoInv, Registered
    <3> QED
      BY <1>6, <1>7, <2>2, <3>1
  <2>3. ASSUME edition # "serial" PROVE Range(reads') = {ServerFd} \cup (open' \ unseen')
    <3>1. Range(reads) = {ServerFd} \cup (open \ unseen) /\ unseen \subseteq open
      BY <2>3 DEF EchoInv, Registered
    <3> HIDE DEF open
    <3> QED
      BY <1>1, <1>6, <1>7, <2>3, <3>1
  <2>4. ASSUME edition' = "linux", NEW f \in Range(reads') PROVE f <= max'
    <3>1. f \in Range(reads) \cup {fd} /\ max' = IF fd > max THEN fd ELSE max
      BY <1>1, <1>6, <2>4 DEF Higher
    <3>2. fd \in Nat /\ max \in Nat /\ (f \in Range(reads) => f <= max)
      BY <1>1, <2>4, FdsFacts DEF EchoInv, Registered, Typed
    <3>3. f \in Nat
      <4>1. Range(reads) \subseteq Fds \cup {ServerFd} /\ Fds \cup {ServerFd} \subseteq Nat
        BY FdsFacts, RangeIs DEF EchoInv, Typed
      <4> QED
        BY <3>1, <3>2, <4>1
    <3> QED
      BY <3>1, <3>2, <3>3
  <2>5. ASSUME NEW f \in Fds, NEW g \in Fds, fdt'[f] = fdt'[g], f # g PROVE fdt'[f] = NoPeer
    <3>1. \A h \in Fds : fdt[h] # p
      BY <1>4 DEF Connected
    <3> QED
      BY <1>7, <2>5, <3>1 DEF EchoInv, Registered
  <2> QED
    BY <1>1, <1>6, <2>1, <2>2, <2>3, <2>4, <2>5 DEF Registered
<1>11. Lined'
  BY <1>1, <1>3, <1>4, <1>8 DEF EchoInv, Lined
<1>12. Scanning'
  <2>1. Range(Tail(todo)) \subseteq Range(reads')
    <3>1. CASE edition = "serial"
      <4>1. Range(reads) = {ServerFd}
        BY <1>5, <3>1, ReadsFacts, OneParts DEF EchoInv
      <4> QED
        BY <1>5, <4>1
    <3> QED
      BY <1>5, <1>6, <3>1
  <2>2. edition # "winsock" => unseen' = {}
    BY <1>1 DEF Full, EchoInv, Scanning
  <2> QED
    BY <1>1, <1>5, <2>1, <2>2 DEF Scanning
<1>13. Echoing'
  <2>1. \A q \in Peers : ~Holding(q) /\ ~Holding(q)'
    BY <1>1, <1>5 DEF Holding
  <2>2. \A q \in Peers :
          /\ Len(echoed[q]) <= Len(sent[q])
          /\ \A i \in 1 .. Len(echoed[q]) : echoed[q][i] = sent[q][i]
          /\ Connected(q) /\ peer[q] \in {"open", "fin"} => rd[q] = Len(echoed[q]) + 0
    BY <2>1 DEF EchoInv, Echoing
  <2>3. rd[p] = Len(echoed[p]) + 0
    BY <1>4
  <2> QED
    BY <1>1, <1>8, <2>1, <2>2, <2>3 DEF Echoing
<1> QED
  BY <1>9, <1>10, <1>11, <1>12, <1>13 DEF EchoInv

LEMMA AcceptFailsInv ==
  ASSUME EchoInv, AcceptFails
  PROVE  EchoInv'
<1>1. ScanAt(ServerFd) /\ (Passed(ServerFd) \/ Interrupt)
  BY DEF AcceptFails
<1> QED
  BY <1>1, PassedInv, ExitInv DEF Interrupt

--------------------------------------------------------------------------------
(* A client that is read. *)

\* FD_CLR takes one descriptor out of the set, and out of the scan at most more.
LEMMA CloseParts ==
  ASSUME EchoInv, NEW fd \in Range(reads), fd # ServerFd,
         NEW rest \in Seq(Fds \cup {ServerFd}), IsInjective(rest),
         Range(rest) \subseteq Range(reads) \ {fd}, Close(fd, rest)
  PROVE  /\ fdt' = [fdt EXCEPT ![fd] = NoPeer] /\ unseen' = unseen /\ max' = max
         /\ reads' \in Seq(Fds \cup {ServerFd}) /\ IsInjective(reads')
         /\ edition = "serial" => reads' = <<ServerFd>> /\ reads = <<fd>>
         /\ edition # "serial" => Range(reads') = Range(reads) \ {fd}
         /\ todo' \in Seq(Fds \cup {ServerFd}) /\ IsInjective(todo')
         /\ Range(todo') \subseteq Range(rest) /\ Range(todo') \subseteq Range(reads')
<1> DEFINE S == Fds \cup {ServerFd}
<1>1. /\ fdt' = [fdt EXCEPT ![fd] = NoPeer] /\ unseen' = unseen /\ max' = max
      /\ reads' = IF edition = "serial" THEN <<ServerFd>> ELSE Kept(reads, Range(reads) \ {fd})
      /\ todo' = Unscanned(fd, rest)
  BY DEF Close
<1>2. reads \in Seq(S) /\ IsInjective(reads) /\ ServerFd \in S
  BY ReadsFacts DEF EchoInv, Typed
<1> HIDE DEF S
<1>3. reads' \in Seq(S) /\ IsInjective(reads') /\ (edition # "serial" => Range(reads') = Range(reads) \ {fd})
  <2>1. CASE edition = "serial"
    BY <1>1, <1>2, <2>1, OneParts
  <2>2. CASE edition # "serial"
    <3> DEFINE X == Range(reads) \ {fd}
    <3>1. reads' = Kept(reads, X) /\ Range(reads) \cap X = Range(reads) \ {fd}
      BY <1>1, <2>2
    <3> HIDE DEF X
    <3> QED
      BY <1>2, <2>2, <3>1, KeptParts
  <2> QED
    BY <2>1, <2>2
<1>4. todo' \in Seq(S) /\ IsInjective(todo') /\ Range(todo') \subseteq Range(rest)
  <2>1. rest \in Seq(S)
    BY DEF S
  <2>2. \A X : Kept(rest, X) \in Seq(S) /\ IsInjective(Kept(rest, X)) /\ Range(Kept(rest, X)) \subseteq Range(rest)
    BY <2>1, KeptParts
  <2>3. todo' = rest \/ \E X : todo' = Kept(rest, X)
    BY <1>1 DEF Unscanned
  <2> QED
    BY <2>1, <2>2, <2>3
<1>5. edition = "serial" => reads = <<fd>> /\ Range(rest) = {}
  BY ReadsFacts, OneParts DEF EchoInv
<1> QED
  BY <1>1, <1>3, <1>4, <1>5 DEF S

\* A connection is closed, when nothing is to be written to another.
LEMMA CloseInv ==
  ASSUME EchoInv, NEW fd \in Range(reads), fd # ServerFd,
         NEW rest \in Seq(Fds \cup {ServerFd}), IsInjective(rest),
         Range(rest) \subseteq Range(reads) \ {fd}, Range(rest) \subseteq Range(todo),
         Close(fd, rest),
         UNCHANGED <<edition, alive, net, echoed, backlog>>,
         rd' \in [Peers -> Nat],
         \A q \in Peers : rd'[q] <= Len(sent[q]) /\ (q # fdt[fd] => rd'[q] = rd[q] /\ ~Holding(q)),
         buf' = <<>>, cur' = ServerFd, pc' = "scan"
  PROVE  EchoInv'
<1> DEFINE p == fdt[fd]
           open == {f \in Fds : fdt[f] # NoPeer}
<1>1. /\ fdt' = [fdt EXCEPT ![fd] = NoPeer] /\ unseen' = unseen /\ max' = max
      /\ reads' \in Seq(Fds \cup {ServerFd}) /\ IsInjective(reads')
      /\ edition = "serial" => reads' = <<ServerFd>> /\ reads = <<fd>>
      /\ edition # "serial" => Range(reads') = Range(reads) \ {fd}
      /\ todo' \in Seq(Fds \cup {ServerFd}) /\ IsInjective(todo')
      /\ Range(todo') \subseteq Range(todo) /\ Range(todo') \subseteq Range(reads')
  BY CloseParts
<1>2. UNCHANGED <<edition, alive, peer, sent, echoed, backlog>> /\ Fds' = Fds
  BY DEF net, Fds
<1>3. /\ fd \in Fds /\ p \in Peers /\ Connected(p) /\ fd \notin unseen
      /\ \A g \in Fds : fdt[g] = p => g = fd
      /\ peer[p] # "new" /\ p \notin Range(backlog) /\ p # NoPeer
  BY ClientOf, ReadsFacts, EchoAssumption DEF EchoInv
<1>4. /\ fdt' \in [Fds -> Peers \cup {NoPeer}] /\ fdt'[fd] = NoPeer
      /\ \A f \in Fds : f # fd => fdt'[f] = fdt[f]
  BY <1>1, <1>3 DEF EchoInv, Typed
<1>5. open' = open \ {fd}
  BY <1>2, <1>4
<1> HIDE DEF p
<1>6. \A q \in Peers : Connected(q)' <=> Connected(q) /\ q # p
  <2> TAKE q \in Peers
  <2>1. q # NoPeer
    BY EchoAssumption
  <2>2. CASE q = p
    BY <1>2, <1>3, <1>4, <2>1, <2>2 DEF Connected
  <2>3. CASE q # p
    BY <1>2, <1>4, <2>1, <2>3 DEF Connected, p
  <2> QED
    BY <2>2, <2>3
<1>7. Typed'
  <2>1. /\ edition \in Editions /\ alive \in BOOLEAN
        /\ peer \in [Peers -> {"new", "open", "fin", "reset", "broken"}]
        /\ sent \in [Peers -> Seq({Quit, Text})]
        /\ echoed \in [Peers -> Seq({Quit, Text})]
        /\ backlog \in Seq(Peers)
        /\ unseen \subseteq Fds /\ max \in Fds \cup {ServerFd}
    BY DEF EchoInv, Typed
  <2>2. buf' \in Seq({Quit, Text})
    BY EmptySeq
  <2> QED
    BY <1>1, <1>2, <1>4, <2>1, <2>2 DEF Typed
<1>8. Registered'
  <2>1. unseen' \subseteq open'
    BY <1>1, <1>3, <1>5 DEF EchoInv, Registered
  <2>2. ASSUME edition = "serial" PROVE reads' = <<ServerFd>> /\ open' = {}
    <3>1. ASSUME reads = <<ServerFd>> PROVE FALSE
      BY <3>1, OneParts
    <3>2. PICK f \in Fds : reads = <<f>> /\ open = {f}
      BY <2>2, <3>1 DEF EchoInv, Registered
    <3>3. f = fd
      BY <3>2, OneParts
    <3> QED
      BY <1>1, <1>5, <2>2, <3>2, <3>3
  <2>3. ASSUME edition # "serial" PROVE Range(reads') = {ServerFd} \cup (open' \ unseen')
    <3>1. Range(reads) = {ServerFd} \cup (open \ unseen) /\ unseen \subseteq open
      BY <2>3 DEF EchoInv, Registered
    <3> HIDE DEF open
    <3> QED
      BY <1>1, <1>3, <1>5, <2>3, <3>1
  <2>4. ASSUME edition' = "linux", NEW f \in Range(reads') PROVE f <= max'
    <3>1. edition = "linux" /\ f \in Range(reads)
      BY <1>1, <1>2, <2>4
    <3> QED
      BY <1>1, <3>1 DEF EchoInv, Registered
  <2>5. ASSUME NEW f \in Fds, NEW g \in Fds, fdt'[f] = fdt'[g], f # g PROVE fdt'[f] = NoPeer
    BY <1>4, <2>5 DEF EchoInv, Registered
  <2> QED
    BY <1>1, <1>2, <2>1, <2>2, <2>3, <2>4, <2>5 DEF Registered
<1>9. Lined'
  <2>1. Range(backlog) \subseteq Peers
    BY RangeIs DEF EchoInv, Typed
  <2>2. \A q \in Peers : peer[q] = "new" \/ q \in Range(backlog) =>
          q # p /\ ~Connected(q) /\ rd[q] = 0 /\ echoed[q] = <<>>
    BY <1>3 DEF EchoInv, Lined
  <2>3. IsInjective(backlog) /\ \A q \in Range(backlog) : peer[q] # "new"
    BY DEF EchoInv, Lined
  <2>4. \A q \in Peers : q # p => rd'[q] = rd[q]
    BY DEF p
  <2> QED
    BY <1>2, <1>6, <2>1, <2>2, <2>3, <2>4 DEF Lined
<1>10. Scanning'
  BY <1>1, <1>2 DEF EchoInv, Scanning
<1>11. Echoing'
  <2>1. \A q \in Peers : ~Holding(q)' /\ (q # p => ~Holding(q) /\ rd'[q] = rd[q])
    BY DEF Holding, p
  <2>2. \A q \in Peers :
          /\ Len(echoed[q]) <= Len(sent[q])
          /\ \A i \in 1 .. Len(echoed[q]) : echoed[q][i] = sent[q][i]
          /\ q # p /\ Connected(q) /\ peer[q] \in {"open", "fin"} => rd[q] = Len(echoed[q]) + 0
    BY <2>1 DEF EchoInv, Echoing
  <2> QED
    BY <1>2, <1>6, <2>1, <2>2 DEF Echoing
<1> QED
  BY <1>7, <1>8, <1>9, <1>10, <1>11 DEF EchoInv

\* The same at the place of the scan.
LEMMA ScanCloseInv ==
  ASSUME EchoInv, NEW fd, ScanAt(fd), fd # ServerFd, Close(fd, Tail(todo)),
         UNCHANGED <<edition, alive, net, echoed, backlog, cur, buf, pc>>,
         rd' \in [Peers -> Nat],
         \A q \in Peers : rd'[q] <= Len(sent[q]) /\ (q # fdt[fd] => rd'[q] = rd[q])
  PROVE  EchoInv'
<1>1. /\ fd \in Range(reads)
      /\ Tail(todo) \in Seq(Fds \cup {ServerFd}) /\ IsInjective(Tail(todo))
      /\ Range(Tail(todo)) \subseteq Range(reads) \ {fd} /\ Range(Tail(todo)) \subseteq Range(todo)
      /\ pc = "scan" /\ buf = <<>> /\ cur = ServerFd
  BY ScanFacts DEF EchoInv
<1>2. \A q \in Peers : ~Holding(q)
  BY <1>1 DEF Holding
<1> QED
  BY <1>1, <1>2, CloseInv

\* The connection of an end or an error is closed, or left as it was.
LEMMA EndInv ==
  ASSUME EchoInv, NEW fd, Drained(fd), Closed(fd) \/ Passed(fd)
  PROVE  EchoInv'
<1>1. ScanAt(fd) /\ fd # ServerFd
  BY DEF Drained
<1>2. CASE Passed(fd)
  BY <1>1, <1>2, PassedInv
<1>3. CASE Closed(fd)
  <2>1. /\ Close(fd, Tail(todo)) /\ UNCHANGED <<edition, alive, net, echoed, backlog, cur, buf, pc>>
        /\ rd' = rd
    BY <1>3 DEF Closed, life
  <2>2. rd \in [Peers -> Nat] /\ \A q \in Peers : rd[q] <= Len(sent[q])
    BY DEF EchoInv, Typed
  <2> QED
    BY <1>1, <2>1, <2>2, ScanCloseInv
<1> QED
  BY <1>2, <1>3

LEMMA ReadInv ==
  ASSUME EchoInv, NEW fd \in Fds, NEW n \in 1 .. MaxRead, Read(fd, n)
  PROVE  EchoInv'
<1> DEFINE p == fdt[fd]
           words == SubSeq(sent[p], rd[p] + 1, rd[p] + n)
<1>1. /\ ScanAt(fd) /\ fd # ServerFd /\ rd[p] + n <= Len(sent[p])
      /\ rd' = [rd EXCEPT ![p] = rd[p] + n]
      /\ UNCHANGED <<edition, alive, net, echoed, backlog>>
  BY DEF Read, life
<1>2. \/ Close(fd, Tail(todo)) /\ pc' = "scan" /\ UNCHANGED <<cur, buf>>
      \/ buf' = words /\ cur' = fd /\ todo' = Tail(todo) /\ pc' = "write" /\ UNCHANGED <<fdt, sets>>
  BY DEF Read, Words
<1>3. /\ fd \in Range(reads)
      /\ Tail(todo) \in Seq(Fds \cup {ServerFd}) /\ IsInjective(Tail(todo))
      /\ Range(Tail(todo)) \subseteq Range(reads) \ {fd} /\ Range(Tail(todo)) \subseteq Range(todo)
      /\ pc = "scan" /\ buf = <<>> /\ cur = ServerFd
  BY <1>1, ScanFacts DEF EchoInv
<1>4. /\ p \in Peers /\ Connected(p) /\ peer[p] # "new" /\ p \notin Range(backlog)
      /\ \A g \in Fds : fdt[g] = p => g = fd
  BY <1>1, <1>3, ClientOf
<1>5. n \in Nat /\ n >= 1
  BY EchoAssumption
<1> HIDE DEF p
<1>6. /\ rd' \in [Peers -> Nat] /\ rd'[p] = rd[p] + n /\ rd[p] \in Nat
      /\ \A q \in Peers : rd'[q] <= Len(sent[q]) /\ (q # p => rd'[q] = rd[q])
  <2>1. rd \in [Peers -> Nat] /\ \A q \in Peers : rd[q] <= Len(sent[q])
    BY DEF EchoInv, Typed
  <2> QED
    BY <1>1, <1>4, <1>5, <2>1
<1>7. CASE Close(fd, Tail(todo)) /\ pc' = "scan" /\ UNCHANGED <<cur, buf>>
  BY <1>1, <1>3, <1>6, <1>7, ScanCloseInv DEF p
<1>8. CASE buf' = words /\ cur' = fd /\ todo' = Tail(todo) /\ pc' = "write" /\ UNCHANGED <<fdt, sets>>
  <2>1. /\ UNCHANGED <<edition, alive, peer, sent, echoed, backlog, fdt, reads, unseen, max>>
        /\ buf' = words /\ cur' = fd /\ todo' = Tail(todo) /\ pc' = "write" /\ Fds' = Fds
    BY <1>1, <1>8 DEF net, sets, Fds
  <2>2. /\ words \in Seq({Quit, Text}) /\ Len(words) = n
        /\ \A i \in 1 .. n : words[i] = sent[p][rd[p] + i]
    <3>1. sent[p] \in Seq({Quit, Text}) /\ Len(sent[p]) \in Nat
      BY <1>4, LenProperties DEF EchoInv, Typed
    <3>2. rd[p] \in Nat /\ rd[p] + n <= Len(sent[p])
      BY <1>1, <1>6
    <3>3. /\ rd[p] + 1 \in 1 .. Len(sent[p]) + 1
          /\ rd[p] + n \in rd[p] .. Len(sent[p])
          /\ rd[p] + n - (rd[p] + 1) + 1 = n
      BY <1>5, <3>1, <3>2
    <3>4. /\ words \in Seq({Quit, Text}) /\ Len(words) = n
          /\ \A i \in 1 .. n : words[i] = sent[p][rd[p] + 1 + i - 1]
      <4> DEFINE a == rd[p] + 1
                 b == rd[p] + n
                 s == sent[p]
      <4>1. \A i \in a .. b : s[i] \in {Quit, Text}
        BY <3>1, <3>3, ElementOfSeq
      <4>2. a \in Int /\ b \in Int /\ a <= b /\ b - a + 1 = n /\ words = SubSeq(s, a, b)
        BY <1>5, <3>2, <3>3
      <4> HIDE DEF a, b, s
      <4>3. /\ SubSeq(s, a, b) \in Seq({Quit, Text}) /\ Len(SubSeq(s, a, b)) = n
            /\ \A i \in 1 .. n : SubSeq(s, a, b)[i] = s[a + i - 1]
        BY <4>1, <4>2, SubSeqProperties
      <4> QED
        BY <4>2, <4>3 DEF a, s
    <3>5. \A i \in 1 .. n : rd[p] + 1 + i - 1 = rd[p] + i
      BY <1>5, <3>2
    <3> QED
      BY <3>4, <3>5
  <2> HIDE DEF words
  <2>3. words # <<>>
    BY <1>5, <2>2, EmptySeq
  <2>4. Typed'
    <3>1. /\ edition \in Editions /\ alive \in BOOLEAN
          /\ peer \in [Peers -> {"new", "open", "fin", "reset", "broken"}]
          /\ sent \in [Peers -> Seq({Quit, Text})]
          /\ echoed \in [Peers -> Seq({Quit, Text})]
          /\ backlog \in Seq(Peers)
          /\ fdt \in [Fds -> Peers \cup {NoPeer}]
          /\ reads \in Seq(Fds \cup {ServerFd})
          /\ unseen \subseteq Fds /\ max \in Fds \cup {ServerFd}
      BY DEF EchoInv, Typed
    <3> QED
      BY <1>3, <1>6, <2>1, <2>2, <3>1 DEF Typed
  <2>5. Registered'
    BY <2>1, SameRegistered DEF EchoInv, sets
  <2>6. Lined'
    <3>1. \A q \in Peers : Connected(q)' <=> Connected(q)
      BY <2>1 DEF Connected
    <3>2. Range(backlog) \subseteq Peers
      BY RangeIs DEF EchoInv, Typed
    <3> QED
      BY <1>4, <1>6, <2>1, <3>1, <3>2 DEF EchoInv, Lined
  <2>7. Scanning'
    BY <1>1, <1>3, <2>1, <2>3 DEF EchoInv, Scanning
  <2>8. Echoing'
    <3>1. \A q \in Peers : /\ Connected(q)' <=> Connected(q)
                           /\ ~Holding(q)
                           /\ Holding(q)' <=> q = p
      BY <1>3, <1>4, <2>1 DEF Connected, Holding, p
    <3>2. \A q \in Peers :
            /\ Len(echoed[q]) <= Len(sent[q])
            /\ \A i \in 1 .. Len(echoed[q]) : echoed[q][i] = sent[q][i]
            /\ Connected(q) /\ peer[q] \in {"open", "fin"} => rd[q] = Len(echoed[q]) + 0
      BY <3>1 DEF EchoInv, Echoing
    <3>3. \A q \in Peers : Len(echoed[q]) \in Nat
      BY LenProperties DEF EchoInv, Typed
    <3>4. Connected(p) /\ peer[p] \in {"open", "fin"} => rd'[p] = Len(echoed[p]) + n
      BY <1>4, <1>5, <1>6, <3>2, <3>3
    <3>5. n <= rd'[p] /\ \A i \in 1 .. n : words[i] = sent[p][rd'[p] - n + i]
      <4>1. ASSUME NEW i \in 1 .. n PROVE words[i] = sent[p][rd'[p] - n + i]
        <5>1. rd'[p] - n + i = rd[p] + i
          BY <1>5, <1>6
        <5> QED
          BY <2>2, <5>1
      <4>2. n <= rd'[p]
        BY <1>5, <1>6
      <4> QED
        BY <4>1, <4>2
    <3>6. SUFFICES ASSUME NEW q \in Peers
                   PROVE  /\ Connected(q) /\ peer[q] \in {"open", "fin"} =>
                               rd'[q] = Len(echoed[q]) + IF q = p THEN n ELSE 0
                          /\ q = p => n <= rd'[q] /\ \A i \in 1 .. n : words[i] = sent[q][rd'[q] - n + i]
      BY <2>1, <2>2, <3>1, <3>2 DEF Echoing
    <3> QED
      BY <1>6, <3>2, <3>4, <3>5
  <2> QED
    BY <2>4, <2>5, <2>6, <2>7, <2>8 DEF EchoInv
<1> QED
  BY <1>2, <1>7, <1>8

--------------------------------------------------------------------------------
(* What was read is written back. *)

LEMMA WriteInv ==
  ASSUME EchoInv, Write
  PROVE  EchoInv'
<1> DEFINE p == fdt[cur]
<1>1. /\ pc = "write" /\ peer[p] \in {"open", "fin"}
      /\ echoed' = [echoed EXCEPT ![p] = echoed[p] \o buf]
      /\ buf' = <<>> /\ cur' = ServerFd /\ pc' = "scan"
      /\ UNCHANGED <<edition, alive, peer, sent, rd, backlog, fdt, reads, unseen, max, todo>>
      /\ Fds' = Fds
  BY DEF Write, Written, life, net, sets, Fds
<1>2. cur \in Range(reads) /\ cur # ServerFd
  BY <1>1 DEF EchoInv, Scanning
<1>3. /\ p \in Peers /\ Connected(p) /\ Holding(p) /\ p \notin Range(backlog) /\ peer[p] # "new"
      /\ \A q \in Peers : Holding(q) => q = p
  BY <1>1, <1>2, ClientOf DEF Holding
<1> HIDE DEF p
<1>4. /\ Len(echoed[p]) \in Nat /\ Len(buf) \in Nat /\ Len(sent[p]) \in Nat
      /\ echoed[p] \in Seq({Quit, Text}) /\ buf \in Seq({Quit, Text})
  BY <1>3, LenProperties DEF EchoInv, Typed
<1>5. /\ rd[p] = Len(echoed[p]) + Len(buf) /\ rd[p] <= Len(sent[p])
      /\ \A i \in 1 .. Len(echoed[p]) : echoed[p][i] = sent[p][i]
      /\ \A i \in 1 .. Len(buf) : buf[i] = sent[p][rd[p] - Len(buf) + i]
  BY <1>1, <1>3 DEF EchoInv, Echoing, Typed
<1>6. /\ echoed'[p] \in Seq({Quit, Text})
      /\ Len(echoed'[p]) = rd[p]
      /\ \A i \in 1 .. rd[p] : echoed'[p][i] = sent[p][i]
  <2>1. echoed'[p] = echoed[p] \o buf
    BY <1>1, <1>3 DEF EchoInv, Typed
  <2>2. /\ echoed'[p] \in Seq({Quit, Text})
        /\ Len(echoed'[p]) = rd[p]
        /\ \A i \in 1 .. rd[p] :
             echoed'[p][i] = IF i <= Len(echoed[p]) THEN echoed[p][i] ELSE buf[i - Len(echoed[p])]
    BY <1>4, <1>5, <2>1, ConcatProperties
  <2>3. ASSUME NEW i \in 1 .. rd[p] PROVE echoed'[p][i] = sent[p][i]
    <3>1. CASE i <= Len(echoed[p])
      <4>1. i \in 1 .. Len(echoed[p])
        BY <1>4, <1>5, <3>1
      <4> QED
        BY <1>5, <2>2, <3>1, <4>1
    <3>2. CASE ~ (i <= Len(echoed[p]))
      <4>1. /\ i - Len(echoed[p]) \in 1 .. Len(buf)
            /\ rd[p] - Len(buf) + (i - Len(echoed[p])) = i
        BY <1>4, <1>5, <3>2
      <4>2. buf[i - Len(echoed[p])] = sent[p][rd[p] - Len(buf) + (i - Len(echoed[p]))]
        BY <1>5, <4>1
      <4> QED
        BY <2>2, <3>2, <4>1, <4>2
    <3> QED
      BY <3>1, <3>2
  <2> QED
    BY <2>2, <2>3
<1>7. \A q \in Peers : q # p => echoed'[q] = echoed[q]
  BY <1>1 DEF EchoInv, Typed
<1>8. Typed'
  <2>1. echoed' \in [Peers -> Seq({Quit, Text})]
    <3>1. echoed[p] \o buf \in Seq({Quit, Text})
      BY <1>4, ConcatProperties
    <3> QED
      BY <1>1, <3>1 DEF EchoInv, Typed
  <2>2. /\ edition \in Editions /\ alive \in BOOLEAN
        /\ peer \in [Peers -> {"new", "open", "fin", "reset", "broken"}]
        /\ sent \in [Peers -> Seq({Quit, Text})]
        /\ rd \in [Peers -> Nat] /\ \A q \in Peers : rd[q] <= Len(sent[q])
        /\ backlog \in Seq(Peers)
        /\ fdt \in [Fds -> Peers \cup {NoPeer}]
        /\ reads \in Seq(Fds \cup {ServerFd})
        /\ unseen \subseteq Fds /\ max \in Fds \cup {ServerFd}
        /\ todo \in Seq(Fds \cup {ServerFd})
    BY DEF EchoInv, Typed
  <2>3. buf' \in Seq({Quit, Text})
    BY <1>1, EmptySeq
  <2> QED
    BY <1>1, <2>1, <2>2, <2>3 DEF Typed
<1>9. Registered'
  BY <1>1, SameRegistered DEF EchoInv, sets
<1>10. Lined'
  <2>1. \A q \in Peers : Connected(q)' <=> Connected(q)
    BY <1>1 DEF Connected
  <2>2. Range(backlog) \subseteq Peers
    BY RangeIs DEF EchoInv, Typed
  <2> QED
    BY <1>1, <1>3, <1>7, <2>1, <2>2 DEF EchoInv, Lined
<1>11. Scanning'
  BY <1>1 DEF EchoInv, Scanning
<1>12. Echoing'
  <2>1. \A q \in Peers : (Connected(q)' <=> Connected(q)) /\ ~Holding(q)'
    BY <1>1 DEF Connected, Holding
  <2>2. \A q \in Peers : q # p =>
          /\ Len(echoed[q]) <= Len(sent[q])
          /\ \A i \in 1 .. Len(echoed[q]) : echoed[q][i] = sent[q][i]
          /\ Connected(q) /\ peer[q] \in {"open", "fin"} => rd[q] = Len(echoed[q]) + 0
    BY <1>3 DEF EchoInv, Echoing
  <2>3. /\ Len(echoed'[p]) <= Len(sent[p])
        /\ rd[p] = Len(echoed'[p]) + 0
        /\ \A i \in 1 .. Len(echoed'[p]) : echoed'[p][i] = sent[p][i]
    BY <1>4, <1>5, <1>6
  <2>4. SUFFICES ASSUME NEW q \in Peers
                 PROVE  /\ Len(echoed'[q]) <= Len(sent[q])
                        /\ \A i \in 1 .. Len(echoed'[q]) : echoed'[q][i] = sent[q][i]
                        /\ Connected(q) /\ peer[q] \in {"open", "fin"} => rd[q] = Len(echoed'[q]) + 0
    BY <1>1, <2>1 DEF Echoing
  <2> QED
    BY <1>7, <2>2, <2>3
<1> QED
  BY <1>8, <1>9, <1>10, <1>11, <1>12 DEF EchoInv

\* The connection was reset: it is closed, or what was read is lost with it.
LEMMA WriteErrorInv ==
  ASSUME EchoInv, WriteError
  PROVE  EchoInv'
<1> DEFINE p == fdt[cur]
<1>1. /\ pc = "write" /\ Failed(p)
      /\ buf' = <<>> /\ cur' = ServerFd /\ pc' = "scan"
      /\ UNCHANGED <<edition, alive, net, rd, echoed, backlog>>
  BY DEF WriteError, Refused, Written, life
<1>2. cur \in Range(reads) /\ cur # ServerFd /\ cur \notin Range(todo) /\ Range(todo) \subseteq Range(reads)
  BY <1>1 DEF EchoInv, Scanning
<1>3. \A q \in Peers : q # p => ~Holding(q)
  BY DEF Holding
<1>4. CASE edition # "serial"
  <2>1. Close(cur, todo)
    BY <1>4 DEF WriteError
  <2>2. /\ todo \in Seq(Fds \cup {ServerFd}) /\ IsInjective(todo)
        /\ rd' \in [Peers -> Nat]
        /\ \A q \in Peers : rd'[q] <= Len(sent[q]) /\ rd'[q] = rd[q]
    BY <1>1 DEF EchoInv, Typed, Scanning
  <2> QED
    BY <1>1, <1>2, <1>3, <2>1, <2>2, CloseInv
<1>5. CASE edition = "serial"
  <2>1. /\ UNCHANGED <<edition, alive, peer, sent, rd, echoed, backlog, fdt, reads, unseen, max, todo>>
        /\ Fds' = Fds
    BY <1>1, <1>5 DEF WriteError, life, net, sets, Fds
  <2>2. peer[p] = "reset"
    BY <1>1, <1>5 DEF Failed
  <2>3. Typed'
    <3>1. buf' \in Seq({Quit, Text})
      BY <1>1, EmptySeq
    <3> QED
      BY <1>1, <2>1, <3>1 DEF EchoInv, Typed
  <2>4. Registered' /\ Lined'
    BY <2>1, SameRegistered, SameLined DEF EchoInv, sets
  <2>5. Scanning'
    BY <1>1, <2>1 DEF EchoInv, Scanning
  <2>6. Echoing'
    <3>1. \A q \in Peers : (Connected(q)' <=> Connected(q)) /\ ~Holding(q)'
      BY <1>1, <2>1 DEF Connected, Holding
    <3>2. \A q \in Peers :
            /\ Len(echoed[q]) <= Len(sent[q])
            /\ \A i \in 1 .. Len(echoed[q]) : echoed[q][i] = sent[q][i]
            /\ Connected(q) /\ peer[q] \in {"open", "fin"} => rd[q] = Len(echoed[q]) + 0
      BY <1>3, <2>2 DEF EchoInv, Echoing
    <3> QED
      BY <2>1, <3>1, <3>2 DEF Echoing
  <2> QED
    BY <2>3, <2>4, <2>5, <2>6 DEF EchoInv
<1> QED
  BY <1>4, <1>5

--------------------------------------------------------------------------------
(* The theorems. *)

LEMMA InitInv == Init => EchoInv
<1> SUFFICES ASSUME Init PROVE EchoInv
  OBVIOUS
<1>1. /\ edition \in Editions /\ alive = TRUE /\ peer = [p \in Peers |-> "new"]
      /\ sent = [p \in Peers |-> <<>>] /\ rd = [p \in Peers |-> 0] /\ echoed = [p \in Peers |-> <<>>]
      /\ backlog = <<>> /\ fdt = [fd \in Fds |-> NoPeer] /\ reads = <<ServerFd>>
      /\ unseen = {} /\ max = ServerFd /\ todo = <<>> /\ cur = ServerFd /\ buf = <<>> /\ pc = "select"
  BY DEF Init
<1>2. /\ Range(backlog) = {} /\ IsInjective(backlog) /\ Range(todo) = {} /\ IsInjective(todo)
      /\ Range(reads) = {ServerFd} /\ IsInjective(reads)
  BY <1>1, EmptyParts, OneParts
<1>3. \A q \in Peers : ~Connected(q) /\ ~Holding(q)
  BY <1>1, EchoAssumption DEF Connected, Holding
<1>4. Typed
  <2>1. /\ backlog \in Seq(Peers) /\ buf \in Seq({Quit, Text}) /\ todo \in Seq(Fds \cup {ServerFd})
        /\ reads \in Seq(Fds \cup {ServerFd})
    BY <1>1, EmptySeq
  <2>2. sent \in [Peers -> Seq({Quit, Text})] /\ echoed \in [Peers -> Seq({Quit, Text})]
    BY <1>1, EmptySeq
  <2>3. rd \in [Peers -> Nat] /\ \A p \in Peers : rd[p] <= Len(sent[p])
    BY <1>1
  <2> QED
    BY <1>1, <2>1, <2>2, <2>3 DEF Typed
<1>5. Registered
  <2>1. {fd \in Fds : fdt[fd] # NoPeer} = {} /\ ServerFd <= ServerFd
    BY <1>1, EchoAssumption
  <2> QED
    BY <1>1, <1>2, <2>1 DEF Registered
<1>6. Lined
  BY <1>1, <1>2, <1>3 DEF Lined
<1>7. Scanning
  BY <1>1, <1>2 DEF Scanning
<1>8. Echoing
  BY <1>1, <1>3 DEF Echoing
<1> QED
  BY <1>4, <1>5, <1>6, <1>7, <1>8 DEF EchoInv

LEMMA StepInv == EchoInv /\ [Next]_vars => EchoInv'
<1> SUFFICES ASSUME EchoInv, [Next]_vars PROVE EchoInv'
  OBVIOUS
<1>1. CASE UNCHANGED vars
  BY <1>1, SameInv
<1>2. ASSUME NEW p \in Peers, Peer(p) PROVE EchoInv'
  BY <1>2, ConnectInv, SendInv, LeaveInv DEF Peer
<1>3. CASE Interrupt
  BY <1>3, ExitInv DEF Interrupt
<1>4. CASE Select
  BY <1>4, SelectInv
<1>5. CASE ScanEnd
  BY <1>5, ScanEndInv
<1>6. ASSUME NEW fd \in Fds, Accept(fd) PROVE EchoInv'
  BY <1>6, AcceptInv
<1>7. ASSUME NEW fd \in Fds, ReadEof(fd) \/ ReadError(fd) PROVE EchoInv'
  <2>1. Drained(fd) /\ (Closed(fd) \/ Passed(fd))
    BY <1>7 DEF ReadEof, ReadError
  <2> QED
    BY <2>1, EndInv
<1>8. ASSUME NEW fd \in Fds, NEW n \in 1 .. MaxRead, Read(fd, n) PROVE EchoInv'
  BY <1>8, ReadInv
<1>9. CASE AcceptFails
  BY <1>9, AcceptFailsInv
<1>10. CASE Write
  BY <1>10, WriteInv
<1>11. CASE WriteError
  BY <1>11, WriteErrorInv
<1>12. CASE WritePipe
  BY <1>12, ExitInv DEF WritePipe
<1> QED
  BY <1>1, <1>2, <1>3, <1>4, <1>5, <1>6, <1>7, <1>8, <1>9, <1>10, <1>11, <1>12 DEF Next, ServerStep

LEMMA Invariance == Spec => []EchoInv
  BY InitInv, StepInv, PTL DEF Spec

--------------------------------------------------------------------------------
(* SIGPIPE. *)

\* Words of p that were read and neither written back nor are in the buffer.
Pending(p) == IF Holding(p) THEN Len(buf) ELSE 0
Owed(p) == rd[p] - (Len(echoed[p]) + Pending(p))

\* Only "serial" goes on with a connection to which a write has failed, and what
\* was to be written then is owed for good.
Telling ==
  /\ told \subseteq Fds
  /\ ended \in Peers \cup {NoPeer}
  /\ alive => ended = NoPeer
  /\ \A p \in Peers : Owed(p) >= 0
  /\ \A fd \in told :
       edition = "serial" /\ fdt[fd] # NoPeer /\ peer[fdt[fd]] = "reset" /\ Owed(fdt[fd]) >= 1
  /\ PipeAfterReset

LEMMA OwedType ==
  ASSUME EchoInv, NEW p \in Peers
  PROVE  /\ rd[p] \in Nat /\ Len(echoed[p]) \in Nat /\ Len(buf) \in Nat
         /\ Pending(p) \in Nat /\ Owed(p) \in Int
<1>1. rd[p] \in Nat /\ Len(echoed[p]) \in Nat /\ Len(buf) \in Nat
  BY LenProperties DEF EchoInv, Typed
<1>2. Pending(p) \in Nat
  BY <1>1 DEF Pending
<1> QED
  BY <1>1, <1>2 DEF Owed

LEMMA OwedTypeNext ==
  ASSUME EchoInv', NEW p \in Peers
  PROVE  /\ rd'[p] \in Nat /\ Len(echoed'[p]) \in Nat
         /\ Pending(p)' \in Nat /\ Owed(p)' \in Int
<1>1. rd'[p] \in Nat /\ Len(echoed'[p]) \in Nat /\ Len(buf') \in Nat
  BY LenProperties DEF EchoInv, Typed
<1>2. Pending(p)' \in Nat
  BY <1>1 DEF Pending
<1> QED
  BY <1>1, <1>2 DEF Owed

\* A step after which nothing less is owed, and to no other client.
LEMMA TellingKept ==
  ASSUME EchoInv, Telling, alive, EchoInv', UNCHANGED <<edition, ended>>, told' \subseteq told,
         \A fd \in told' : fdt'[fd] = fdt[fd],
         \A p \in Peers : peer[p] = "reset" => peer'[p] = "reset",
         \A p \in Peers : Owed(p)' >= Owed(p)
  PROVE  Telling'
<1>1. ended = NoPeer /\ told' \subseteq Fds /\ Fds' = Fds
  BY DEF Telling, Fds
<1>2. ASSUME NEW p \in Peers PROVE Owed(p)' >= 0
  <2>1. Owed(p) \in Int /\ Owed(p)' \in Int /\ Owed(p) >= 0 /\ Owed(p)' >= Owed(p)
    BY OwedType, OwedTypeNext DEF Telling
  <2> QED
    BY <2>1
<1>3. ASSUME NEW fd \in told'
      PROVE  /\ edition' = "serial" /\ fdt'[fd] # NoPeer /\ peer'[fdt'[fd]] = "reset"
             /\ Owed(fdt[fd])' >= 1
  <2>1. /\ edition = "serial" /\ fdt[fd] # NoPeer /\ peer[fdt[fd]] = "reset" /\ Owed(fdt[fd]) >= 1
        /\ fdt'[fd] = fdt[fd] /\ fd \in Fds
    BY DEF Telling
  <2> PICK q \in Peers : q = fdt[fd]
    BY <2>1 DEF EchoInv, Typed
  <2>2. Owed(q) \in Int /\ Owed(q)' \in Int /\ Owed(q)' >= Owed(q) /\ Owed(q) >= 1
    BY <2>1, OwedType, OwedTypeNext
  <2>3. Owed(q)' >= 1 /\ peer'[q] = "reset"
    BY <2>1, <2>2
  <2> QED
    BY <2>1, <2>3 DEF Owed, Pending, Holding
<1> QED
  BY <1>1, <1>2, <1>3, EchoAssumption DEF Telling, PipeAfterReset

\* What is in the buffer stays there, or is given up.
LEMMA OwedKept ==
  ASSUME EchoInv, EchoInv', UNCHANGED <<rd, echoed>>,
         UNCHANGED <<pc, cur, buf, fdt>> \/ pc' # "write"
  PROVE  \A p \in Peers : Owed(p)' >= Owed(p)
<1> TAKE p \in Peers
<1>1. rd[p] \in Nat /\ Len(echoed[p]) \in Nat /\ Pending(p) \in Nat
  BY OwedType
<1>2. Pending(p)' = Pending(p) \/ Pending(p)' = 0
  BY DEF Pending, Holding
<1> QED
  BY <1>1, <1>2 DEF Owed

LEMMA TellingStep ==
  ASSUME EchoInv, Telling, EchoInv', Next
  PROVE  Telling'
<1>0. alive /\ ended = NoPeer
  BY DEF Next, Telling
<1>1. ASSUME NEW p \in Peers, Peer(p) PROVE Telling'
  <2>1. UNCHANGED <<edition, ended, told, rd, echoed, pc, cur, buf, fdt>>
    BY <1>1 DEF Peer, Connect, Send, Leave, life, sets
  <2>2. \A q \in Peers : peer[q] = "reset" => peer'[q] = "reset"
    BY <1>1 DEF Peer, Connect, Send, Leave, EchoInv, Typed
  <2>3. \A q \in Peers : Owed(q)' >= Owed(q)
    BY <2>1, OwedKept
  <2> QED
    BY <1>0, <2>1, <2>2, <2>3, TellingKept
<1>2. CASE Interrupt
  <2>1. UNCHANGED <<edition, ended, peer, rd, echoed>> /\ told' = {} /\ pc' # "write"
    BY <1>2 DEF Interrupt, Exit, net
  <2>2. \A q \in Peers : Owed(q)' >= Owed(q)
    BY <2>1, OwedKept
  <2> QED
    BY <1>0, <2>1, <2>2, TellingKept
<1>3. ASSUME \/ Select \/ ScanEnd
             \/ \E fd : Passed(fd) /\ ScanAt(fd)
      PROVE  Telling'
  <2>1. UNCHANGED <<edition, ended, peer, told, rd, echoed, fdt>> /\ pc' # "write"
    BY <1>3 DEF Select, ScanEnd, Passed, ScanAt, life, net, sets
  <2>2. \A q \in Peers : Owed(q)' >= Owed(q)
    BY <2>1, OwedKept
  <2> QED
    BY <1>0, <2>1, <2>2, TellingKept
<1>4. ASSUME NEW fd \in Fds, Accept(fd) PROVE Telling'
  <2>1. /\ UNCHANGED <<edition, ended, peer, told, rd, echoed>> /\ pc' # "write" /\ fd \in FreeFds
        /\ fdt' = [fdt EXCEPT ![fd] = Head(backlog)]
    BY <1>4 DEF Accept, ScanAt, life, net
  <2>2. \A f \in told' : fdt'[f] = fdt[f]
    BY <2>1 DEF Telling, FreeFds, EchoInv, Typed
  <2>3. \A q \in Peers : Owed(q)' >= Owed(q)
    BY <2>1, OwedKept
  <2> QED
    BY <1>0, <2>1, <2>2, <2>3, TellingKept
<1>5. ASSUME NEW fd, ScanAt(fd), Closed(fd) PROVE Telling'
  <2>1. /\ UNCHANGED <<edition, ended, peer, rd, echoed>> /\ pc' # "write" /\ told' = told \ {fd}
        /\ fdt' = [fdt EXCEPT ![fd] = NoPeer]
    BY <1>5 DEF Closed, Close, ScanAt, life, net
  <2>2. \A f \in told' : fdt'[f] = fdt[f]
    BY <2>1 DEF Telling, EchoInv, Typed
  <2>3. \A q \in Peers : Owed(q)' >= Owed(q)
    BY <2>1, OwedKept
  <2> QED
    BY <1>0, <2>1, <2>2, <2>3, TellingKept
<1>6. ASSUME NEW fd \in Fds, NEW n \in 1 .. MaxRead, Read(fd, n) PROVE Telling'
  <2> DEFINE p == fdt[fd]
  <2>1. /\ UNCHANGED <<edition, ended, peer, echoed>> /\ pc = "scan" /\ ScanAt(fd) /\ fd # ServerFd
        /\ rd' = [rd EXCEPT ![p] = rd[p] + n] /\ rd[p] + n <= Len(sent[p])
    BY <1>6 DEF Read, ScanAt, life, net
  <2>2. n \in Nat /\ n >= 1
    BY EchoAssumption
  <2>3. fd \in Range(reads) /\ p \in Peers
    BY <2>1, ScanFacts, ClientOf DEF EchoInv
  <2>4. \A q \in Peers : /\ Pending(q) = 0 /\ rd[q] \in Nat /\ rd'[q] \in Nat
                         /\ rd'[q] = IF q = p THEN rd[q] + n ELSE rd[q]
                         /\ Len(echoed[q]) \in Nat
    <3>1. \A q \in Peers : Pending(q) = 0
      BY <2>1 DEF Pending, Holding
    <3>2. rd \in [Peers -> Nat]
      BY DEF EchoInv, Typed
    <3> QED
      BY <2>1, <2>2, <3>1, <3>2, OwedType
  <2>5. CASE Close(fd, Tail(todo)) /\ pc' = "scan" /\ UNCHANGED <<cur, buf>>
    <3>1. told' = told \ {fd} /\ fdt' = [fdt EXCEPT ![fd] = NoPeer]
      BY <2>5 DEF Close
    <3>2. \A f \in told' : fdt'[f] = fdt[f]
      BY <3>1 DEF Telling, EchoInv, Typed
    <3>3. \A q \in Peers : Pending(q)' = 0
      BY <2>5 DEF Pending, Holding
    <3> HIDE DEF p
    <3>4. \A q \in Peers : Owed(q)' >= Owed(q)
      BY <2>1, <2>2, <2>4, <3>3 DEF Owed
    <3> QED
      BY <1>0, <2>1, <3>1, <3>2, <3>4, TellingKept
  <2>6. CASE buf' = Words(fd, n) /\ cur' = fd /\ todo' = Tail(todo) /\ pc' = "write" /\ UNCHANGED <<fdt, sets>>
    <3>1. told' = told /\ fdt' = fdt
      BY <2>6 DEF sets
    <3>2. Len(buf') = n
      <4>1. sent[p] \in Seq({Quit, Text}) /\ Len(sent[p]) \in Nat /\ rd[p] \in Nat
        BY <2>3, LenProperties DEF EchoInv, Typed
      <4> DEFINE a == rd[p] + 1
                 b == rd[p] + n
                 t == sent[p]
      <4>2. a \in Int /\ b \in Int /\ a <= b /\ b - a + 1 = n /\ \A i \in a .. b : i \in 1 .. Len(t)
        BY <2>1, <2>2, <4>1
      <4>3. buf' = SubSeq(t, a, b)
        BY <2>6 DEF Words
      <4>4. \A i \in a .. b : t[i] \in {Quit, Text}
        BY <4>1, <4>2, ElementOfSeq
      <4> HIDE DEF a, b, t
      <4> QED
        BY <4>2, <4>3, <4>4, SubSeqProperties
    <3>3. \A q \in Peers : Pending(q)' = IF q = p THEN n ELSE 0
      BY <2>6, <3>1, <3>2 DEF Pending, Holding
    <3> HIDE DEF p
    <3>4. \A q \in Peers : Owed(q)' >= Owed(q)
      BY <2>1, <2>2, <2>4, <3>3 DEF Owed
    <3> QED
      BY <1>0, <2>1, <3>1, <3>4, TellingKept
  <2> QED
    BY <1>6, <2>5, <2>6 DEF Read
<1>7. CASE Write
  <2> DEFINE p == fdt[cur]
  <2>1. /\ UNCHANGED <<edition, ended, peer, rd, told, fdt>> /\ pc = "write" /\ pc' = "scan"
        /\ echoed' = [echoed EXCEPT ![p] = echoed[p] \o buf]
    BY <1>7 DEF Write, Written, life, net, sets
  <2>2. cur \in Range(reads) /\ cur # ServerFd /\ p \in Peers
    BY <2>1, ClientOf DEF EchoInv, Scanning
  <2>3. /\ echoed[p] \in Seq({Quit, Text}) /\ buf \in Seq({Quit, Text})
        /\ echoed \in [Peers -> Seq({Quit, Text})]
    BY <2>2 DEF EchoInv, Typed
  <2>4. Len(echoed[p] \o buf) = Len(echoed[p]) + Len(buf)
    BY <2>3, ConcatProperties
  <2>5. \A q \in Peers : /\ Pending(q)' = 0
                         /\ Pending(q) = IF q = p THEN Len(buf) ELSE 0
                         /\ Len(echoed'[q]) = IF q = p THEN Len(echoed[q]) + Len(buf) ELSE Len(echoed[q])
    BY <2>1, <2>2, <2>3, <2>4 DEF Pending, Holding
  <2>6. \A q \in Peers : rd[q] \in Nat /\ Len(echoed[q]) \in Nat /\ Len(buf) \in Nat
    BY OwedType
  <2> HIDE DEF p
  <2>7. \A q \in Peers : Owed(q)' >= Owed(q)
    BY <2>1, <2>5, <2>6 DEF Owed
  <2> QED
    BY <1>0, <2>1, <2>7, TellingKept
<1>8. CASE WriteError
  <2>1. /\ UNCHANGED <<edition, ended, peer, rd, echoed>> /\ pc = "write" /\ pc' = "scan"
        /\ Failed(fdt[cur])
    BY <1>8 DEF WriteError, Refused, Written, life, net
  <2>2. \A q \in Peers : Owed(q)' >= Owed(q)
    BY <2>1, OwedKept
  <2>3. CASE edition # "serial"
    <3>1. told' = told \ {cur} /\ fdt' = [fdt EXCEPT ![cur] = NoPeer]
      BY <1>8, <2>3 DEF WriteError, Close
    <3>2. \A f \in told' : fdt'[f] = fdt[f]
      BY <3>1 DEF Telling, EchoInv, Typed
    <3> QED
      BY <1>0, <2>1, <2>2, <3>1, <3>2, TellingKept
  <2>4. CASE edition = "serial"
    <3>1. told' = told \cup {cur} /\ fdt' = fdt
      BY <1>8, <2>4 DEF WriteError
    <3> PICK p \in Peers : p = fdt[cur]
      BY <2>1, ClientOf DEF EchoInv, Scanning
    <3>2. cur \in Fds /\ Fds' = Fds /\ p # NoPeer /\ peer[p] = "reset"
      BY <2>1, <2>4, EchoAssumption, ClientOf DEF EchoInv, Scanning, Failed, Fds
    <3>3. Len(buf) >= 1 /\ Pending(p) = Len(buf) /\ Pending(p)' = 0
      <4>1. buf \in Seq({Quit, Text}) /\ buf # <<>>
        BY <2>1 DEF EchoInv, Typed, Scanning
      <4>2. Len(buf) \in Nat \ {0}
        BY <4>1, EmptySeq, LenProperties
      <4> QED
        BY <2>1, <4>2 DEF Pending, Holding
    <3>4. /\ rd[p] \in Nat /\ Len(echoed[p]) \in Nat /\ Len(buf) \in Nat
          /\ Owed(p) \in Int /\ Owed(p) >= 0
      BY OwedType, OwedTypeNext DEF Telling
    <3>5. Owed(p)' >= 1
      <4>1. rd[p] - (Len(echoed[p]) + Len(buf)) >= 0
        BY <3>3, <3>4 DEF Owed
      <4>2. Owed(p)' = rd[p] - (Len(echoed[p]) + 0)
        BY <2>1, <3>3 DEF Owed
      <4> QED
        BY <3>3, <3>4, <4>1, <4>2
    <3>6. ASSUME NEW q \in Peers PROVE Owed(q)' >= 0
      <4>1. Owed(q) \in Int /\ Owed(q)' \in Int /\ Owed(q) >= 0 /\ Owed(q)' >= Owed(q)
        BY <2>2, OwedType, OwedTypeNext DEF Telling
      <4> QED
        BY <4>1
    <3>7. ASSUME NEW f \in told'
          PROVE  /\ edition' = "serial" /\ fdt'[f] # NoPeer /\ peer'[fdt'[f]] = "reset"
                 /\ Owed(fdt[f])' >= 1
      <4>1. CASE f = cur
        BY <2>1, <2>4, <3>1, <3>2, <3>5, <4>1 DEF Owed, Pending, Holding
      <4>2. CASE f # cur
        <5>1. f \in told /\ f \in Fds /\ fdt[f] # NoPeer /\ peer[fdt[f]] = "reset" /\ Owed(fdt[f]) >= 1
          BY <3>1, <4>2 DEF Telling
        <5> PICK q \in Peers : q = fdt[f]
          BY <5>1 DEF EchoInv, Typed
        <5>2. Owed(q) \in Int /\ Owed(q)' \in Int /\ Owed(q) >= 1 /\ Owed(q)' >= Owed(q)
          BY <2>2, <5>1, OwedType, OwedTypeNext
        <5>3. Owed(q)' >= 1
          BY <5>2
        <5> QED
          BY <2>1, <2>4, <3>1, <5>1, <5>3 DEF Owed, Pending, Holding
      <4> QED
        BY <4>1, <4>2
    <3> QED
      BY <1>0, <2>1, <3>1, <3>2, <3>6, <3>7 DEF Telling, PipeAfterReset
  <2> QED
    BY <2>3, <2>4
<1>9. CASE WritePipe
  <2>1. /\ UNCHANGED <<edition, peer, rd, echoed>> /\ pc = "write" /\ pc' # "write"
        /\ ended' = fdt[cur] /\ told' = {} /\ alive' = FALSE /\ edition # "winsock"
        /\ peer[fdt[cur]] = "broken" \/ cur \in told
    BY <1>9 DEF WritePipe, Exit, net
  <2> PICK p \in Peers : p = fdt[cur]
    BY <2>1, ClientOf DEF EchoInv, Scanning
  <2>2. ASSUME NEW q \in Peers PROVE Owed(q)' >= 0
    <3>1. \A r \in Peers : Owed(r)' >= Owed(r)
      BY <2>1, OwedKept
    <3>2. Owed(q) \in Int /\ Owed(q)' \in Int /\ Owed(q) >= 0 /\ Owed(q)' >= Owed(q)
      BY <3>1, OwedType, OwedTypeNext DEF Telling
    <3> QED
      BY <3>2
  <2>3. ASSUME cur \in told
        PROVE  edition = "serial" /\ peer[p] = "reset" /\ rd[p] >= Len(echoed[p]) + 2
    <3>1. edition = "serial" /\ peer[p] = "reset" /\ Owed(p) >= 1
      BY <2>3 DEF Telling
    <3>2. Pending(p) = Len(buf) /\ Len(buf) \in Nat \ {0}
      <4>1. buf \in Seq({Quit, Text}) /\ buf # <<>>
        BY <2>1 DEF EchoInv, Typed, Scanning
      <4> QED
        BY <2>1, <4>1, EmptySeq, LenProperties DEF Pending, Holding
    <3>3. rd[p] \in Nat /\ Len(echoed[p]) \in Nat
      BY OwedType
    <3>4. rd[p] - (Len(echoed[p]) + Len(buf)) >= 1
      BY <3>1, <3>2 DEF Owed
    <3> QED
      BY <3>1, <3>2, <3>3, <3>4
  <2>4. PipeAfterReset'
    BY <2>1, <2>3 DEF PipeAfterReset
  <2> QED
    BY <2>1, <2>2, <2>4 DEF Telling
<1> QED
  <2>1. ASSUME NEW fd \in Fds, ReadEof(fd) \/ ReadError(fd) PROVE Telling'
    BY <1>3, <1>5, <2>1 DEF ReadEof, ReadError, Drained
  <2>2. CASE AcceptFails
    BY <1>2, <1>3, <2>2 DEF AcceptFails
  <2> QED
    BY <1>1, <1>2, <1>3, <1>4, <1>6, <1>7, <1>8, <1>9, <2>1, <2>2 DEF Next, ServerStep

LEMMA TellingInit ==
  ASSUME Init
  PROVE  Telling
<1>1. told = {} /\ ended = NoPeer
  BY DEF Init
<1>2. ASSUME NEW p \in Peers PROVE Owed(p) >= 0
  <2>1. rd[p] = 0 /\ echoed[p] = <<>> /\ ~Holding(p)
    BY DEF Init, Holding
  <2>2. Len(echoed[p]) = 0
    BY <2>1, EmptySeq
  <2> QED
    BY <2>1, <2>2 DEF Owed, Pending
<1> QED
  BY <1>1, <1>2 DEF Telling, PipeAfterReset

LEMMA TellingAlways == Spec => [](EchoInv /\ Telling)
<1>1. Init => EchoInv /\ Telling
  BY InitInv, TellingInit
<1>2. (EchoInv /\ Telling) /\ [Next]_vars => (EchoInv /\ Telling)'
  <2> SUFFICES ASSUME EchoInv, Telling, [Next]_vars PROVE EchoInv' /\ Telling'
    OBVIOUS
  <2>1. EchoInv'
    BY StepInv
  <2>2. CASE Next
    BY <2>1, <2>2, TellingStep
  <2>3. CASE UNCHANGED vars
    <3>1. UNCHANGED <<edition, alive, ended, told, peer, rd, echoed, fdt, pc, cur, buf>>
      BY <2>3 DEF vars, life, net, sets
    <3> QED
      BY <2>1, <3>1 DEF Telling, PipeAfterReset, Owed, Pending, Holding, Fds
  <2> QED
    BY <2>1, <2>2, <2>3
<1> QED
  BY <1>1, <1>2, PTL DEF Spec

\* SIGPIPE ends a server only if a client resets a connection it had closed, or in
\* the edition that does not look at the result of send() if two words or more of
\* the client that resets it were still to be written back.
THEOREM PipeAfterResetHolds == Spec => []PipeAfterReset
<1>1. Telling => PipeAfterReset
  BY DEF Telling
<1> QED
  BY <1>1, TellingAlways, PTL

\* The types of TypeOK, for any constants; with them: the thread that is about to
\* write in client_handler() has an open descriptor and something in buf.
THEOREM TypeCorrect == Spec => []TypeOK
<1>1. EchoInv /\ Telling => TypeOK
  <2> SUFFICES ASSUME EchoInv, Telling PROVE TypeOK
    OBVIOUS
  <2>1. pc = "write" => fdt[cur] # NoPeer
    BY ReadsFacts, EchoAssumption DEF EchoInv, Scanning
  <2>2. \A p \in Peers : sent[p] \in Seq({Quit, Text}) /\ rd[p] \in 0 .. Len(sent[p])
    BY LenProperties DEF EchoInv, Typed
  <2> QED
    BY <2>1, <2>2 DEF EchoInv, Typed, Scanning, Telling, TypeOK
<1> QED
  BY <1>1, TellingAlways, PTL

\* The fd_set, the open descriptors and max agree at every step of the loop of
\* main: whatever is accepted, closed and handed out again while it scans, no
\* descriptor is in the set that is closed, none that is open is missing (but those
\* a full Winsock set had no room for) and none is above max; no client has two.
THEOREM RegisteredHolds == Spec => []Registered
<1>1. EchoInv => Registered
  BY DEF EchoInv
<1> QED
  BY <1>1, Invariance, PTL

\* However the words arrive and are cut into reads, and whichever of the others are
\* accepted, closed or reset in between, what client_handler() has written back to
\* a client is a prefix of what that client sent.
THEOREM EchoesPrefixHolds == Spec => []EchoesPrefix
<1>1. EchoInv => EchoesPrefix
  <2> SUFFICES ASSUME EchoInv, NEW p \in Peers PROVE IsPrefix(echoed[p], sent[p])
    BY DEF EchoesPrefix
  <2> DEFINE s == echoed[p]
             t == sent[p]
             n == Len(s)
             S == {Quit, Text}
  <2>1. /\ s \in Seq(S) /\ t \in Seq(S) /\ n \in Nat /\ Len(t) \in Nat
        /\ n <= Len(t) /\ \A i \in 1 .. n : s[i] = t[i]
    BY LenProperties DEF EchoInv, Typed, Echoing
  <2>2. \A i \in 1 .. n : t[i] \in S
    BY <2>1, ElementOfSeq
  <2> HIDE DEF s, t, S
  <2>3. /\ SubSeq(t, 1, n) \in Seq(S)
        /\ Len(SubSeq(t, 1, n)) = n
        /\ \A i \in 1 .. n : SubSeq(t, 1, n)[i] = t[1 + i - 1]
    <3>1. 1 \in Int /\ n \in Int /\ n - 1 + 1 = n /\ (1 <= n \/ n = 0)
      BY <2>1
    <3> QED
      BY <2>2, <3>1, SubSeqProperties
  <2>4. s = SubSeq(t, 1, n)
    <3>1. \A i \in 1 .. n : s[i] = SubSeq(t, 1, n)[i]
      <4>1. \A i \in 1 .. n : 1 + i - 1 = i
        BY <2>1
      <4> QED
        BY <2>1, <2>3, <4>1
    <3> QED
      BY <2>1, <2>3, <3>1, SeqEqual
  <2> QED
    BY <2>1, <2>4 DEF IsPrefix, s, t
<1> QED
  BY <1>1, Invariance, PTL
================================================================================
