--------------------------- MODULE ResolverProofs ---------------------------
(***************************************************************************)
(* Proofs about the pure functions of DnsMessage, for inputs of every length, *)
(* and about Resolver.                                                      *)
(***************************************************************************)
EXTENDS Resolver, DnsInputs, WellFoundedInduction, TLAPS

-----------------------------------------------------------------------------
\* Induction over the steps of a loop.  The induction theorems of the library
\* take an operator; the least-number principle needs only a set.

\* A set of natural numbers that is not empty has a least element.
LEMMA LeastNat ==
  ASSUME NEW S \in SUBSET Nat, S # {}
  PROVE  \E m \in S : \A k \in S : m <= k
<1>1. PICK m \in S : \A k \in S : <<k, m>> \notin OpToRel(<, Nat)
  BY NatLessThanWellFounded, WFMin, Zenon
<1>2. ASSUME NEW k \in S PROVE m <= k
  <2>1. <<k, m>> \notin {ss \in Nat \X Nat : ss[1] < ss[2]}
    BY <1>1 DEF OpToRel
  <2> QED BY <2>1
<1> QED BY <1>2

\* A set that contains 0 and with k also k + 1 contains every natural number.
LEMMA NatSetInduction ==
  ASSUME NEW S, 0 \in S, \A k \in Nat : k \in S => k + 1 \in S
  PROVE  Nat \subseteq S
<1> DEFINE T == Nat \ S
<1> SUFFICES ASSUME T # {} PROVE FALSE
  OBVIOUS
<1>1. PICK m \in T : \A k \in T : m <= k
  BY LeastNat
<1> QED BY <1>1

\* f gives the states of a loop: it starts with base, and round i takes the state
\* v to step[i][v].
IsRun(f, rounds, base, step) ==
  f[0] = base /\ \A i \in 1..rounds : f[i] = step[i][f[i - 1]]

\* Such states exist: a function that is defined along the rounds is well defined.
LEMMA LoopRuns ==
  ASSUME NEW rounds \in Nat, NEW X, NEW base \in X, NEW step \in [1..rounds -> [X -> X]]
  PROVE  \E f \in [0..rounds -> X] : IsRun(f, rounds, base, step)
<1> DEFINE S == {k \in Nat : k <= rounds =>
                   \E f \in [0..k -> X] : IsRun(f, k, base, step)}
<1>1. 0 \in S
  <2> DEFINE f == [i \in 0..0 |-> base]
  <2>1. f \in [0..0 -> X] /\ IsRun(f, 0, base, step)
    BY DEF IsRun
  <2> QED BY <2>1
<1>2. ASSUME NEW k \in Nat, k \in S PROVE k + 1 \in S
  <2> SUFFICES ASSUME k + 1 <= rounds
               PROVE  \E f \in [0..(k + 1) -> X] : IsRun(f, k + 1, base, step)
    OBVIOUS
  <2>1. PICK f \in [0..k -> X] : IsRun(f, k, base, step)
    BY <1>2
  <2> DEFINE g == [i \in 0..(k + 1) |-> IF i <= k THEN f[i] ELSE step[i][f[i - 1]]]
  <2>2. g \in [0..(k + 1) -> X]
    OBVIOUS
  <2>3. g[0] = base
    BY <2>1 DEF IsRun
  <2>4. ASSUME NEW i \in 1..(k + 1) PROVE g[i] = step[i][g[i - 1]]
    <3>1. CASE i <= k
      BY <2>1, <3>1 DEF IsRun
    <3>2. CASE i = k + 1
      BY <2>1, <3>2
    <3> QED BY <3>1, <3>2
  <2> HIDE DEF g
  <2>5. IsRun(g, k + 1, base, step)
    BY <2>3, <2>4 DEF IsRun
  <2> QED BY <2>2, <2>5
<1> HIDE DEF S
<1>3. rounds \in S
  BY <1>1, <1>2, NatSetInduction
<1> QED BY <1>3 DEF S

-----------------------------------------------------------------------------
\* The loops that append

\* f gives the lists that the loop of appended has built after each round.
Builds(f, s, I) ==
  /\ f[0] = <<>>
  /\ \A i \in 1..Len(s) :
       f[i] = IF i \in I THEN Append(f[i - 1], s[i]) ELSE f[i - 1]
  /\ appended(s, I) = f[Len(s)]

\* There are such lists.
LEMMA AppendedRounds ==
  ASSUME NEW X, NEW s \in Seq(X), NEW I
  PROVE  \E f \in [0..Len(s) -> Seq(X)] : Builds(f, s, I)
<1> DEFINE L == Len(s)
           next(v, i) == IF i \in I THEN Append(v, s[i]) ELSE v
           step == [i \in 1..L |-> [v \in Seq(X) |-> next(v, i)]]
           IsBuilt(f) == f = [i \in 0..L |-> IF i = 0 THEN <<>> ELSE next(f[i - 1], i)]
           built == CHOOSE f : IsBuilt(f)
<1>1. L \in Nat /\ <<>> \in Seq(X)
  OBVIOUS
<1>2. \A i \in 1..L : \A v \in Seq(X) : next(v, i) \in Seq(X)
  OBVIOUS
<1>3. appended(s, I) = built[L]
  BY DEF appended
<1> HIDE DEF L, next
<1>4. step \in [1..L -> [Seq(X) -> Seq(X)]]
  BY <1>2
<1>5. PICK f \in [0..L -> Seq(X)] : IsRun(f, L, <<>>, step)
  <2> HIDE DEF step
  <2> QED BY <1>1, <1>4, LoopRuns
<1>6. \A i \in 1..L : f[i] = next(f[i - 1], i)
  <2>1. \A i \in 1..L : f[i - 1] \in Seq(X)
    BY <1>1
  <2> QED BY <1>5, <2>1 DEF IsRun
<1>7. IsBuilt(f)
  <2>1. \A i \in 0..L : f[i] = IF i = 0 THEN <<>> ELSE next(f[i - 1], i)
    BY <1>1, <1>5, <1>6 DEF IsRun
  <2> QED BY <2>1
<1>8. IsBuilt(built)
  BY <1>7
<1> HIDE DEF built
<1>9. built[0] = <<>> /\ \A i \in 1..L : built[i] = next(built[i - 1], i)
  BY <1>1, <1>8
<1>10. \A i \in 0..L : built[i] = f[i]
  <2> DEFINE S == {k \in Nat : k <= L => built[k] = f[k]}
  <2>1. 0 \in S
    BY <1>5, <1>9 DEF IsRun
  <2>2. ASSUME NEW k \in Nat, k \in S PROVE k + 1 \in S
    BY <1>1, <1>6, <1>9, <2>2
  <2> HIDE DEF S
  <2>3. Nat \subseteq S
    BY <2>1, <2>2, NatSetInduction
  <2> QED BY <1>1, <2>3 DEF S
<1>11. appended(s, I) = f[L]
  BY <1>1, <1>3, <1>10
<1>12. \A i \in 1..L :
         f[i] = IF i \in I THEN Append(f[i - 1], s[i]) ELSE f[i - 1]
  BY <1>6 DEF next
<1> QED BY <1>5, <1>11, <1>12 DEF L, Builds, IsRun

\* What such a loop builds is a list of the chosen elements, in order.
LEMMA AppendedPicks ==
  ASSUME NEW X, NEW s \in Seq(X), NEW I \in SUBSET (1..Len(s))
  PROVE  /\ appended(s, I) \in Seq(X)
         /\ \E at : Picks(appended(s, I), s, I, at)
<1>1. PICK f \in [0..Len(s) -> Seq(X)] : Builds(f, s, I)
  BY AppendedRounds
<1> DEFINE Upto(k) == I \cap (1..k)
           S == {k \in Nat : k <= Len(s) => \E at : Picks(f[k], s, Upto(k), at)}
<1>2. 0 \in S
  <2>1. Picks(f[0], s, Upto(0), <<>>)
    BY <1>1 DEF Picks, Builds
  <2> QED BY <2>1
<1>3. ASSUME NEW k \in Nat, k \in S PROVE k + 1 \in S
  <2> SUFFICES ASSUME k + 1 <= Len(s)
               PROVE  \E at : Picks(f[k + 1], s, Upto(k + 1), at)
    OBVIOUS
  <2> HIDE DEF Upto
  <2>1. PICK at : Picks(f[k], s, Upto(k), at)
    <3>1. k <= Len(s)
      OBVIOUS
    <3> QED BY <1>3, <3>1, Zenon
  <2> USE DEF Upto
  <2>2. f[k] \in Seq(X) /\ s[k + 1] \in X /\ k + 1 \in 1..Len(s)
    OBVIOUS
  <2>3. CASE k + 1 \in I
    <3> DEFINE r == f[k]
               g == [j \in 1..(Len(r) + 1) |-> IF j <= Len(r) THEN at[j] ELSE k + 1]
    <3>1. f[k + 1] = Append(r, s[k + 1])
      <4>1. (k + 1) - 1 = k
        OBVIOUS
      <4> QED BY <1>1, <2>2, <2>3, <4>1, Zenon DEF Builds
    <3>2. /\ Len(f[k + 1]) = Len(r) + 1 /\ Len(r) \in Nat
          /\ f[k + 1][Len(r) + 1] = s[k + 1]
          /\ \A j \in 1..Len(r) : f[k + 1][j] = r[j]
      BY <2>2, <3>1
    <3>3. \A j \in 1..Len(r) : at[j] \in Upto(k) /\ r[j] = s[at[j]]
      BY <2>1 DEF Picks
    <3> HIDE DEF r
    <3>4. g \in [1..Len(f[k + 1]) -> Upto(k + 1)]
      BY <2>3, <3>2, <3>3
    <3>5. \A j \in 1..Len(f[k + 1]) : f[k + 1][j] = s[g[j]]
      BY <3>2, <3>3
    <3>6. \A j, l \in 1..Len(f[k + 1]) : j < l => g[j] < g[l]
      <4>1. \A j, l \in 1..Len(r) : j < l => at[j] < at[l]
        BY <2>1 DEF Picks, r
      <4> QED BY <3>2, <3>3, <4>1
    <3>7. \A i \in Upto(k + 1) : \E j \in 1..Len(f[k + 1]) : g[j] = i
      <4>1. \A i \in Upto(k) : \E j \in 1..Len(r) : at[j] = i
        BY <2>1 DEF Picks, r
      <4>2. ASSUME NEW i \in Upto(k + 1) PROVE \E j \in 1..Len(f[k + 1]) : g[j] = i
        <5>1. CASE i \in Upto(k)
          <6>1. PICK j \in 1..Len(r) : at[j] = i
            BY <4>1, <5>1
          <6>2. j \in 1..Len(f[k + 1]) /\ g[j] = i
            BY <3>2, <6>1
          <6> QED BY <6>2
        <5>2. CASE i \notin Upto(k)
          <6>1. i = k + 1
            BY <5>2
          <6>2. Len(r) + 1 \in 1..Len(f[k + 1]) /\ g[Len(r) + 1] = k + 1
            BY <3>2
          <6> QED BY <6>1, <6>2
        <5> QED BY <5>1, <5>2
      <4> QED BY <4>2
    <3> HIDE DEF g
    <3> QED BY <3>4, <3>5, <3>6, <3>7 DEF Picks
  <2>4. CASE k + 1 \notin I
    <3>1. f[k + 1] = f[k]
      BY <1>1, <2>2, <2>4 DEF Builds
    <3>2. Upto(k + 1) = Upto(k)
      BY <2>4
    <3> QED BY <2>1, <3>1, <3>2
  <2> QED BY <2>3, <2>4
<1> HIDE DEF S
<1>4. Len(s) \in S
  BY <1>2, <1>3, NatSetInduction
<1>5. Upto(Len(s)) = I
  OBVIOUS
<1>6. Len(s) <= Len(s) /\ Len(s) \in 0..Len(s)
  OBVIOUS
<1>7. \E at : Picks(f[Len(s)], s, I, at)
  BY <1>4, <1>5, <1>6, Zenon DEF S
<1>8. appended(s, I) = f[Len(s)]
  BY <1>1 DEF Builds
<1> QED BY <1>6, <1>7, <1>8

\* The elements of what such a loop builds.
LEMMA AppendedRange ==
  ASSUME NEW X, NEW s \in Seq(X), NEW I \in SUBSET (1..Len(s))
  PROVE  /\ appended(s, I) \in Seq(X)
         /\ ToSet(appended(s, I)) = {s[i] : i \in I}
         /\ appended(s, I) = <<>> <=> I = {}
<1> DEFINE r == appended(s, I)
<1>1. r \in Seq(X)
  BY AppendedPicks
<1>2. PICK at : Picks(r, s, I, at)
  BY AppendedPicks
<1> HIDE DEF r
<1>3. DOMAIN r = 1..Len(r) /\ Len(r) \in Nat
  BY <1>1
<1>4. ASSUME NEW k \in 1..Len(r) PROVE r[k] \in {s[i] : i \in I}
  BY <1>2 DEF Picks
<1>5. ASSUME NEW i \in I PROVE \E k \in 1..Len(r) : r[k] = s[i]
  BY <1>2 DEF Picks
<1>6. ToSet(r) = {s[i] : i \in I}
  BY <1>3, <1>4, <1>5 DEF ToSet
<1>7. r = <<>> <=> I = {}
  BY <1>1, <1>3, <1>4, <1>5
<1> QED BY <1>1, <1>6, <1>7 DEF r

-----------------------------------------------------------------------------
\* resolverDedupAndSort

\* Every address has a first occurrence.
LEMMA FirstExists ==
  ASSUME NEW X, NEW addrs \in Seq(X), NEW i \in 1..Len(addrs)
  PROVE  \E j \in firsts(addrs) : addrs[j] = addrs[i]
<1> DEFINE S == {j \in 1..Len(addrs) : addrs[j] = addrs[i]}
<1>1. S \in SUBSET Nat /\ S # {}
  OBVIOUS
<1>2. PICK j \in S : \A k \in S : j <= k
  BY <1>1, LeastNat
<1>3. \A k \in 1..(j - 1) : addrs[k] # addrs[j]
  BY <1>2
<1> QED BY <1>2, <1>3 DEF firsts

\* ... and only one, which is what FirstIndex returns.
LEMMA FirstUnique ==
  ASSUME NEW X, NEW addrs \in Seq(X), NEW i \in firsts(addrs)
  PROVE  /\ i \in 1..Len(addrs)
         /\ \A j \in firsts(addrs) : addrs[i] = addrs[j] => i = j
         /\ FirstIndex(addrs, addrs[i]) = i
<1> DEFINE First(k) == addrs[k] = addrs[i] /\ \A j \in 1..(k - 1) : addrs[j] # addrs[i]
<1>1. i \in 1..Len(addrs) /\ First(i)
  BY DEF firsts
<1>2. \A k \in 1..Len(addrs) : First(k) => k = i
  BY <1>1
<1>3. \A j \in firsts(addrs) : addrs[i] = addrs[j] => First(j) /\ j \in 1..Len(addrs)
  BY DEF firsts
<1>4. FirstIndex(addrs, addrs[i]) = CHOOSE k \in 1..Len(addrs) : First(k)
  BY DEF FirstIndex
<1> HIDE DEF First
<1>5. FirstIndex(addrs, addrs[i]) = i
  BY <1>1, <1>2, <1>4
<1> QED BY <1>1, <1>2, <1>3, <1>5

\* resolverDedupAndSort (src/resolver.go) returns, for an address list of any
\* length, every address exactly once, the IPv4 addresses first, and within a
\* family in the order of the first occurrences.
THEOREM DedupAndSort ==
  ASSUME NEW X, NEW addrs \in Seq(X)
  PROVE  /\ resolverDedupAndSort(addrs) \in Seq(X)
         /\ DedupedAndSorted(resolverDedupAndSort(addrs), addrs)
<1> DEFINE F4 == {i \in firsts(addrs) : addrs[i] \notin V6}
           F6 == {i \in firsts(addrs) : addrs[i] \in V6}
           a == appended(addrs, F4)
           b == appended(addrs, F6)
           r == a \o b
<1>1. r = resolverDedupAndSort(addrs)
  BY DEF resolverDedupAndSort
<1>2. /\ F4 \in SUBSET (1..Len(addrs)) /\ F6 \in SUBSET (1..Len(addrs))
      /\ F4 \cup F6 = firsts(addrs) /\ F4 \cap F6 = {}
      /\ \A i \in F4 : i \in Nat /\ addrs[i] \notin V6
      /\ \A i \in F6 : i \in Nat /\ addrs[i] \in V6
  BY DEF firsts
<1> HIDE DEF F4, F6
<1>3. /\ a \in Seq(X) /\ ToSet(a) = {addrs[i] : i \in F4}
      /\ b \in Seq(X) /\ ToSet(b) = {addrs[i] : i \in F6}
  BY <1>2, AppendedRange
<1>4. PICK p : Picks(a, addrs, F4, p)
  BY <1>2, AppendedPicks
<1>5. PICK q : Picks(b, addrs, F6, q)
  BY <1>2, AppendedPicks
<1> HIDE DEF a, b
<1>6. /\ r \in Seq(X) /\ Len(r) = Len(a) + Len(b)
      /\ Len(a) \in Nat /\ Len(b) \in Nat
      /\ \A k \in 1..Len(a) : r[k] = a[k]
      /\ \A k \in (Len(a) + 1)..Len(r) : r[k] = b[k - Len(a)] /\ k - Len(a) \in 1..Len(b)
  BY <1>3
<1> DEFINE at(k) == IF k <= Len(a) THEN p[k] ELSE q[k - Len(a)]
<1>7. ASSUME NEW k \in 1..Len(r)
      PROVE  /\ at(k) \in firsts(addrs) /\ r[k] = addrs[at(k)]
             /\ r[k] \in V6 <=> k > Len(a)
  <2>1. CASE k <= Len(a)
    <3>1. k \in 1..Len(a)
      BY <1>6, <2>1
    <3>2. p[k] \in F4 /\ a[k] = addrs[p[k]]
      BY <1>4, <3>1 DEF Picks
    <3>3. p[k] \in firsts(addrs) /\ addrs[p[k]] \notin V6
      BY <1>2, <3>2
    <3>4. r[k] = a[k] /\ at(k) = p[k] /\ ~(k > Len(a))
      BY <1>6, <2>1, <3>1
    <3> HIDE DEF at, r
    <3> QED BY <3>2, <3>3, <3>4
  <2>2. CASE k > Len(a)
    <3>1. k - Len(a) \in 1..Len(b) /\ r[k] = b[k - Len(a)] /\ ~(k <= Len(a))
      BY <1>6, <2>2
    <3>2. q[k - Len(a)] \in F6 /\ b[k - Len(a)] = addrs[q[k - Len(a)]]
      BY <1>5, <3>1 DEF Picks
    <3> QED BY <1>2, <2>2, <3>1, <3>2
  <2> QED BY <1>6, <2>1, <2>2
<1>8. ASSUME NEW j \in 1..Len(r), NEW k \in 1..Len(r), j < k
      PROVE  /\ at(j) # at(k)
             /\ (k <= Len(a) \/ j > Len(a)) => at(j) < at(k)
  <2>1. CASE k <= Len(a)
    <3>1. j \in 1..Len(a) /\ k \in 1..Len(a)
      BY <1>6, <1>8, <2>1
    <3>2. p[j] < p[k] /\ p[j] \in F4 /\ p[k] \in F4
      BY <1>4, <1>8, <3>1 DEF Picks
    <3>3. p[j] \in Nat /\ p[k] \in Nat
      BY <1>2, <3>2
    <3> QED BY <3>1, <3>2, <3>3, <2>1
  <2>2. CASE j > Len(a)
    <3> DEFINE j_ == j - Len(a)
               k_ == k - Len(a)
    <3>1. j_ \in 1..Len(b) /\ k_ \in 1..Len(b) /\ j_ < k_
      BY <1>6, <1>8, <2>2
    <3>2. at(j) = q[j_] /\ at(k) = q[k_]
      BY <1>6, <1>8, <2>2
    <3> HIDE DEF j_, k_, at
    <3>3. q[j_] < q[k_] /\ q[j_] \in F6 /\ q[k_] \in F6
      BY <1>5, <3>1 DEF Picks
    <3>4. q[j_] \in Nat /\ q[k_] \in Nat
      BY <1>2, <3>3
    <3> QED BY <3>2, <3>3, <3>4
  <2>3. CASE j <= Len(a) /\ k > Len(a)
    <3> HIDE DEF r, at
    <3>1. ~(j > Len(a))
      BY <1>6, <2>3
    <3>2. r[j] \notin V6 /\ r[k] \in V6
      BY <1>7, <2>3, <3>1, Zenon
    <3>3. at(j) # at(k)
      BY <1>7, <3>2, Zenon
    <3> QED BY <1>6, <2>3, <3>3
  <2> QED BY <1>6, <2>1, <2>2, <2>3
<1>9. ToSet(r) = ToSet(addrs)
  <2> HIDE DEF r, at
  <2>1. DOMAIN r = 1..Len(r) /\ DOMAIN addrs = 1..Len(addrs)
    BY <1>6
  <2>2. ASSUME NEW k \in 1..Len(r) PROVE r[k] \in ToSet(addrs)
    <3>1. at(k) \in 1..Len(addrs)
      BY <1>7, FirstUnique
    <3> QED BY <1>7, <2>1, <3>1 DEF ToSet
  <2>3. ASSUME NEW i \in 1..Len(addrs) PROVE \E k \in 1..Len(r) : r[k] = addrs[i]
    <3>1. PICK j \in F4 \cup F6 : addrs[j] = addrs[i]
      BY <1>2, FirstExists
    <3>2. CASE j \in F4
      <4>1. PICK k \in 1..Len(a) : p[k] = j
        BY <1>4, <3>2 DEF Picks
      <4>2. k \in 1..Len(r) /\ r[k] = a[k] /\ a[k] = addrs[p[k]]
        BY <1>4, <1>6 DEF Picks
      <4> QED BY <3>1, <4>1, <4>2
    <3>3. CASE j \in F6
      <4>1. PICK k \in 1..Len(b) : q[k] = j
        BY <1>5, <3>3 DEF Picks
      <4>2. b[k] = addrs[q[k]]
        BY <1>5 DEF Picks
      <4> DEFINE m == Len(a) + k
      <4>3. m - Len(a) = k /\ m \in (Len(a) + 1)..Len(r) /\ m \in 1..Len(r)
        BY <1>6
      <4> HIDE DEF m
      <4>4. r[m] = b[m - Len(a)]
        BY <1>6, <4>3, Zenon
      <4> QED BY <3>1, <4>1, <4>2, <4>3, <4>4
    <3> QED BY <3>2, <3>3
  <2> QED BY <2>1, <2>2, <2>3 DEF ToSet
<1> HIDE DEF r, at
<1>10. ASSUME NEW j \in 1..Len(r), NEW k \in 1..Len(r), j < k
       PROVE  /\ r[j] # r[k]
              /\ r[j] \in V6 => r[k] \in V6
              /\ (r[j] \in V6 <=> r[k] \in V6) =>
                   FirstIndex(addrs, r[j]) < FirstIndex(addrs, r[k])
  <2>1. /\ at(j) \in firsts(addrs) /\ r[j] = addrs[at(j)]
        /\ at(k) \in firsts(addrs) /\ r[k] = addrs[at(k)]
    BY <1>7
  <2>2. FirstIndex(addrs, r[j]) = at(j) /\ FirstIndex(addrs, r[k]) = at(k)
    BY <2>1, FirstUnique
  <2>3. r[j] # r[k]
    BY <1>8, <1>10, <2>1, FirstUnique
  <2>4. /\ r[j] \in V6 <=> j > Len(a)
        /\ r[k] \in V6 <=> k > Len(a)
    BY <1>7
  <2>5. j > Len(a) => k > Len(a)
    BY <1>6, <1>10
  <2>6. (r[j] \in V6 <=> r[k] \in V6) => (k <= Len(a) \/ j > Len(a))
    BY <1>6, <2>4
  <2> QED BY <1>8, <1>10, <2>2, <2>3, <2>4, <2>5, <2>6
<1> QED BY <1>1, <1>6, <1>9, <1>10 DEF DedupedAndSorted

-----------------------------------------------------------------------------
\* ValidAnswers

\* The last CNAME is the last of the aliases.
LEMMA LastAlias ==
  ASSUME NEW X, NEW answer_ \in Seq(X), cnames(answer_) # {}
  PROVE  /\ aliases(answer_) # <<>>
         /\ answer_[Max(cnames(answer_))] = aliases(answer_)[Len(aliases(answer_))]
<1> DEFINE I == cnames(answer_)
           al == aliases(answer_)
           m == Len(al)
<1>1. I \in SUBSET (1..Len(answer_)) /\ \A i \in I : i \in Nat
  BY DEF cnames
<1>2. al \in Seq(X) /\ al # <<>>
  BY <1>1, AppendedRange DEF aliases
<1>3. PICK at : Picks(al, answer_, I, at)
  BY <1>1, AppendedPicks DEF aliases
<1> HIDE DEF I, al
<1>4. m \in 1..Len(al)
  BY <1>2
<1>5. at[m] \in I /\ al[m] = answer_[at[m]]
  BY <1>3, <1>4 DEF Picks
<1>6. ASSUME NEW i \in I PROVE at[m] >= i
  <2>1. PICK k \in 1..Len(al) : at[k] = i
    BY <1>3 DEF Picks
  <2>2. k < m => at[k] < at[m]
    BY <1>3, <1>4 DEF Picks
  <2>3. k < m \/ k = m
    BY <1>2
  <2>4. i \in Nat /\ at[m] \in Nat
    BY <1>1, <1>5
  <2> QED BY <2>1, <2>2, <2>3, <2>4
<1>7. ASSUME NEW x \in I, \A y \in I : x >= y PROVE x = at[m]
  <2>1. x >= at[m] /\ at[m] >= x
    BY <1>5, <1>6, <1>7
  <2>2. x \in Nat /\ at[m] \in Nat
    BY <1>1, <1>5
  <2> QED BY <2>1, <2>2
<1>8. Max(I) = at[m]
  BY <1>5, <1>6, <1>7 DEF Max
<1> QED BY <1>2, <1>5, <1>8 DEF I, al

\* Along a chain the name that expectName returns is the name at its end.
LEMMA EndOfChain ==
  ASSUME NEW X, NEW q0, NEW answer_ \in Seq(X), InOrderChain(q0, answer_), NEW rr
  PROVE  equalASCIIName(expectName(q0, answer_), rr.name)
           <=> AtEndOfChain(q0, answer_, rr)
<1> DEFINE al == aliases(answer_)
           m == Len(al)
           hops == <<Lower[q0.name]>> \o [i \in 1..m |-> Lower[al[i].data]]
<1>1. cnames(answer_) \in SUBSET (1..Len(answer_))
  BY DEF cnames
<1>2. al \in Seq(X) /\ (al = <<>> <=> cnames(answer_) = {})
  BY <1>1, AppendedRange DEF aliases
<1>3. /\ \A i \in 1..m : Lower[al[i].name] = hops[i]
      /\ \A i, j \in 1..Len(hops) : hops[i] = hops[j] => i = j
  BY DEF InOrderChain
<1>4. AtEndOfChain(q0, answer_, rr) <=>
        /\ \/ Lower[rr.name] = Lower[q0.name]
           \/ \E i \in 1..m : Lower[rr.name] = Lower[al[i].data]
        /\ \A i \in 1..m : Lower[al[i].name] # Lower[rr.name]
  <2>1. ToSet(al) = {al[i] : i \in 1..m}
    BY <1>2 DEF ToSet
  <2> HIDE DEF al
  <2> QED BY <2>1 DEF AtEndOfChain, al
<1>5. cnames(answer_) # {} => al # <<>> /\ answer_[Max(cnames(answer_))] = al[m]
  BY LastAlias
<1> HIDE DEF al
<1>6. m \in Nat /\ (al # <<>> => m \in 1..m)
  BY <1>2
<1>7. /\ Len(hops) = m + 1 /\ hops[1] = Lower[q0.name]
      /\ \A i \in 1..m : hops[i + 1] = Lower[al[i].data]
  <2> DEFINE tail == [i \in 1..m |-> Lower[al[i].data]]
             V == {Lower[q0.name]} \cup {Lower[al[i].data] : i \in 1..m}
  <2>1. tail \in Seq(V) /\ Len(tail) = m /\ <<Lower[q0.name]>> \in Seq(V)
    BY <1>6
  <2>2. \A i \in 1..m : tail[i] = Lower[al[i].data]
    OBVIOUS
  <2> HIDE DEF tail
  <2>3. hops = <<Lower[q0.name]>> \o tail
    BY DEF tail
  <2> QED BY <1>6, <2>1, <2>2, <2>3
<1> HIDE DEF hops, m
<1>8. equalASCIIName(expectName(q0, answer_), rr.name) <=> hops[m + 1] = Lower[rr.name]
  <2>1. CASE cnames(answer_) = {}
    <3>1. m = 0
      BY <1>2, <2>1 DEF m
    <3> QED BY <1>7, <2>1, <3>1 DEF equalASCIIName, expectName
  <2>2. CASE cnames(answer_) # {}
    <3>1. m \in 1..m /\ expectName(q0, answer_) = al[m].data
      BY <1>5, <1>6, <2>2 DEF expectName
    <3> QED BY <1>7, <3>1 DEF equalASCIIName
  <2> QED BY <2>1, <2>2
<1>9. ASSUME hops[m + 1] = Lower[rr.name] PROVE AtEndOfChain(q0, answer_, rr)
  <2>1. \A i \in 1..m : hops[i] # hops[m + 1]
    BY <1>3, <1>6, <1>7
  <2>2. m = 0 \/ m \in 1..m
    BY <1>6
  <2> QED BY <1>3, <1>4, <1>7, <1>9, <2>1, <2>2
<1>10. ASSUME AtEndOfChain(q0, answer_, rr) PROVE hops[m + 1] = Lower[rr.name]
  <2>1. PICK i \in 1..(m + 1) : hops[i] = Lower[rr.name]
    BY <1>4, <1>6, <1>7, <1>10
  <2>2. i \notin 1..m
    BY <1>3, <1>4, <1>10, <2>1
  <2> QED BY <1>6, <2>1, <2>2
<1> QED BY <1>8, <1>9, <1>10

\* ValidAnswers (src/response.go) returns, for a response of any length whose
\* aliases form a chain from the question, exactly the records of the name at the
\* end of the chain that have the class of the question, in order, and ErrNoData
\* when there are none.
THEOREM ValidAnswersAtEndOfChain ==
  ASSUME NEW X, NEW q0, NEW resp, resp.answer \in Seq(X), InOrderChain(q0, resp.answer)
  PROVE  ValidAnswers(q0, resp) =
           IF wanted(q0, resp.answer) = {} THEN Fail("ErrNoData")
           ELSE OK(appended(resp.answer, wanted(q0, resp.answer)))
<1>1. \A i \in 1..Len(resp.answer) :
        equalASCIIName(expectName(q0, resp.answer), resp.answer[i].name)
          <=> AtEndOfChain(q0, resp.answer, resp.answer[i])
  BY EndOfChain
<1>2. {i \in 1..Len(resp.answer) :
         /\ equalASCIIName(expectName(q0, resp.answer), resp.answer[i].name)
         /\ q0.class = resp.answer[i].class} = wanted(q0, resp.answer)
  BY <1>1 DEF wanted
<1>3. wanted(q0, resp.answer) \in SUBSET (1..Len(resp.answer))
  BY DEF wanted
<1>4. appended(resp.answer, wanted(q0, resp.answer)) = <<>>
        <=> wanted(q0, resp.answer) = {}
  BY <1>3, AppendedRange, Zenon
<1> QED BY <1>2, <1>4 DEF ValidAnswers

-----------------------------------------------------------------------------
\* The inputs of DnsInputs

InputTypeOK == received \in Responses(Seq(Records)) /\ addresses \in Seq(AddrTexts)

\* An input stays a response whose answer is a list of records, and a list of
\* addresses.
LEMMA InputTypeCorrect == InputSpec => []InputTypeOK
<1>1. InputInit => InputTypeOK
  <2> SUFFICES ASSUME InputInit PROVE InputTypeOK
    OBVIOUS
  <2>1. PICK code \in RCodes, aa \in BOOLEAN :
          received = [response |-> TRUE, id |-> 1, question |-> <<asked>>,
                      rcode |-> code, aa |-> aa, ra |-> FALSE, answer |-> <<>>]
    BY DEF InputInit, Responses
  <2>2. <<>> \in Seq(Records) /\ addresses \in Seq(AddrTexts)
    BY DEF InputInit
  <2> QED BY <2>1, <2>2 DEF InputTypeOK, Responses
<1>2. InputTypeOK /\ [InputNext]_<<received, addresses>> => InputTypeOK'
  <2> SUFFICES ASSUME InputTypeOK, [InputNext]_<<received, addresses>>
               PROVE  InputTypeOK'
    OBVIOUS
  <2>1. CASE LongerAnswer
    <3>1. PICK rr \in Records :
            received' = [received EXCEPT !.answer = Append(@, rr)]
      BY <2>1 DEF LongerAnswer
    <3>2. Append(received.answer, rr) \in Seq(Records)
      BY DEF InputTypeOK, Responses
    <3>3. received' \in Responses(Seq(Records))
      BY <3>1, <3>2 DEF InputTypeOK, Responses
    <3> QED BY <2>1, <3>3 DEF LongerAnswer, InputTypeOK
  <2>2. CASE LongerAddrs
    BY <2>2 DEF LongerAddrs, InputTypeOK
  <2>3. CASE UNCHANGED <<received, addresses>>
    BY <2>3 DEF InputTypeOK
  <2> QED BY <2>1, <2>2, <2>3 DEF InputNext
<1> QED BY <1>1, <1>2, PTL DEF InputSpec

\* AnswersAtEndOfChain for every question, all records and answers of any
\* length: when the aliases of a response form a chain from the question,
\* ValidAnswers (src/response.go) returns the records at its end, in order.
THEOREM AnswersAtEndOfChainAlways == InputSpec => []AnswersAtEndOfChain
<1>1. InputTypeOK => AnswersAtEndOfChain
  <2> DEFINE I == wanted(asked, received.answer)
             valid == appended(received.answer, I)
             actual == ValidAnswers(asked, received)
  <2> SUFFICES ASSUME InputTypeOK, InOrderChain(asked, received.answer)
               PROVE  /\ \E at \in [1..Len(actual.val) -> I] :
                           Picks(actual.val, received.answer, I, at)
                      /\ actual.err = IF I = {} THEN "ErrNoData" ELSE Nil
    BY Zenon DEF AnswersAtEndOfChain
  <2>1. received.answer \in Seq(Records) /\ I \in SUBSET (1..Len(received.answer))
    BY DEF InputTypeOK, Responses, wanted
  <2>2. actual = IF I = {} THEN Fail("ErrNoData") ELSE OK(valid)
    BY <2>1, ValidAnswersAtEndOfChain, Zenon
  <2>3. valid = <<>> <=> I = {}
    BY <2>1, AppendedRange, Zenon
  <2>4. PICK at : Picks(valid, received.answer, I, at)
    BY <2>1, AppendedPicks, Zenon
  <2> HIDE DEF valid, I, actual
  <2>5. /\ actual.val = valid
        /\ actual.err = IF I = {} THEN "ErrNoData" ELSE Nil
    BY <2>2, <2>3 DEF OK, Fail
  <2>6. at \in [1..Len(valid) -> I]
    BY <2>4 DEF Picks
  <2> QED BY <2>4, <2>5, <2>6
<1> QED BY <1>1, InputTypeCorrect, PTL

\* DedupAndSortCorrect for address lists of any length: resolverDedupAndSort
\* (src/resolver.go) keeps every address once, IPv4 before IPv6, in order of
\* first occurrence.
THEOREM DedupAndSortCorrectAlways == InputSpec => []DedupAndSortCorrect
<1>1. InputTypeOK => DedupAndSortCorrect
  BY DedupAndSort DEF InputTypeOK, DedupAndSortCorrect
<1> QED BY <1>1, InputTypeCorrect, PTL

-----------------------------------------------------------------------------
\* The inductive invariant of Resolver

Addresses ==
  Hosts \cup UNION {{Text[rr.data] : rr \in ToSet(m.answer)} : m \in Replies}

Errors ==
  {Nil, "ErrNoData", "ErrNoName", "ErrIDNA", "ErrContext", "ErrNetwork",
   "ErrInvalidResponse", "ErrInvalidQuery", "ErrServerMisbehaving",
   "ErrServerTemporarilyMisbehaving"}

Results == [val : Seq(Addresses), err : Errors]

Questions == [name : {Puny[h] : h \in Hosts}, type : Workers, class : {"IN"}]

Exchanges ==
  [server : ConfigServers, live : BOOLEAN,
   query : [id : Ids \cup {0}, question : Seq(Questions)],
   reply : Replies \cup {NoReply}]

TypeOK ==
  /\ ctx \in {"live", "done"} /\ host \in Hosts
  /\ attempts \in Int /\ list \in Seq(ConfigServers)
  /\ main \in {"spawn", "recvA", "recvAAAA", "merge", "done"}
  /\ pc \in [Workers -> {"none", "start", "attempts", "servers", "loop", "query",
                         "send", "exited"}]
  /\ n \in [Workers -> Int]
  /\ servers \in [Workers -> Seq(ConfigServers)]
  /\ idx \in [Workers -> Nat]
  /\ timedOut \in [Workers -> BOOLEAN]
  /\ res \in [Workers -> Results]
  /\ trace \in [Workers -> Seq(Exchanges)]

\* The names exchange sends a query for.
Queryable == host \notin Onions /\ Puny[host] # Invalid

\* RoundRobin, and what it rests on: idx counts the queries, except for a name
\* that is refused before any query is sent.
RoundsOf(w) ==
  /\ Len(trace[w]) <= (IF n[w] < 0 THEN 0 ELSE n[w])
  /\ \A i \in 1..Len(trace[w]) :
       trace[w][i].server = serverAt(servers[w], i - 1)
  /\ servers[w] \in {<<>>, DefaultServers} \/ IsPrefix(servers[w], list)
  /\ pc[w] \in {"none", "start", "attempts", "servers"} =>
       trace[w] = <<>> /\ servers[w] = <<>> /\ idx[w] = 0
  /\ pc[w] \in {"loop", "query"} => servers[w] # <<>>
  /\ trace[w] # <<>> => Queryable
  /\ pc[w] = "loop" /\ Queryable => idx[w] = Len(trace[w])
  /\ pc[w] = "query" => idx[w] + 1 = Len(trace[w]) /\ idx[w] < n[w]

\* LastQuerySettles, and what it rests on: the query that is under way has no
\* answer yet, and in the loop no answer has settled the lookup.
SettlesOf(w) ==
  /\ \A i \in 1..(Len(trace[w]) - 1) :
       answered(w, i) => outcome(w, i).err \notin {Nil, "ErrNoName"}
  /\ pc[w] = "query" => ~answered(w, Len(trace[w]))
  /\ pc[w] = "loop" /\ trace[w] # <<>> /\ answered(w, Len(trace[w])) =>
       outcome(w, Len(trace[w])).err \notin {Nil, "ErrNoName"}
  /\ (pc[w] \in {"send", "exited"} /\ trace[w] # <<>> /\ Len(trace[w]) < n[w]) =>
       /\ answered(w, Len(trace[w]))
       /\ outcome(w, Len(trace[w])).err \in {Nil, "ErrNoName"}

\* A server said that the name does not exist, in a valid response.
NoSuchName(w) ==
  /\ trace[w] # <<>> /\ answered(w, Len(trace[w]))
  /\ trace[w][Len(trace[w])].reply.rcode = "NXDOMAIN"
  /\ ValidateResponse(trace[w][Len(trace[w])].query,
                      trace[w][Len(trace[w])].reply) = Nil

\* The result of a lookup: an error until it is known, and then what follows from
\* the last answer.
ResultOf(w) ==
  /\ pc[w] \in {"attempts", "servers", "loop", "query"} =>
       res[w].val = <<>> /\ res[w].err \notin {Nil, "ErrNoName"}
  /\ pc[w] \in {"send", "exited"} =>
       /\ res[w].err = Nil <=> res[w].val # <<>>
       /\ res[w].err = "ErrNoName" => NoSuchName(w)
       /\ host \notin IPLiterals => ToSet(res[w].val) = found(w)

\* The rendezvous of LookupHost with its two goroutines.
Rendezvous ==
  /\ \A w \in Workers : pc[w] = "none" <=> main = "spawn"
  /\ pc["A"] = "exited" <=> main \in {"recvAAAA", "merge", "done"}
  /\ pc["AAAA"] = "exited" <=> main \in {"merge", "done"}
  /\ main = "done" => answer = merge(res["A"], res["AAAA"])

LookupInv(w) == RoundsOf(w) /\ SettlesOf(w) /\ ResultOf(w)

IInv == TypeOK /\ Rendezvous /\ \A w \in Workers : LookupInv(w)

-----------------------------------------------------------------------------
\* What exchange and the decoding make of a reply

\* What exchange makes of a reply: an error, or the valid answers.
LEMMA ReplyOutcome ==
  ASSUME NEW query, NEW m \in Replies
  PROVE  LET out == Interpret(query, m)
         IN  /\ out.err \in Errors
             /\ out.err # Nil => out.val = <<>>
             /\ out.err = Nil => out.val \in Seq(ToSet(m.answer)) /\ out.val # <<>>
             /\ out.err = "ErrNoName" =>
                  m.rcode = "NXDOMAIN" /\ ValidateResponse(query, m) = Nil
<1> DEFINE q0 == query.question[1]
           I == {i \in 1..Len(m.answer) :
                   /\ equalASCIIName(expectName(q0, m.answer), m.answer[i].name)
                   /\ q0.class = m.answer[i].class}
           valid == appended(m.answer, I)
<1>1. m.answer \in Seq(ToSet(m.answer))
  BY ResolverAssumption
<1>2. valid \in Seq(ToSet(m.answer))
  BY <1>1, AppendedRange
<1>3. ValidAnswers(q0, m) = IF valid = <<>> THEN Fail("ErrNoData") ELSE OK(valid)
  BY DEF ValidAnswers
<1> HIDE DEF valid, q0
<1>4. ValidateResponse(query, m) \in {Nil, "ErrInvalidResponse", "ErrInvalidQuery"}
  BY DEF ValidateResponse, Nil
<1>5. /\ RCodeToError(m) \in Errors
      /\ RCodeToError(m) = "ErrNoName" => m.rcode = "NXDOMAIN"
  BY DEF RCodeToError, Errors, Nil
<1> QED BY <1>2, <1>3, <1>4, <1>5 DEF Interpret, Fail, OK, Nil, Errors, q0

\* decodeLookup returns the addresses of the records of the wanted type.
LEMMA Decoded ==
  ASSUME NEW X, NEW rrs \in Seq(X), NEW type
  PROVE  LET out   == decodeLookup(type, rrs)
             addrs == {Text[rr.data] : rr \in {r \in ToSet(rrs) : r.type = type}}
         IN  /\ out = [val |-> out.val, err |-> out.err]
             /\ out.val \in Seq(addrs) /\ ToSet(out.val) = addrs
             /\ out.err \in {Nil, "ErrNoData"}
             /\ out.err = Nil <=> out.val # <<>>
<1> DEFINE I == {i \in 1..Len(rrs) : rrs[i].type = type}
           of == appended(rrs, I)
           addrs == {Text[rr.data] : rr \in {r \in ToSet(rrs) : r.type = type}}
           texts == [i \in 1..Len(of) |-> Text[of[i].data]]
<1>1. /\ of \in Seq(X) /\ ToSet(of) = {rrs[i] : i \in I}
  BY AppendedRange
<1>2. {rrs[i] : i \in I} = {r \in ToSet(rrs) : r.type = type}
  BY DEF ToSet
<1>3. decodeLookup(type, rrs) = IF of = <<>> THEN Fail("ErrNoData") ELSE OK(texts)
  BY DEF decodeLookup
<1> HIDE DEF of
<1>4. /\ Len(of) \in Nat /\ DOMAIN of = 1..Len(of)
      /\ of = <<>> <=> Len(of) = 0
      /\ ToSet(of) = {of[i] : i \in 1..Len(of)}
  BY <1>1 DEF ToSet
<1>5. addrs = {Text[of[i].data] : i \in 1..Len(of)}
  <2>1. addrs = {Text[rr.data] : rr \in {of[i] : i \in 1..Len(of)}}
    BY <1>1, <1>2, <1>4
  <2> QED BY <2>1, Zenon
<1>6. texts \in Seq(addrs) /\ Len(texts) = Len(of) /\ ToSet(texts) = addrs
  <2> HIDE DEF addrs
  <2>1. \A i \in 1..Len(of) : Text[of[i].data] \in addrs
    BY <1>5
  <2>2. texts \in Seq(addrs) /\ Len(texts) = Len(of)
    BY <1>4, <2>1
  <2>3. ToSet(texts) = {Text[of[i].data] : i \in 1..Len(of)}
    BY DEF ToSet
  <2> QED BY <1>5, <2>2, <2>3
<1>7. of = <<>> => addrs = {}
  <2>1. of = <<>> => 1..Len(of) = {}
    BY <1>4
  <2> QED BY <1>5, <2>1, Zenon
<1> HIDE DEF texts, addrs
<1>8. CASE of = <<>>
  <2>1. <<>> \in Seq(addrs) /\ ToSet(<<>>) = {}
    BY DEF ToSet
  <2> QED BY <1>3, <1>7, <1>8, <2>1 DEF Fail, Nil, addrs
<1>9. CASE of # <<>>
  <2>1. texts # <<>>
    BY <1>4, <1>6, <1>9
  <2> QED BY <1>3, <1>6, <1>9, <2>1 DEF OK, Nil, addrs
<1> QED BY <1>8, <1>9

\* The elements of a sequence, and those of two sequences together.
LEMMA EmptyRange ==
  ASSUME NEW X, NEW s \in Seq(X)
  PROVE  s # <<>> => ToSet(s) # {}
<1>1. s # <<>> => 1 \in DOMAIN s
  OBVIOUS
<1> QED BY <1>1 DEF ToSet

\* The elements of two sequences together.
LEMMA ConcatRange ==
  ASSUME NEW X, NEW s \in Seq(X), NEW t \in Seq(X)
  PROVE  ToSet(s \o t) = ToSet(s) \cup ToSet(t)
<1> DEFINE u == s \o t
           m == Len(s)
<1>1. /\ m \in Nat /\ Len(t) \in Nat /\ DOMAIN u = 1..(m + Len(t))
      /\ DOMAIN s = 1..m /\ DOMAIN t = 1..Len(t)
  OBVIOUS
<1>2. \A i \in 1..(m + Len(t)) : u[i] = IF i <= m THEN s[i] ELSE t[i - m]
  OBVIOUS
<1> HIDE DEF u, m
<1>3. ASSUME NEW i \in DOMAIN u PROVE u[i] \in ToSet(s) \cup ToSet(t)
  <2>1. CASE i <= m
    BY <1>1, <1>2, <2>1 DEF ToSet
  <2>2. CASE i > m
    <3>1. i - m \in DOMAIN t /\ u[i] = t[i - m]
      BY <1>1, <1>2, <2>2
    <3> QED BY <3>1 DEF ToSet
  <2> QED BY <1>1, <2>1, <2>2
<1>4. ASSUME NEW i \in DOMAIN s PROVE s[i] \in ToSet(u)
  <2>1. i \in DOMAIN u /\ u[i] = s[i]
    BY <1>1, <1>2
  <2> QED BY <2>1 DEF ToSet
<1>5. ASSUME NEW i \in DOMAIN t PROVE t[i] \in ToSet(u)
  <2> DEFINE k == m + i
  <2>1. k \in DOMAIN u /\ ~(k <= m) /\ k - m = i
    BY <1>1
  <2> HIDE DEF k
  <2>2. u[k] = t[i]
    BY <1>1, <1>2, <2>1
  <2> QED BY <2>1, <2>2 DEF ToSet
<1>6. ToSet(u) = ToSet(s) \cup ToSet(t)
  BY <1>3, <1>4, <1>5 DEF ToSet
<1> QED BY <1>6 DEF u

\* What LookupHost makes of the two results.
LEMMA Merged ==
  ASSUME NEW a \in Results, a.err = Nil <=> a.val # <<>>,
         NEW b \in Results, b.err = Nil <=> b.val # <<>>
  PROVE  LET r == merge(a, b)
         IN  /\ ToSet(r.val) = ToSet(a.val) \cup ToSet(b.val)
             /\ (r.err = Nil) <=> (ToSet(a.val) \cup ToSet(b.val) # {})
             /\ IsInjective(r.val)
             /\ \A i, j \in 1..Len(r.val) :
                  (i < j /\ r.val[i] \in V6) => r.val[j] \in V6
             /\ r.err = "ErrNoName" => a.err = "ErrNoName" \/ b.err = "ErrNoName"
             /\ r.err = "ErrNoData" => a.err = "ErrNoData" /\ b.err = "ErrNoData"
<1> DEFINE addrs == a.val \o b.val
           d == resolverDedupAndSort(addrs)
<1>1. a.val \in Seq(Addresses) /\ b.val \in Seq(Addresses)
  BY DEF Results
<1>2. addrs \in Seq(Addresses) /\ (addrs = <<>> <=> a.val = <<>> /\ b.val = <<>>)
  BY <1>1
<1>3. ToSet(addrs) = ToSet(a.val) \cup ToSet(b.val)
  BY <1>1, ConcatRange
<1>4. d \in Seq(Addresses) /\ DedupedAndSorted(d, addrs)
  BY <1>2, DedupAndSort
<1>5. ToSet(<<>>) = {} /\ IsInjective(<<>>) /\ Len(<<>>) = 0
  BY DEF ToSet, IsInjective
<1>6. addrs = <<>> => ToSet(addrs) = {}
  BY <1>5
<1>7. addrs # <<>> => ToSet(addrs) # {}
  BY <1>2, EmptyRange
<1> HIDE DEF addrs, d
<1>8. CASE addrs # <<>>
  <2>1. merge(a, b) = OK(d)
    BY <1>8 DEF merge, addrs, d
  <2>2. ToSet(d) = ToSet(addrs)
    BY <1>4 DEF DedupedAndSorted
  <2>3. \A i, j \in 1..Len(d) : i < j => d[i] # d[j] /\ (d[i] \in V6 => d[j] \in V6)
    BY <1>4 DEF DedupedAndSorted
  <2>4. IsInjective(d)
    <3>1. DOMAIN d = 1..Len(d) /\ Len(d) \in Nat
      BY <1>4
    <3>2. \A i, j \in 1..Len(d) : i < j \/ j < i \/ i = j
      BY <3>1
    <3> QED BY <2>3, <3>1, <3>2 DEF IsInjective
  <2> QED BY <1>3, <1>7, <1>8, <2>1, <2>2, <2>3, <2>4 DEF OK, Nil
<1>9. CASE addrs = <<>>
  <2>1. a.err # Nil /\ b.err # Nil
    BY <1>2, <1>9
  <2>2. merge(a, b) = IF a.err # "ErrNoData" THEN Fail(a.err)
                      ELSE IF b.err # "ErrNoData" THEN Fail(b.err)
                      ELSE Fail("ErrNoData")
    BY <1>9, <2>1 DEF merge, addrs
  <2> QED BY <1>3, <1>5, <1>6, <1>9, <2>1, <2>2 DEF Fail, Nil
<1> QED BY <1>8, <1>9

-----------------------------------------------------------------------------
\* What the inductive invariant implies

\* The inductive invariant implies what the model states about the queries.
LEMMA InvRoundRobin == IInv => RoundRobin
BY DEF IInv, LookupInv, RoundsOf, RoundRobin

\* The inductive invariant implies that only the last query settles a lookup.
LEMMA InvLastQuerySettles == IInv => LastQuerySettles
BY DEF IInv, LookupInv, SettlesOf, LastQuerySettles

\* The inductive invariant implies that both goroutines have left at the end.
LEMMA InvNoGoroutineLeft == IInv => NoGoroutineLeft
BY DEF IInv, Rendezvous, NoGoroutineLeft, Workers

\* When LookupHost has returned, both results are final.
LEMMA InvDone ==
  ASSUME IInv, main = "done"
  PROVE  /\ answer = merge(res["A"], res["AAAA"])
         /\ \A w \in Workers :
              /\ res[w] \in Results
              /\ res[w].err = Nil <=> res[w].val # <<>>
              /\ res[w].err = "ErrNoName" => NoSuchName(w)
              /\ host \notin IPLiterals => ToSet(res[w].val) = found(w)
<1>1. \A w \in Workers : pc[w] = "exited"
  BY DEF IInv, Rendezvous, Workers
<1> QED BY <1>1 DEF IInv, Rendezvous, LookupInv, ResultOf, TypeOK

\* The inductive invariant implies what LookupHost returns as addresses ...
LEMMA InvAddresses == IInv => AddressesFromValidAnswers
<1> SUFFICES ASSUME IInv, main = "done", host \notin IPLiterals
             PROVE  AddressesFromValidAnswers
  BY DEF AddressesFromValidAnswers
<1>1. "A" \in Workers /\ "AAAA" \in Workers
  BY DEF Workers
<1>2. ToSet(res["A"].val) = found("A") /\ ToSet(res["AAAA"].val) = found("AAAA")
  BY <1>1, InvDone
<1>3. answer = merge(res["A"], res["AAAA"])
  BY InvDone
<1>4. /\ res["A"] \in Results /\ (res["A"].err = Nil <=> res["A"].val # <<>>)
      /\ res["AAAA"] \in Results /\ (res["AAAA"].err = Nil <=> res["AAAA"].val # <<>>)
  BY <1>1, InvDone
<1> QED BY <1>2, <1>3, <1>4, Merged DEF AddressesFromValidAnswers

\* ... and what it returns as the error.
LEMMA InvHonestError == IInv => HonestError
<1> SUFFICES ASSUME IInv, main = "done" PROVE HonestError
  BY DEF HonestError
<1>1. "A" \in Workers /\ "AAAA" \in Workers /\ \A w \in Workers : w \in {"A", "AAAA"}
  BY DEF Workers
<1>2. answer = merge(res["A"], res["AAAA"])
  BY InvDone
<1>3. /\ res["A"] \in Results /\ (res["A"].err = Nil <=> res["A"].val # <<>>)
      /\ res["AAAA"] \in Results /\ (res["AAAA"].err = Nil <=> res["AAAA"].val # <<>>)
  BY <1>1, InvDone
<1>4. /\ answer.err = "ErrNoName" => res["A"].err = "ErrNoName" \/ res["AAAA"].err = "ErrNoName"
      /\ answer.err = "ErrNoData" => res["A"].err = "ErrNoData" /\ res["AAAA"].err = "ErrNoData"
  BY <1>2, <1>3, Merged
<1>5. \A w \in Workers : res[w].err = "ErrNoName" => NoSuchName(w)
  BY InvDone
<1> QED BY <1>1, <1>4, <1>5 DEF HonestError, NoSuchName

-----------------------------------------------------------------------------
\* The inductive invariant holds initially, and every step keeps it

\* The inductive invariant holds when LookupHost is called.
LEMMA InitIInv == Init => IInv
<1> SUFFICES ASSUME Init PROVE IInv
  OBVIOUS
<1>1. TypeOK
  BY DEF Init, TypeOK, Results, Errors, OK, Nil
<1>2. Rendezvous
  BY DEF Init, Rendezvous, Workers
<1>3. ASSUME NEW w \in Workers PROVE LookupInv(w)
  <2>1. /\ pc[w] = "none" /\ trace[w] = <<>> /\ servers[w] = <<>>
        /\ idx[w] = 0 /\ n[w] = 0
    BY DEF Init
  <2>2. RoundsOf(w)
    BY <2>1 DEF RoundsOf
  <2>3. SettlesOf(w)
    BY <2>1 DEF SettlesOf
  <2>4. ResultOf(w)
    BY <2>1 DEF ResultOf
  <2> QED BY <2>2, <2>3, <2>4 DEF LookupInv
<1> QED BY <1>1, <1>2, <1>3 DEF IInv

\* A prefix of the list stays one when AddServer appends to the list.
LEMMA PrefixKept ==
  ASSUME NEW s \in Seq(ConfigServers), NEW t \in Seq(ConfigServers),
         NEW x \in ConfigServers, IsPrefix(s, t)
  PROVE  IsPrefix(s, Append(t, x))
BY DEF IsPrefix

\* A lookup none of whose variables changes keeps its invariant, even when the
\* configuration changes.
LEMMA Untouched ==
  ASSUME TypeOK, NEW w \in Workers, LookupInv(w), host' = host,
         list' = list \/ \E s \in ConfigServers : list' = Append(list, s),
         pc'[w] = pc[w], n'[w] = n[w], servers'[w] = servers[w], idx'[w] = idx[w],
         res'[w] = res[w], trace'[w] = trace[w]
  PROVE  LookupInv(w)'
<1>1. servers[w] \in Seq(ConfigServers) /\ list \in Seq(ConfigServers)
  BY DEF TypeOK
<1>2. IsPrefix(servers[w], list) => IsPrefix(servers[w], list')
  BY <1>1, PrefixKept
<1>3. RoundsOf(w)'
  BY <1>2 DEF LookupInv, RoundsOf, Queryable
<1>4. SettlesOf(w)'
  BY Zenon DEF LookupInv, SettlesOf, answered, outcome
<1>5. NoSuchName(w)' = NoSuchName(w) /\ found(w)' = found(w)
  BY Zenon DEF NoSuchName, found, answered, outcome
<1>6. ResultOf(w)'
  BY <1>5, Zenon DEF LookupInv, ResultOf
<1> QED BY <1>3, <1>4, <1>6, Zenon DEF LookupInv

\* The rendezvous does not notice the steps of a lookup that goes on.
LEMMA RendezvousKept ==
  ASSUME TypeOK, Rendezvous, NEW w \in Workers, NEW label,
         pc[w] \notin {"none", "exited"}, label \notin {"none", "exited"},
         pc' = [pc EXCEPT ![w] = label], main' = main, answer' = answer
  PROVE  Rendezvous'
<1>1. /\ pc \in [Workers -> {"none", "start", "attempts", "servers", "loop", "query",
                            "send", "exited"}]
      /\ w \in {"A", "AAAA"} /\ Workers = {"A", "AAAA"}
  BY DEF TypeOK, Workers
<1>2. main # "done"
  BY <1>1 DEF Rendezvous
<1> QED BY <1>1, <1>2 DEF Rendezvous

\* Nothing is found as long as no answer is a success.
LEMMA NothingFound ==
  ASSUME TypeOK, NEW w \in Workers,
         trace[w] # <<>> /\ answered(w, Len(trace[w])) =>
           outcome(w, Len(trace[w])).err # Nil
  PROVE  found(w) = {}
<1>1. CASE trace[w] = <<>> \/ ~answered(w, Len(trace[w]))
  BY <1>1 DEF found
<1>2. CASE trace[w] # <<>> /\ answered(w, Len(trace[w]))
  <2> DEFINE k == Len(trace[w])
  <2>1. trace[w] \in Seq(Exchanges)
    BY DEF TypeOK
  <2>2. k \in 1..Len(trace[w])
    BY <1>2, <2>1
  <2>3. trace[w][k] \in Exchanges
    BY <2>1, <2>2
  <2>4. trace[w][k].reply \in Replies
    BY <1>2, <2>3 DEF Exchanges, answered
  <2>5. outcome(w, k).val = <<>>
    BY <1>2, <2>4, ReplyOutcome DEF outcome
  <2>6. ToSet(<<>>) = {}
    BY DEF ToSet
  <2> QED BY <1>2, <2>5, <2>6 DEF found
<1> QED BY <1>1, <1>2

\* The invariant of a lookup, taken apart.
LEMMA InvOf ==
  ASSUME IInv, NEW w \in Workers
  PROVE  TypeOK /\ Rendezvous /\ RoundsOf(w) /\ SettlesOf(w) /\ ResultOf(w)
BY Zenon DEF IInv, LookupInv

\* As long as no query was sent, nothing is to be said about answers ...
LEMMA NothingToSettle ==
  ASSUME NEW w \in Workers, trace'[w] = <<>>, pc'[w] # "query"
  PROVE  SettlesOf(w)'
<1>1. 1..(Len(trace'[w]) - 1) = {}
  OBVIOUS
<1> QED BY <1>1, Zenon DEF SettlesOf

\* ... and little about the rounds of the loop.
LEMMA NoRounds ==
  ASSUME NEW w \in Workers, trace'[w] = <<>>, n'[w] \in Int, pc'[w] # "query",
         servers'[w] \in {<<>>, DefaultServers} \/ IsPrefix(servers'[w], list'),
         pc'[w] \in {"none", "start", "attempts", "servers"} =>
           servers'[w] = <<>> /\ idx'[w] = 0,
         pc'[w] = "loop" => servers'[w] # <<>> /\ (Queryable' => idx'[w] = 0)
  PROVE  RoundsOf(w)'
<1>1. Len(trace'[w]) = 0 /\ 1..Len(trace'[w]) = {}
  OBVIOUS
<1>2. Len(trace'[w]) <= (IF n'[w] < 0 THEN 0 ELSE n'[w])
  BY <1>1
<1> QED BY <1>1, <1>2, Zenon DEF RoundsOf

\* The steps before the loop.
LEMMA StartStep ==
  ASSUME IInv, NEW w \in Workers, Lookup_Start(w)
  PROVE  IInv'
<1>1. <<host>> \in Seq(Addresses) /\ <<host>> # <<>> /\ <<>> \in Seq(Addresses)
  BY DEF IInv, TypeOK, Addresses
<1>2. OK(<<host>>) \in Results /\ Fail("ErrNoData") \in Results
  BY <1>1 DEF OK, Fail, Results, Errors, Nil
<1>3. TypeOK'
  BY <1>2 DEF IInv, TypeOK, Lookup_Start, Goto, config
<1>4. Rendezvous'
  <2>1. PICK label \in {"send", "attempts"} : pc' = [pc EXCEPT ![w] = label]
    BY DEF Lookup_Start, Goto
  <2> QED BY <2>1, RendezvousKept DEF IInv, Lookup_Start
<1>p. RoundsOf(w) /\ n[w] \in Int
  BY InvOf DEF TypeOK
<1>5. /\ pc[w] = "start" /\ trace[w] = <<>> /\ host' = host /\ list' = list
      /\ n' = n /\ servers' = servers /\ idx' = idx /\ trace' = trace
      /\ \/ pc'[w] = "send" /\ res'[w] = OK(<<host>>) /\ host \in IPLiterals
         \/ pc'[w] = "attempts" /\ res'[w] = Fail("ErrNoData")
  <2>1. pc[w] = "start"
    BY DEF Lookup_Start
  <2>2. trace[w] = <<>>
    BY <1>p, <2>1, Zenon DEF RoundsOf
  <2> QED BY <2>1, <2>2 DEF IInv, TypeOK, Lookup_Start, Goto, config
<1>6. RoundsOf(w)'
  <2>1. servers[w] = <<>> /\ idx[w] = 0
    BY <1>p, <1>5, Zenon DEF RoundsOf
  <2> QED BY <1>p, <1>5, <2>1, NoRounds
<1>7. SettlesOf(w)'
  BY <1>5, NothingToSettle
<1>8. ResultOf(w)'
  <2>1. CASE pc'[w] = "send" /\ res'[w] = OK(<<host>>) /\ host \in IPLiterals
    <3>1. res'[w].val = <<host>> /\ res'[w].err = Nil
      BY <2>1 DEF OK
    <3> QED BY <1>1, <1>5, <2>1, <3>1, Zenon DEF ResultOf, Nil
  <2>2. CASE pc'[w] = "attempts" /\ res'[w] = Fail("ErrNoData")
    <3>1. res'[w].val = <<>> /\ res'[w].err = "ErrNoData"
      BY <2>2 DEF Fail
    <3> QED BY <2>2, <3>1 DEF ResultOf, Nil
  <2> QED BY <1>5, <2>1, <2>2, Zenon
<1>9. ASSUME NEW v \in Workers, v # w PROVE LookupInv(v)'
  BY <1>5, <1>9, Untouched DEF IInv, TypeOK, Lookup_Start, Goto
<1> QED BY <1>3, <1>4, <1>6, <1>7, <1>8, <1>9 DEF IInv, LookupInv

\* The lookup reads the number of attempts.
LEMMA AttemptsStep ==
  ASSUME IInv, NEW w \in Workers, lookup_Attempts(w)
  PROVE  IInv'
<1>1. TypeOK'
  BY DEF IInv, TypeOK, lookup_Attempts, Goto, config
<1>2. Rendezvous'
  BY RendezvousKept DEF IInv, lookup_Attempts, Goto
<1>3. /\ pc[w] = "attempts" /\ trace[w] = <<>> /\ host' = host /\ list' = list
      /\ pc'[w] = "servers" /\ n'[w] \in Int
      /\ servers' = servers /\ idx' = idx /\ trace' = trace /\ res' = res
  BY DEF IInv, LookupInv, RoundsOf, TypeOK, lookup_Attempts, Goto, config
<1>4. RoundsOf(w) /\ ResultOf(w)
  BY InvOf
<1>5. RoundsOf(w)'
  <2>1. servers[w] = <<>> /\ idx[w] = 0
    BY <1>3, <1>4, Zenon DEF RoundsOf
  <2> QED BY <1>3, <2>1, NoRounds
<1>6. SettlesOf(w)'
  BY <1>3, NothingToSettle
<1>7. ResultOf(w)'
  BY <1>3, <1>4, Zenon DEF ResultOf
<1>8. ASSUME NEW v \in Workers, v # w PROVE LookupInv(v)'
  BY <1>3, <1>8, Untouched DEF IInv, TypeOK, lookup_Attempts, Goto
<1> QED BY <1>1, <1>2, <1>5, <1>6, <1>7, <1>8 DEF IInv, LookupInv

\* The lookup reads the list of servers.
LEMMA ServersStep ==
  ASSUME IInv, NEW w \in Workers, lookup_Servers(w)
  PROVE  IInv'
<1>1. DefaultServers \in Seq(ConfigServers) /\ DefaultServers # <<>>
  BY ResolverAssumption
<1>2. TypeOK'
  BY <1>1 DEF IInv, TypeOK, lookup_Servers, Goto, config
<1>3. Rendezvous'
  BY RendezvousKept DEF IInv, lookup_Servers, Goto
<1>4. /\ pc[w] = "servers" /\ trace[w] = <<>> /\ idx[w] = 0 /\ host' = host
      /\ list' = list /\ list \in Seq(ConfigServers)
      /\ pc'[w] = "loop" /\ n' = n /\ idx' = idx /\ trace' = trace /\ res' = res
      /\ servers'[w] = IF list = <<>> THEN DefaultServers ELSE list
  BY DEF IInv, LookupInv, RoundsOf, TypeOK, lookup_Servers, Goto, config
<1>5. ResultOf(w)
  BY InvOf
<1>6. RoundsOf(w)'
  <2>1. IsPrefix(list, list)
    BY <1>4 DEF IsPrefix
  <2>2. servers'[w] # <<>> /\ (servers'[w] = DefaultServers \/ IsPrefix(servers'[w], list'))
    BY <1>1, <1>4, <2>1
  <2>3. n[w] \in Int
    BY DEF IInv, TypeOK
  <2> QED BY <1>4, <2>2, <2>3, NoRounds
<1>7. SettlesOf(w)'
  BY <1>4, NothingToSettle
<1>8. ResultOf(w)'
  BY <1>4, <1>5, Zenon DEF ResultOf
<1>9. ASSUME NEW v \in Workers, v # w PROVE LookupInv(v)'
  BY <1>4, <1>9, Untouched DEF IInv, TypeOK, lookup_Servers, Goto
<1> QED BY <1>2, <1>3, <1>6, <1>7, <1>8, <1>9 DEF IInv, LookupInv

\* The steps of the loop.
LEMMA ExhaustedStep ==
  ASSUME IInv, NEW w \in Workers, lookup_Exhausted(w)
  PROVE  IInv'
<1>1. TypeOK'
  BY DEF IInv, TypeOK, lookup_Exhausted, Goto, config
<1>2. Rendezvous'
  <2>1. /\ pc[w] = "loop" /\ pc' = [pc EXCEPT ![w] = "send"]
        /\ main' = main /\ answer' = answer
    BY DEF lookup_Exhausted, Goto
  <2> QED BY <2>1, InvOf, RendezvousKept, Zenon
<1>3. /\ pc[w] = "loop" /\ pc'[w] = "send" /\ idx[w] >= n[w]
      /\ host' = host /\ list' = list /\ n' = n /\ servers' = servers
      /\ idx' = idx /\ trace' = trace /\ res' = res
  BY DEF IInv, TypeOK, lookup_Exhausted, Goto, config
<1>p. RoundsOf(w) /\ SettlesOf(w) /\ ResultOf(w)
  BY InvOf
<1>4. RoundsOf(w)'
  BY <1>3, <1>p, Zenon DEF RoundsOf, Queryable
<1>5. SettlesOf(w)'
  <2>1. trace[w] # <<>> => ~(Len(trace[w]) < n[w])
    <3>1. trace[w] # <<>> => idx[w] = Len(trace[w])
      BY <1>3, <1>p, Zenon DEF RoundsOf
    <3>2. idx[w] \in Nat /\ n[w] \in Int
      BY DEF IInv, TypeOK
    <3> QED BY <1>3, <3>1, <3>2
  <2> QED BY <1>3, <1>p, <2>1, Zenon DEF SettlesOf, answered, outcome
<1>6. ResultOf(w)'
  <2>1. res[w].val = <<>> /\ res[w].err \notin {Nil, "ErrNoName"}
    BY <1>3, <1>p, Zenon DEF ResultOf
  <2>2. trace[w] # <<>> /\ answered(w, Len(trace[w])) =>
          outcome(w, Len(trace[w])).err # Nil
    BY <1>3, <1>p, Zenon DEF SettlesOf
  <2>3. found(w) = {}
    BY <2>2, NothingFound DEF IInv
  <2>4. found(w)' = {}
    BY <1>3, <2>3 DEF found, answered, outcome
  <2>5. ToSet(<<>>) = {}
    BY DEF ToSet
  <2> QED BY <1>3, <2>1, <2>4, <2>5 DEF ResultOf
<1>7. ASSUME NEW v \in Workers, v # w PROVE LookupInv(v)'
  BY <1>3, <1>7, Untouched DEF IInv, TypeOK, lookup_Exhausted, Goto
<1> QED BY <1>1, <1>2, <1>4, <1>5, <1>6, <1>7 DEF IInv, LookupInv

\* An exchange that fails before the transport is called.
LEMMA RefuseStep ==
  ASSUME IInv, NEW w \in Workers, exchange_Refuse(w)
  PROVE  IInv'
<1>1. PICK e \in {"ErrNoData", "ErrIDNA"} : attemptFailed(w, e)
  BY DEF exchange_Refuse
<1>2. Fail(e) \in Results
  BY DEF Fail, Results, Errors
<1>3. /\ pc[w] = "loop" /\ pc' = [pc EXCEPT ![w] = "loop"] /\ pc'[w] = "loop"
      /\ idx' = [idx EXCEPT ![w] = @ + 1] /\ res' = [res EXCEPT ![w] = Fail(e)]
      /\ host' = host /\ list' = list /\ n' = n /\ servers' = servers
      /\ trace' = trace /\ ~Queryable /\ main' = main /\ answer' = answer
  BY <1>1 DEF IInv, TypeOK, exchange_Refuse, attemptFailed, Goto, config, Queryable
<1>4. TypeOK'
  BY <1>2, <1>3 DEF IInv, TypeOK, exchange_Refuse, config
<1>5. Rendezvous'
  BY <1>3, InvOf, RendezvousKept, Zenon
<1>6. /\ trace'[w] = <<>> /\ n[w] \in Int /\ servers[w] # <<>>
      /\ servers[w] \in {<<>>, DefaultServers} \/ IsPrefix(servers[w], list)
  <2>1. RoundsOf(w) /\ n[w] \in Int
    BY InvOf DEF TypeOK
  <2> QED BY <1>3, <2>1, Zenon DEF RoundsOf
<1>7. RoundsOf(w)'
  <2>1. ~Queryable'
    BY <1>3, Zenon DEF Queryable
  <2> QED BY <1>3, <1>6, <2>1, NoRounds
<1>8. SettlesOf(w)'
  BY <1>3, <1>6, NothingToSettle
<1>9. ResultOf(w)'
  <2>1. res'[w] = Fail(e)
    BY <1>3 DEF IInv, TypeOK
  <2>2. res'[w].val = <<>> /\ res'[w].err \notin {Nil, "ErrNoName"}
    BY <2>1 DEF Fail, Nil
  <2> QED BY <1>3, <2>2 DEF ResultOf
<1>10. ASSUME NEW v \in Workers, v # w PROVE LookupInv(v)'
  BY <1>3, <1>10, Untouched DEF IInv, TypeOK
<1> QED BY <1>4, <1>5, <1>7, <1>8, <1>9, <1>10 DEF IInv, LookupInv

\* An exchange whose transport fails.
LEMMA ErrorStep ==
  ASSUME IInv, NEW w \in Workers, exchange_TransportError(w)
  PROVE  IInv'
<1>1. PICK e \in {"ErrContext", "ErrNetwork"} : attemptFailed(w, e)
  BY DEF exchange_TransportError
<1>2. Fail(e) \in Results
  BY DEF Fail, Results, Errors
<1>3. /\ pc[w] = "query" /\ pc' = [pc EXCEPT ![w] = "loop"] /\ pc'[w] = "loop"
      /\ idx' = [idx EXCEPT ![w] = @ + 1] /\ res' = [res EXCEPT ![w] = Fail(e)]
      /\ host' = host /\ list' = list /\ n' = n /\ servers' = servers
      /\ trace' = trace /\ main' = main /\ answer' = answer
  BY <1>1 DEF IInv, TypeOK, exchange_TransportError, attemptFailed, Goto, config
<1>4. TypeOK'
  BY <1>2, <1>3 DEF IInv, TypeOK, exchange_TransportError, config
<1>5. Rendezvous'
  BY <1>3, InvOf, RendezvousKept, Zenon
<1>p. RoundsOf(w) /\ SettlesOf(w)
  BY InvOf
<1>6. idx'[w] = Len(trace[w]) /\ res'[w] = Fail(e)
  <2>1. idx[w] + 1 = Len(trace[w])
    BY <1>3, <1>p, Zenon DEF RoundsOf
  <2> QED BY <1>3, <2>1 DEF IInv, TypeOK
<1>7. RoundsOf(w)'
  BY <1>3, <1>6, <1>p DEF RoundsOf, Queryable
<1>8. SettlesOf(w)'
  BY <1>3, <1>p, Zenon DEF SettlesOf, answered, outcome
<1>9. ResultOf(w)'
  <2>1. res'[w].val = <<>> /\ res'[w].err \notin {Nil, "ErrNoName"}
    BY <1>6 DEF Fail, Nil
  <2> QED BY <1>3, <2>1 DEF ResultOf
<1>10. ASSUME NEW v \in Workers, v # w PROVE LookupInv(v)'
  BY <1>3, <1>10, Untouched DEF IInv, TypeOK
<1> QED BY <1>4, <1>5, <1>7, <1>8, <1>9, <1>10 DEF IInv, LookupInv

\* The index of the server is in range.
LEMMA CurrentType ==
  ASSUME NEW s \in Seq(ConfigServers), s # <<>>, NEW i \in Nat
  PROVE  serverAt(s, i) \in ConfigServers
<1>1. Len(s) \in Nat \ {0}
  OBVIOUS
<1>2. (i % Len(s)) + 1 \in 1..Len(s)
  BY <1>1
<1> QED BY <1>2 DEF serverAt

\* An exchange sends its query: the next server in turn.
LEMMA QueryStep ==
  ASSUME IInv, NEW w \in Workers, exchange_Query(w)
  PROVE  IInv'
<1> DEFINE x(id) == [server |-> current(w), live |-> ctx = "live",
                     query |-> newQuery(w, IF current(w).protocol = "doh" THEN 0 ELSE id),
                     reply |-> NoReply]
           k == Len(trace[w])
<1>1. PICK id \in Ids : trace' = [trace EXCEPT ![w] = Append(@, x(id))]
  BY DEF exchange_Query
<1>2. /\ pc[w] = "loop" /\ idx[w] < n[w] /\ Queryable
      /\ pc' = [pc EXCEPT ![w] = "query"] /\ pc'[w] = "query"
      /\ host' = host /\ list' = list /\ n' = n /\ servers' = servers
      /\ idx' = idx /\ res' = res /\ main' = main /\ answer' = answer
  BY DEF IInv, TypeOK, exchange_Query, Goto, config, Queryable
<1>p. RoundsOf(w) /\ SettlesOf(w) /\ ResultOf(w)
  BY InvOf
<1>3. /\ servers[w] # <<>> /\ servers[w] \in Seq(ConfigServers) /\ idx[w] = k
      /\ idx[w] \in Nat /\ n[w] \in Int /\ trace[w] \in Seq(Exchanges)
  <2>1. servers[w] # <<>> /\ idx[w] = k
    BY <1>2, <1>p, Zenon DEF RoundsOf
  <2> QED BY <2>1 DEF IInv, TypeOK
<1>4. x(id) \in Exchanges
  <2>1. current(w) \in ConfigServers
    BY <1>3, CurrentType DEF current
  <2>2. [name |-> Puny[host], type |-> w, class |-> "IN"] \in Questions
    BY DEF Questions, IInv, TypeOK
  <2>3. \A i \in Ids \cup {0} :
          newQuery(w, i) \in [id : Ids \cup {0}, question : Seq(Questions)]
    BY <2>2 DEF newQuery
  <2> HIDE DEF x
  <2>4. x(id).query \in [id : Ids \cup {0}, question : Seq(Questions)]
    BY <2>3 DEF x
  <2>5. x(id) = [server |-> current(w), live |-> ctx = "live", query |-> x(id).query,
                 reply |-> NoReply]
    BY DEF x
  <2>6. (ctx = "live") \in BOOLEAN /\ NoReply \in Replies \cup {NoReply}
    OBVIOUS
  <2> DEFINE Queries == [id : Ids \cup {0}, question : Seq(Questions)]
  <2>7. Exchanges = [server : ConfigServers, live : BOOLEAN, query : Queries,
                     reply : Replies \cup {NoReply}]
    BY DEF Exchanges
  <2>8. x(id).query \in Queries
    BY <2>4
  <2> DEFINE q == x(id).query
             live == ctx = "live"
  <2> HIDE DEF Queries, q, live
  <2>9. [server |-> current(w), live |-> live, query |-> q, reply |-> NoReply]
          \in [server : ConfigServers, live : BOOLEAN, query : Queries,
               reply : Replies \cup {NoReply}]
    <3>1. live \in BOOLEAN /\ q \in Queries
      BY <2>6, <2>8 DEF live, q
    <3> QED BY <2>1, <2>6, <3>1
  <2> QED BY <2>5, <2>7, <2>9 DEF q, live
<1>5. x(id).reply = NoReply /\ x(id).server = current(w)
  OBVIOUS
<1> HIDE DEF x, k
<1>6. /\ trace'[w] = Append(trace[w], x(id)) /\ k \in Nat /\ Len(trace'[w]) = k + 1
      /\ trace'[w][k + 1] = x(id)
      /\ \A i \in 1..k : trace'[w][i] = trace[w][i]
      /\ trace'[w] # <<>>
  BY <1>1, <1>3, <1>4 DEF IInv, TypeOK, k
<1>7. TypeOK'
  <2>1. trace' \in [Workers -> Seq(Exchanges)]
    BY <1>1, <1>3, <1>4 DEF IInv, TypeOK
  <2> QED BY <1>2, <2>1 DEF IInv, TypeOK, exchange_Query, config
<1>8. Rendezvous'
  BY <1>2, InvOf, RendezvousKept, Zenon
<1>9. RoundsOf(w)'
  <2>1. \A i \in 1..k : trace[w][i].server = serverAt(servers[w], i - 1)
    BY <1>p, Zenon DEF RoundsOf, k
  <2>2. x(id).server = serverAt(servers[w], (k + 1) - 1)
    <3>1. (k + 1) - 1 = idx[w]
      BY <1>3, <1>6
    <3> QED BY <1>5, <3>1, Zenon DEF current
  <2>3. \A i \in 1..(k + 1) : trace'[w][i].server = serverAt(servers[w], i - 1)
    <3>1. \A i \in 1..(k + 1) : i \in 1..k \/ i = k + 1
      BY <1>6
    <3> QED BY <1>6, <2>1, <2>2, <3>1, Zenon
  <2>4. k + 1 <= (IF n[w] < 0 THEN 0 ELSE n[w])
    BY <1>2, <1>3, <1>6
  <2>5. servers[w] \in {<<>>, DefaultServers} \/ IsPrefix(servers[w], list)
    BY <1>p, Zenon DEF RoundsOf
  <2>6. idx'[w] + 1 = Len(trace'[w]) /\ idx'[w] < n'[w] /\ Queryable'
    BY <1>2, <1>3, <1>6 DEF Queryable
  <2> QED BY <1>2, <1>3, <1>6, <2>3, <2>4, <2>5, <2>6, Zenon DEF RoundsOf
<1>10. SettlesOf(w)'
  <2>1. \A i \in 1..k : trace[w][i].reply # NoReply =>
          Interpret(trace[w][i].query, trace[w][i].reply).err \notin {Nil, "ErrNoName"}
    <3>1. \A i \in 1..(k - 1) : trace[w][i].reply # NoReply =>
            Interpret(trace[w][i].query, trace[w][i].reply).err \notin {Nil, "ErrNoName"}
      BY <1>p, Zenon DEF SettlesOf, answered, outcome, k
    <3>2. trace[w] # <<>> /\ trace[w][k].reply # NoReply =>
            Interpret(trace[w][k].query, trace[w][k].reply).err \notin {Nil, "ErrNoName"}
      BY <1>2, <1>p, Zenon DEF SettlesOf, answered, outcome, k
    <3>3. k # 0 => trace[w] # <<>>
      BY DEF k
    <3>4. \A i \in 1..k : i \in 1..(k - 1) \/ (i = k /\ k # 0)
      BY <1>6
    <3> QED BY <3>1, <3>2, <3>3, <3>4, Zenon
  <2>2. \A i \in 1..(Len(trace'[w]) - 1) : i \in 1..k
    BY <1>6
  <2>3. \A i \in 1..(Len(trace'[w]) - 1) : trace'[w][i].reply # NoReply =>
          Interpret(trace'[w][i].query, trace'[w][i].reply).err \notin {Nil, "ErrNoName"}
    BY <1>6, <2>1, <2>2, Zenon
  <2>4. trace'[w][Len(trace'[w])].reply = NoReply
    BY <1>5, <1>6, Zenon
  <2> QED BY <1>2, <1>6, <2>3, <2>4, Zenon DEF SettlesOf, answered, outcome
<1>11. ResultOf(w)'
  BY <1>2, <1>p, Zenon DEF ResultOf
<1>12. ASSUME NEW v \in Workers, v # w PROVE LookupInv(v)'
  BY <1>1, <1>2, <1>12, Untouched DEF IInv, TypeOK
<1> QED BY <1>7, <1>8, <1>9, <1>10, <1>11, <1>12 DEF IInv, LookupInv

\* A reply to the query under way: it settles the lookup, or the loop goes on.
LEMMA ReplyStep ==
  ASSUME IInv, NEW w \in Workers, exchange_Reply(w)
  PROVE  IInv'
<1> DEFINE k == Len(trace[w])
           query == trace[w][k].query
<1>1. PICK m \in Replies :
        /\ trace' = [trace EXCEPT ![w][k].reply = m]
        /\ \/ /\ Interpret(query, m).err # Nil
              /\ attemptFailed(w, Interpret(query, m).err)
           \/ /\ Interpret(query, m).err = Nil
              /\ res' = [res EXCEPT ![w] = decodeLookup(w, Interpret(query, m).val)]
              /\ Goto(w, "send") /\ UNCHANGED idx
  BY DEF exchange_Reply
<1> DEFINE out == Interpret(query, m)
<1>2. /\ out.err \in Errors
      /\ out.err # Nil => out.val = <<>>
      /\ out.err = Nil => out.val \in Seq(ToSet(m.answer)) /\ out.val # <<>>
      /\ out.err = "ErrNoName" =>
           m.rcode = "NXDOMAIN" /\ ValidateResponse(query, m) = Nil
  BY ReplyOutcome
<1> HIDE DEF out
<1>3. /\ pc[w] = "query" /\ host' = host /\ list' = list /\ n' = n
      /\ servers' = servers /\ main' = main /\ answer' = answer
  BY DEF exchange_Reply, config
<1>p. RoundsOf(w) /\ SettlesOf(w)
  BY InvOf
<1>4. /\ trace[w] \in Seq(Exchanges) /\ k \in Nat /\ k \in 1..k /\ m # NoReply
      /\ idx[w] + 1 = k /\ idx[w] < n[w] /\ idx[w] \in Nat /\ n[w] \in Int
  <2>1. idx[w] + 1 = k /\ idx[w] < n[w]
    BY <1>3, <1>p, Zenon DEF RoundsOf
  <2>2. trace[w] \in Seq(Exchanges) /\ idx[w] \in Nat /\ n[w] \in Int
    BY DEF IInv, TypeOK
  <2> QED BY <2>1, <2>2, ResolverAssumption
<1>5. trace[w][k] \in Exchanges
  BY <1>4
<1> HIDE DEF k
<1>6. /\ trace'[w] = [trace[w] EXCEPT ![k] = [trace[w][k] EXCEPT !.reply = m]]
      /\ \A v \in Workers : v # w => trace'[v] = trace[v]
  BY <1>1 DEF IInv, TypeOK
<1>7. [trace[w][k] EXCEPT !.reply = m] \in Exchanges
  BY <1>5 DEF Exchanges
<1>8. /\ trace'[w] \in Seq(Exchanges) /\ Len(trace'[w]) = k /\ trace'[w] # <<>>
      /\ trace'[w][k] = [trace[w][k] EXCEPT !.reply = m]
      /\ \A i \in 1..k : i # k => trace'[w][i] = trace[w][i]
  BY <1>4, <1>6, <1>7 DEF k
<1>9. /\ trace'[w][k].reply = m /\ trace'[w][k].query = query
      /\ trace'[w][k].server = trace[w][k].server
  BY <1>5, <1>8 DEF Exchanges
<1>10. trace' \in [Workers -> Seq(Exchanges)]
  <2>1. trace' = [trace EXCEPT ![w] = trace'[w]]
    BY <1>1 DEF IInv, TypeOK
  <2> QED BY <1>8, <2>1 DEF IInv, TypeOK
<1> HIDE DEF query
<1>11. /\ trace'[w][k].reply # NoReply
       /\ Interpret(trace'[w][k].query, trace'[w][k].reply) = out
  BY <1>4, <1>9 DEF out
<1>12. \A i \in 1..(k - 1) : trace'[w][i].reply # NoReply =>
         Interpret(trace'[w][i].query, trace'[w][i].reply).err \notin {Nil, "ErrNoName"}
  <2>1. \A i \in 1..(k - 1) : i \in 1..k /\ i # k
    BY <1>4
  <2>2. \A i \in 1..(k - 1) : trace[w][i].reply # NoReply =>
          Interpret(trace[w][i].query, trace[w][i].reply).err \notin {Nil, "ErrNoName"}
    BY <1>p, Zenon DEF SettlesOf, answered, outcome, k
  <2> QED BY <1>8, <2>1, <2>2, Zenon
<1>13. /\ \A i \in 1..k : trace'[w][i].server = serverAt(servers[w], i - 1)
       /\ k <= (IF n[w] < 0 THEN 0 ELSE n[w])
       /\ servers[w] \in {<<>>, DefaultServers} \/ IsPrefix(servers[w], list)
       /\ servers[w] # <<>> /\ Queryable
  <2>1. \A i \in 1..k : trace[w][i].server = serverAt(servers[w], i - 1)
    BY <1>p, Zenon DEF RoundsOf, k
  <2>2. \A i \in 1..k : trace'[w][i].server = trace[w][i].server
    BY <1>8, <1>9, Zenon
  <2>3. trace[w] # <<>>
    BY <1>4 DEF k
  <2>4. servers[w] # <<>> /\ Queryable
    BY <1>3, <1>p, <2>3, Zenon DEF RoundsOf
  <2>5. /\ k <= (IF n[w] < 0 THEN 0 ELSE n[w])
        /\ servers[w] \in {<<>>, DefaultServers} \/ IsPrefix(servers[w], list)
    BY <1>p, Zenon DEF RoundsOf, k
  <2> QED BY <2>1, <2>2, <2>4, <2>5, Zenon
<1>14. CASE out.err # Nil /\ attemptFailed(w, out.err)
  <2> DEFINE label == IF out.err = "ErrNoName" THEN "send" ELSE "loop"
  <2>1. /\ pc' = [pc EXCEPT ![w] = label] /\ pc'[w] = label
        /\ res' = [res EXCEPT ![w] = Fail(out.err)] /\ res'[w] = Fail(out.err)
        /\ idx' = [idx EXCEPT ![w] = @ + 1] /\ idx'[w] = k
    BY <1>4, <1>14 DEF IInv, TypeOK, attemptFailed, Goto
  <2>2. Fail(out.err) \in Results
    <3>1. out.err \in Errors
      BY <1>2 DEF Results
    <3>2. <<>> \in Seq(Addresses)
      OBVIOUS
    <3> QED BY <3>1, <3>2 DEF Fail, Results
  <2>3. res'[w].val = <<>> /\ res'[w].err = out.err
    BY <2>1 DEF Fail
  <2>4. TypeOK'
    BY <1>3, <1>10, <2>1, <2>2 DEF IInv, TypeOK, exchange_Reply, config
  <2>5. Rendezvous'
    <3>1. label \notin {"none", "exited"}
      OBVIOUS
    <3> QED BY <1>3, <2>1, <3>1, InvOf, RendezvousKept, Zenon
  <2>6. RoundsOf(w)'
    <3>1. pc'[w] \notin {"none", "start", "attempts", "servers", "query"}
      BY <2>1
    <3> QED BY <1>3, <1>8, <1>13, <2>1, <3>1, Zenon DEF RoundsOf, Queryable
  <2>7. SettlesOf(w)'
    <3>1. CASE out.err = "ErrNoName"
      <4>1. pc'[w] = "send"
        BY <2>1, <3>1, Zenon
      <4> QED BY <1>8, <1>11, <1>12, <3>1, <4>1 DEF SettlesOf, answered, outcome
    <3>2. CASE out.err # "ErrNoName"
      <4>1. pc'[w] = "loop"
        BY <2>1, <3>2, Zenon
      <4> QED BY <1>8, <1>11, <1>12, <1>14, <3>2, <4>1 DEF SettlesOf, answered, outcome
    <3> QED BY <3>1, <3>2, Zenon
  <2>8. ResultOf(w)'
    <3>1. CASE out.err = "ErrNoName"
      <4>1. found(w)' = {}
        <5>1. out.val = <<>>
          BY <1>2, <1>14
        <5>2. ToSet(<<>>) = {}
          BY DEF ToSet
        <5> QED BY <1>8, <1>11, <5>1, <5>2 DEF found, answered, outcome
      <4>2. NoSuchName(w)'
        BY <1>2, <1>8, <1>9, <1>11, <3>1 DEF NoSuchName, answered
      <4>3. ToSet(<<>>) = {}
        BY DEF ToSet
      <4>4. res'[w].val = <<>> /\ res'[w].err # Nil /\ pc'[w] = "send"
        BY <2>1, <2>3, <3>1 DEF Nil
      <4> QED BY <4>1, <4>2, <4>3, <4>4 DEF ResultOf
    <3>2. CASE out.err # "ErrNoName"
      <4>1. pc'[w] = "loop"
        BY <2>1, <3>2, Zenon
      <4> QED BY <1>14, <2>3, <3>2, <4>1 DEF ResultOf
    <3> QED BY <3>1, <3>2, Zenon
  <2>9. ASSUME NEW v \in Workers, v # w PROVE LookupInv(v)'
    BY <1>3, <1>6, <2>1, <2>9, Untouched DEF IInv, TypeOK
  <2> QED BY <2>4, <2>5, <2>6, <2>7, <2>8, <2>9 DEF IInv, LookupInv
<1>15. CASE /\ out.err = Nil /\ Goto(w, "send") /\ UNCHANGED idx
            /\ res' = [res EXCEPT ![w] = decodeLookup(w, out.val)]
  <2> DEFINE d == decodeLookup(w, out.val)
             addrs == {Text[rr.data] : rr \in {r \in ToSet(out.val) : r.type = w}}
  <2>1. /\ d = [val |-> d.val, err |-> d.err]
        /\ d.val \in Seq(addrs) /\ ToSet(d.val) = addrs
        /\ d.err \in {Nil, "ErrNoData"}
        /\ d.err = Nil <=> d.val # <<>>
    BY <1>2, <1>15, Decoded
  <2> HIDE DEF d
  <2>2. addrs \subseteq Addresses
    <3>1. ToSet(out.val) \subseteq ToSet(m.answer)
      <4>1. out.val \in Seq(ToSet(m.answer))
        BY <1>2, <1>15, Zenon
      <4>2. \A i \in DOMAIN out.val : out.val[i] \in ToSet(m.answer)
        BY <4>1
      <4>3. ToSet(out.val) = {out.val[i] : i \in DOMAIN out.val}
        BY Zenon DEF ToSet
      <4> QED BY <4>2, <4>3, Zenon
    <3> QED BY <3>1 DEF Addresses
  <2>3. found(w)' = addrs
    BY <1>8, <1>11 DEF found, answered, outcome
  <2> HIDE DEF addrs
  <2>4. d \in Results
    <3>1. d.val \in Seq(Addresses)
      BY <2>1, <2>2
    <3> QED BY <2>1, <3>1 DEF Results, Errors
  <2>5. /\ pc' = [pc EXCEPT ![w] = "send"] /\ pc'[w] = "send"
        /\ res' = [res EXCEPT ![w] = d] /\ res'[w] = d /\ idx' = idx
    BY <1>15 DEF IInv, TypeOK, Goto, d
  <2>6. TypeOK'
    BY <1>3, <1>10, <2>4, <2>5 DEF IInv, TypeOK, exchange_Reply, config
  <2>7. Rendezvous'
    BY <1>3, <2>5, InvOf, RendezvousKept, Zenon
  <2>8. RoundsOf(w)'
    BY <1>3, <1>8, <1>13, <2>5 DEF RoundsOf, Queryable
  <2>9. SettlesOf(w)'
    BY <1>8, <1>11, <1>12, <1>15, <2>5 DEF SettlesOf, answered, outcome
  <2>10. ResultOf(w)'
    BY <2>1, <2>3, <2>5 DEF ResultOf, Nil
  <2>11. ASSUME NEW v \in Workers, v # w PROVE LookupInv(v)'
    BY <1>3, <1>6, <2>5, <2>11, Untouched DEF IInv, TypeOK
  <2> QED BY <2>6, <2>7, <2>8, <2>9, <2>10, <2>11 DEF IInv, LookupInv
<1> QED BY <1>1, <1>14, <1>15 DEF out

\* LookupHost starts its two goroutines.
LEMMA SpawnStep ==
  ASSUME IInv, LookupHost_Spawn
  PROVE  IInv'
<1>1. /\ main = "spawn" /\ main' = "recvA" /\ pc' = [w \in Workers |-> "start"]
      /\ host' = host /\ list' = list /\ n' = n /\ servers' = servers
      /\ idx' = idx /\ res' = res /\ trace' = trace
  BY DEF LookupHost_Spawn, config
<1>2. TypeOK'
  BY <1>1 DEF IInv, TypeOK, LookupHost_Spawn, config
<1>3. Rendezvous'
  BY <1>1 DEF Rendezvous, Workers
<1>4. ASSUME NEW w \in Workers PROVE LookupInv(w)'
  <2>1. pc[w] = "none" /\ pc'[w] = "start" /\ trace[w] = <<>>
    <3>1. RoundsOf(w) /\ Rendezvous
      BY InvOf
    <3>2. pc[w] = "none"
      BY <1>1, <3>1, Zenon DEF Rendezvous
    <3> QED BY <1>1, <3>1, <3>2 DEF RoundsOf
  <2>2. RoundsOf(w)'
    <3>1. RoundsOf(w) /\ n[w] \in Int
      BY InvOf DEF TypeOK
    <3>2. servers[w] = <<>> /\ idx[w] = 0
      BY <2>1, <3>1, Zenon DEF RoundsOf
    <3> QED BY <1>1, <2>1, <3>1, <3>2, NoRounds
  <2>3. SettlesOf(w)'
    BY <1>1, <2>1, NothingToSettle
  <2>4. ResultOf(w)'
    BY <2>1 DEF ResultOf
  <2> QED BY <2>2, <2>3, <2>4 DEF LookupInv
<1> QED BY <1>2, <1>3, <1>4 DEF IInv

\* A goroutine that sends its result leaves: its invariant holds as before.
LEMMA Leaves ==
  ASSUME IInv, NEW w \in Workers, pc[w] = "send", pc' = [pc EXCEPT ![w] = "exited"],
         host' = host, list' = list, n' = n, servers' = servers, idx' = idx,
         res' = res, trace' = trace
  PROVE  \A v \in Workers : LookupInv(v)'
<1>1. pc'[w] = "exited"
  BY DEF IInv, TypeOK
<1>p. RoundsOf(w) /\ SettlesOf(w) /\ ResultOf(w)
  BY InvOf
<1>2. RoundsOf(w)'
  BY <1>1, <1>p, Zenon DEF RoundsOf, Queryable
<1>3. SettlesOf(w)'
  BY <1>1, <1>p, Zenon DEF SettlesOf, answered, outcome
<1>4. ResultOf(w)'
  <2>1. NoSuchName(w)' = NoSuchName(w) /\ found(w)' = found(w)
    BY Zenon DEF NoSuchName, found, answered, outcome
  <2> QED BY <1>1, <1>p, <2>1, Zenon DEF ResultOf
<1>5. ASSUME NEW v \in Workers, v # w PROVE LookupInv(v)'
  BY <1>5, Untouched DEF IInv, TypeOK
<1> QED BY <1>2, <1>3, <1>4, <1>5 DEF LookupInv

\* LookupHost receives the two results, in this order.
LEMMA RecvStep ==
  ASSUME IInv, LookupHost_RecvA \/ LookupHost_RecvAAAA
  PROVE  IInv'
<1>1. "A" \in Workers /\ "AAAA" \in Workers /\ Workers = {"A", "AAAA"}
  BY DEF Workers
<1>2. CASE LookupHost_RecvA
  <2>1. /\ main = "recvA" /\ main' = "recvAAAA" /\ pc["A"] = "send"
        /\ pc' = [pc EXCEPT !["A"] = "exited"]
        /\ host' = host /\ list' = list /\ n' = n /\ servers' = servers
        /\ idx' = idx /\ res' = res /\ trace' = trace
    BY <1>2 DEF LookupHost_RecvA, Goto, config
  <2>2. TypeOK'
    BY <1>2, <2>1 DEF IInv, TypeOK, LookupHost_RecvA, config
  <2>3. pc'["A"] = "exited" /\ pc'["AAAA"] = pc["AAAA"]
    BY <1>1, <2>1 DEF IInv, TypeOK
  <2>4. Rendezvous'
    BY <1>1, <2>1, <2>3 DEF IInv, Rendezvous
  <2> QED BY <1>1, <2>1, <2>2, <2>4, Leaves DEF IInv
<1>3. CASE LookupHost_RecvAAAA
  <2>1. /\ main = "recvAAAA" /\ main' = "merge" /\ pc["AAAA"] = "send"
        /\ pc' = [pc EXCEPT !["AAAA"] = "exited"]
        /\ host' = host /\ list' = list /\ n' = n /\ servers' = servers
        /\ idx' = idx /\ res' = res /\ trace' = trace
    BY <1>3 DEF LookupHost_RecvAAAA, Goto, config
  <2>2. TypeOK'
    BY <1>3, <2>1 DEF IInv, TypeOK, LookupHost_RecvAAAA, config
  <2>3. pc'["AAAA"] = "exited" /\ pc'["A"] = pc["A"]
    BY <1>1, <2>1 DEF IInv, TypeOK
  <2>4. Rendezvous'
    BY <1>1, <2>1, <2>3 DEF IInv, Rendezvous
  <2> QED BY <1>1, <2>1, <2>2, <2>4, Leaves DEF IInv
<1> QED BY <1>2, <1>3

\* LookupHost merges the results and returns.
LEMMA MergeStep ==
  ASSUME IInv, LookupHost_Merge
  PROVE  IInv'
<1>1. /\ main = "merge" /\ main' = "done" /\ answer' = merge(res["A"], res["AAAA"])
      /\ pc' = pc /\ host' = host /\ list' = list /\ n' = n /\ servers' = servers
      /\ idx' = idx /\ res' = res /\ trace' = trace
  BY DEF LookupHost_Merge, config
<1>2. TypeOK'
  BY <1>1 DEF IInv, TypeOK, LookupHost_Merge, config
<1>3. Rendezvous'
  BY <1>1 DEF IInv, Rendezvous, Workers
<1>4. ASSUME NEW w \in Workers PROVE LookupInv(w)'
  BY <1>1, Untouched DEF IInv
<1> QED BY <1>2, <1>3, <1>4 DEF IInv

\* The caller, the timers and the goroutines that reconfigure the resolver
\* change nothing that a lookup in flight depends on.
LEMMA EnvironmentStep ==
  ASSUME IInv,
         \/ Cancel \/ SetAttempts \/ AddServer \/ UNCHANGED vars
         \/ \E w \in Workers : ExchangeTimeout(w)
  PROVE  IInv'
<1>1. /\ pc' = pc /\ host' = host /\ n' = n /\ servers' = servers /\ idx' = idx
      /\ res' = res /\ trace' = trace /\ main' = main /\ answer' = answer
      /\ list' = list \/ \E s \in ConfigServers : list' = Append(list, s)
  BY DEF Cancel, SetAttempts, AddServer, vars, ExchangeTimeout, config
<1>2. list' \in Seq(ConfigServers)
  <2>1. list \in Seq(ConfigServers)
    BY DEF IInv, TypeOK
  <2>2. \A s \in ConfigServers : Append(list, s) \in Seq(ConfigServers)
    BY <2>1
  <2> QED BY <1>1, <2>1, <2>2
<1>3. ctx' \in {"live", "done"}
  BY DEF IInv, TypeOK, Cancel, SetAttempts, AddServer, vars, ExchangeTimeout
<1>4. attempts' \in Int
  BY ResolverAssumption
     DEF IInv, TypeOK, Cancel, SetAttempts, AddServer, vars, ExchangeTimeout, config
<1>5. timedOut' \in [Workers -> BOOLEAN]
  BY DEF IInv, TypeOK, Cancel, SetAttempts, AddServer, vars, ExchangeTimeout
<1>6. TypeOK'
  BY <1>1, <1>2, <1>3, <1>4, <1>5 DEF IInv, TypeOK
<1>7. Rendezvous'
  BY <1>1 DEF IInv, Rendezvous
<1>8. ASSUME NEW w \in Workers PROVE LookupInv(w)'
  BY <1>1, Untouched DEF IInv
<1> QED BY <1>6, <1>7, <1>8 DEF IInv

\* Every step of the two lookups, of LookupHost and of the environment preserves
\* the inductive invariant.
LEMMA NextStep == IInv /\ [Next]_vars => IInv'
<1> SUFFICES ASSUME IInv, [Next]_vars PROVE IInv'
  OBVIOUS
<1>1. ASSUME NEW w \in Workers, Lookup(w) PROVE IInv'
  BY <1>1, StartStep, AttemptsStep, ServersStep, ExhaustedStep, RefuseStep, QueryStep
     DEF Lookup
<1>2. ASSUME NEW w \in Workers, Exchange(w) PROVE IInv'
  BY <1>2, ErrorStep, ReplyStep DEF Exchange
<1>3. CASE LookupHost
  BY <1>3, SpawnStep, RecvStep, MergeStep DEF LookupHost
<1>4. CASE \/ Cancel \/ SetAttempts \/ AddServer \/ UNCHANGED vars
           \/ \E w \in Workers : ExchangeTimeout(w)
  BY <1>4, EnvironmentStep
<1> QED BY <1>1, <1>2, <1>3, <1>4 DEF Next, Terminated

\* The inductive invariant holds in every reachable state, for all hosts, servers,
\* replies and reconfigurations.
THEOREM ResolverInvariant == Spec => []IInv
BY InitIInv, NextStep, PTL DEF Spec

\* A lookup makes at most the configured number of queries and walks the servers
\* configured when it started in turn, whatever AddServer and SetAttempts do
\* meanwhile.
THEOREM LookupRoundRobin == Spec => []RoundRobin
BY ResolverInvariant, InvRoundRobin, PTL

\* Only the last query of a lookup settles it, and the lookup does not give up
\* before while attempts are left.
THEOREM LookupLastQuerySettles == Spec => []LastQuerySettles
BY ResolverInvariant, InvLastQuerySettles, PTL

\* LookupHost returns exactly the addresses of the valid answers, without
\* duplicates and IPv4 first.
THEOREM LookupHostAddresses == Spec => []AddressesFromValidAnswers
BY ResolverInvariant, InvAddresses, PTL

\* LookupHost reports NXDOMAIN only if a server said so, and a lack of data only
\* if that is how both lookups ended.
THEOREM LookupHostHonestError == Spec => []HonestError
BY ResolverInvariant, InvHonestError, PTL

\* When LookupHost returns both goroutines have left.
THEOREM LookupHostLeavesNoGoroutine == Spec => []NoGoroutineLeft
BY ResolverInvariant, InvNoGoroutineLeft, PTL
=============================================================================
