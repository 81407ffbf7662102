--------------------------- MODULE SequenceFacts ---------------------------
(***************************************************************************)
(* Facts the other proof modules rest on: sets of numbers, what FlattenSeq *)
(* makes of a sequence of sequences, and sums over finite sets.            *)
(***************************************************************************)
EXTENDS
  Integers, SequencesExt, SequenceTheorems, FiniteSetTheorems, WellFoundedInduction, TLAPS

Less == {p \in Nat \X Nat : p[1] < p[2]}

LEMMA LessIsWellFounded == IsWellFoundedOn(Less, Nat)
<1>1. IsWellFoundedOn(OpToRel(<, Nat), Nat)
  BY NatLessThanWellFounded
<1>2. OpToRel(<, Nat) = Less
  BY DEF OpToRel, Less
<1>. QED
  BY <1>1, <1>2

\* A set of numbers has a least element.
LEMMA LeastElement ==
  ASSUME NEW T \in SUBSET Nat, T # {}
  PROVE  \E m \in T : \A k \in T : m <= k
<1>1. PICK m \in T : \A k \in T : ~(<<k, m>> \in Less)
  BY LessIsWellFounded, WFMin
<1>2. ASSUME NEW k \in T PROVE m <= k
  <2>1. m \in Nat /\ k \in Nat
    OBVIOUS
  <2>2. ~(k < m)
    BY <1>1, <2>1 DEF Less
  <2>. QED
    BY <2>1, <2>2
<1>. QED
  BY <1>2

\* What holds of 0 and goes from each number to the next holds up to n.
LEMMA Reaches ==
  ASSUME NEW n \in Nat, NEW T, 0 \in T,
         \A k \in 0..(n - 1) : k \in T => k + 1 \in T
  PROVE  n \in T
<1> SUFFICES ASSUME n \notin T PROVE FALSE
  OBVIOUS
<1>1. PICK m \in (0..n) \ T : \A k \in (0..n) \ T : m <= k
  <2>1. (0..n) \ T \in SUBSET Nat /\ (0..n) \ T # {}
    OBVIOUS
  <2>. QED
    BY <2>1, LeastElement
<1>2. m # 0 /\ m - 1 \in 0..(n - 1)
  OBVIOUS
<1>3. m - 1 \in T
  BY <1>1, <1>2
<1>. QED
  BY <1>1, <1>2, <1>3
----------------------------------------------------------------------------
(***************************************************************************)
(* FlattenSeq is defined by a recursion: there is a function that it       *)
(* defines, and its values are the sequences joined so far.                *)
(***************************************************************************)
Flattens(f, s) ==
  f = [i \in 1..Len(s) |-> IF i = 1 THEN s[i] ELSE f[i - 1] \o s[i]]

LEMMA FlattensExists ==
  ASSUME NEW T, NEW s \in Seq(Seq(T)), Len(s) # 0
  PROVE  \E f : Flattens(f, s)
<1> DEFINE Upto(n, f) == \A i \in 1..n : f[i] = IF i = 1 THEN s[i] ELSE f[i - 1] \o s[i]
           Reached == {n \in Nat : n <= Len(s) =>
                         \E f \in [1..n -> Seq(T)] : Upto(n, f)}
<1>1. 0 \in Reached
  <2>1. [i \in 1..0 |-> << >>] \in [1..0 -> Seq(T)]
    OBVIOUS
  <2>2. Upto(0, [i \in 1..0 |-> << >>])
    OBVIOUS
  <2>. QED
    BY <2>1, <2>2
<1>2. ASSUME NEW n \in 0..(Len(s) - 1), n \in Reached PROVE n + 1 \in Reached
  <2>0. n \in Nat /\ n <= Len(s)
    OBVIOUS
  <2>1. PICK f \in [1..n -> Seq(T)] : Upto(n, f)
    BY <1>2, <2>0
  <2> DEFINE next == IF n = 0 THEN s[1] ELSE f[n] \o s[n + 1]
             g == [i \in 1..(n + 1) |-> IF i = n + 1 THEN next ELSE f[i]]
  <2>2. n + 1 \in 1..Len(s) /\ s[n + 1] \in Seq(T) /\ s[1] \in Seq(T)
    OBVIOUS
  <2>3. next \in Seq(T)
    <3>1. CASE n = 0
      BY <2>2, <3>1
    <3>2. CASE n # 0
      <4>1. f[n] \in Seq(T)
        BY <3>2
      <4>. QED
        BY <2>2, <3>2, <4>1
    <3>. QED
      BY <3>1, <3>2
  <2> HIDE DEF next
  <2>4. g \in [1..(n + 1) -> Seq(T)]
    BY <2>3
  <2>5. Upto(n + 1, g)
    <3>1. ASSUME NEW i \in 1..(n + 1)
          PROVE  g[i] = IF i = 1 THEN s[i] ELSE g[i - 1] \o s[i]
      <4>1. CASE i = n + 1 /\ n = 0
        BY <4>1 DEF next
      <4>2. CASE i = n + 1 /\ n # 0
        <5>1. g[i - 1] = f[n] /\ g[i] = next
          BY <4>2
        <5>2. next = f[n] \o s[n + 1]
          BY <4>2 DEF next
        <5>3. i # 1 /\ s[i] = s[n + 1]
          BY <4>2
        <5>4. g[i] = g[i - 1] \o s[i]
          <6> HIDE DEF g, next, Upto, Reached
          <6>. QED
            BY <5>1, <5>2, <5>3
        <5>. QED
          BY <5>3, <5>4
      <4>3. CASE i # n + 1
        <5>1. i \in 1..n /\ g[i] = f[i] /\ (i # 1 => g[i - 1] = f[i - 1])
          BY <4>3
        <5>. QED
          BY <2>1, <5>1
      <4>. QED
        BY <4>1, <4>2, <4>3
    <3>. QED
      BY <3>1
  <2> HIDE DEF Upto, g
  <2>. QED
    BY <2>4, <2>5
<1>3. Len(s) \in Reached
  <2> HIDE DEF Reached
  <2>. QED
    BY <1>1, <1>2, Reaches
<1>4. PICK f \in [1..Len(s) -> Seq(T)] : Upto(Len(s), f)
  BY <1>3, SMTT(30)
<1>5. Flattens(f, s)
  BY <1>4 DEF Flattens
<1>. QED
  BY <1>5

\* r consists of the sequences s; the n-th of them comes after at[n] elements.
Segments(at, s, r) ==
  /\ at \in [1..(Len(s) + 1) -> Nat] /\ at[1] = 0 /\ at[Len(s) + 1] = Len(r)
  /\ \A n \in 1..Len(s) : at[n + 1] = at[n] + Len(s[n])
  /\ \A n \in 1..Len(s) : \A j \in 1..Len(s[n]) : r[at[n] + j] = s[n][j]

Joined(r, t) == r \o t

LEMMA ElementOfSecond ==
  ASSUME NEW T, NEW r \in Seq(T), NEW t \in Seq(T), NEW j \in 1..Len(t)
  PROVE  Joined(r, t)[Len(r) + j] = t[j]
BY DEF Joined

LEMMA ElementOfNext ==
  ASSUME NEW T, NEW s \in Seq(Seq(T)), NEW n \in 1..Len(s), NEW r \in Seq(T),
         NEW j \in 1..Len(s[n])
  PROVE  Joined(r, s[n])[Len(r) + j] = s[n][j]
<1>1. s[n] \in Seq(T)
  OBVIOUS
<1>. QED
  BY <1>1, ElementOfSecond

\* r consists of the first n of them.
JoinedUpTo(at, s, n, r) ==
  /\ \A m \in 1..n : at[m + 1] = at[m] + Len(s[m]) /\ at[m + 1] <= at[n + 1]
  /\ \A m \in 1..n : \A j \in 1..Len(s[m]) : r[at[m] + j] = s[m][j]

Extends(at, s, n, r) ==
  Len(r) = at[n] /\ JoinedUpTo(at, s, n - 1, r) /\ at[n + 1] = Len(r \o s[n])

\* Joining one more sequence adds a segment.
LEMMA OneMoreSegment ==
  ASSUME NEW T, NEW s \in Seq(Seq(T)), NEW n \in 1..Len(s),
         NEW at \in [1..(Len(s) + 1) -> Nat], NEW r \in Seq(T),
         Extends(at, s, n, r)
  PROVE  JoinedUpTo(at, s, n, r \o s[n])
<1> DEFINE q == r \o s[n]
<1>0. Len(r) = at[n] /\ JoinedUpTo(at, s, n - 1, r) /\ at[n + 1] = Len(q)
  BY DEF Extends
<1>8. ASSUME NEW m \in 1..(n - 1) PROVE at[m + 1] = at[m] + Len(s[m]) /\ at[m + 1] <= at[n]
  <2>1. n - 1 + 1 = n
    OBVIOUS
  <2>. QED
    BY <1>0, <2>1 DEF JoinedUpTo
<1>9. ASSUME NEW m \in 1..(n - 1), NEW j \in 1..Len(s[m]) PROVE r[at[m] + j] = s[m][j]
  BY <1>0 DEF JoinedUpTo
<1>1. ASSUME NEW m \in 1..n
      PROVE  /\ m \in Nat /\ m \in 1..Len(s) /\ m + 1 \in 1..(Len(s) + 1) /\ m \in 1..(Len(s) + 1)
             /\ s[m] \in Seq(T) /\ Len(s[m]) \in Nat /\ at[m] \in Nat /\ at[m + 1] \in Nat
  <2>1. m \in Nat /\ m \in 1..Len(s) /\ m + 1 \in 1..(Len(s) + 1) /\ m \in 1..(Len(s) + 1)
    OBVIOUS
  <2>2. s[m] \in Seq(T)
    BY <2>1
  <2>3. at[m] \in Nat /\ at[m + 1] \in Nat
    BY <2>1
  <2>. QED
    BY <2>1, <2>2, <2>3
<1>2. q \in Seq(T) /\ Len(q) = Len(r) + Len(s[n])
  BY <1>1
<1>3. at[n] \in Nat /\ at[n + 1] \in Nat /\ at[n + 1] = at[n] + Len(s[n])
  BY <1>0, <1>2
<1>4. ASSUME NEW m \in 1..n
      PROVE  at[m + 1] = at[m] + Len(s[m]) /\ at[m + 1] <= at[n + 1]
  <2>1. CASE m = n
    BY <1>3, <2>1
  <2>2. CASE m # n
    <3>1. m \in 1..(n - 1)
      BY <2>2
    <3>2. at[m + 1] = at[m] + Len(s[m]) /\ at[m + 1] <= at[n]
      BY <1>8, <3>1
    <3>4. Len(s[n]) \in Nat
      BY <1>1
    <3>3. at[m + 1] \in Nat
      BY <1>1
    <3>. QED
      BY <1>3, <3>2, <3>3, <3>4
  <2>. QED
    BY <2>1, <2>2
<1>5. ASSUME NEW j \in 1..Len(s[n]) PROVE q[at[n] + j] = s[n][j]
  <2>1. s[n] \in Seq(T) /\ Len(s[n]) \in Nat /\ Len(r) \in Nat /\ j \in Nat
    BY <1>1
  <2>2. q[Len(r) + j] = s[n][j]
    <3>1. Joined(r, s[n])[Len(r) + j] = s[n][j]
      BY ElementOfNext
    <3>. QED
      BY <1>0, <3>1 DEF Joined
  <2>. QED
    BY <1>0, <2>2
<1>6. ASSUME NEW m \in 1..(n - 1), NEW j \in 1..Len(s[m]) PROVE q[at[m] + j] = s[m][j]
  <2>1. /\ s[m] \in Seq(T) /\ Len(s[m]) \in Nat /\ j \in Nat /\ at[m] \in Nat
        /\ Len(r) \in Nat /\ s[n] \in Seq(T)
    <3>1. m \in 1..n /\ n \in 1..n
      OBVIOUS
    <3>. QED
      BY <1>1, <3>1, SMTT(30)
  <2>2. r[at[m] + j] = s[m][j] /\ at[m] + Len(s[m]) <= at[n]
    BY <1>8, <1>9
  <2>3. at[m] + j \in 1..Len(r)
    <3> DEFINE a == at[m]
               l == Len(s[m])
    <3>1. a \in Nat /\ l \in Nat /\ j >= 1 /\ j <= l /\ a + l <= Len(r)
      BY <1>0, <2>1, <2>2
    <3> HIDE DEF a, l
    <3>2. a + j \in 1..Len(r)
      BY <2>1, <3>1
    <3>. QED
      BY <3>2 DEF a
  <2>4. q[at[m] + j] = r[at[m] + j]
    BY <2>1, <2>3
  <2>. QED
    BY <2>2, <2>4
<1>7. ASSUME NEW m \in 1..n, NEW j \in 1..Len(s[m]) PROVE q[at[m] + j] = s[m][j]
  <2>1. CASE m = n
    BY <1>5, <2>1
  <2>2. CASE m # n
    <3>1. m \in 1..(n - 1)
      BY <2>2
    <3>. QED
      BY <1>6, <3>1
  <2>. QED
    BY <2>1, <2>2
<1>. QED
  BY <1>4, <1>7 DEF JoinedUpTo

LEMMA FlattenSeqSegments ==
  ASSUME NEW T, NEW s \in Seq(Seq(T))
  PROVE  FlattenSeq(s) \in Seq(T) /\ \E at : Segments(at, s, FlattenSeq(s))
<1>1. CASE Len(s) = 0
  <2>1. s = << >> /\ FlattenSeq(s) = << >>
    BY <1>1 DEF FlattenSeq
  <2> DEFINE at == [n \in 1..(Len(s) + 1) |-> 0]
  <2>2. at \in [1..(Len(s) + 1) -> Nat] /\ at[1] = 0 /\ at[Len(s) + 1] = 0
    BY <1>1
  <2>3. Segments(at, s, FlattenSeq(s))
    <3> HIDE DEF at
    <3>. QED
      BY <1>1, <2>1, <2>2 DEF Segments
  <2>4. FlattenSeq(s) \in Seq(T)
    <3>1. << >> \in Seq(T)
      OBVIOUS
    <3>. QED
      BY <2>1, <3>1
  <2>. QED
    BY <2>3, <2>4
<1>2. CASE Len(s) # 0
  <2> DEFINE f == CHOOSE g : Flattens(g, s)
             at == [n \in 1..(Len(s) + 1) |-> IF n = 1 THEN 0 ELSE Len(f[n - 1])]
             JoinedTo(n) == JoinedUpTo(at, s, n, f[n])
             Done == {n \in Nat : 1 <= n /\ n <= Len(s) => JoinedTo(n)}
  <2>1. Flattens(f, s) /\ FlattenSeq(s) = f[Len(s)]
    <3>1. \E g : Flattens(g, s)
      BY <1>2, FlattensExists
    <3>2. FlattenSeq(s) = (CHOOSE g : Flattens(g, s))[Len(s)]
      BY <1>2 DEF FlattenSeq, Flattens
    <3>. QED
      BY <3>1, <3>2
  <2> HIDE DEF f
  <2>2. \A n \in 1..Len(s) : f[n] = IF n = 1 THEN s[n] ELSE f[n - 1] \o s[n]
    BY <2>1 DEF Flattens
  <2>3. ASSUME NEW n \in 1..Len(s) PROVE f[n] \in Seq(T)
    <3> DEFINE Typed == {m \in Nat : 1 <= m /\ m <= Len(s) => f[m] \in Seq(T)}
    <3>1. 0 \in Typed
      OBVIOUS
    <3>2. ASSUME NEW m \in 0..(n - 1), m \in Typed PROVE m + 1 \in Typed
      <4>1. m + 1 \in 1..Len(s) /\ s[m + 1] \in Seq(T)
        OBVIOUS
      <4>2. CASE m = 0
        <5>1. f[1] = s[1]
          BY <2>2, <4>1, <4>2
        <5>. QED
          BY <4>1, <4>2, <5>1
      <4>3. CASE m # 0
        <5>1. f[m + 1] = f[m] \o s[m + 1]
          <6>1. m + 1 # 1 /\ m + 1 - 1 = m
            BY <4>3
          <6>2. f[m + 1] = IF m + 1 = 1 THEN s[m + 1] ELSE f[m + 1 - 1] \o s[m + 1]
            BY <2>2, <4>1
          <6>. QED
            BY <6>1, <6>2
        <5>2. f[m] \in Seq(T)
          BY <3>2, <4>1, <4>3
        <5>3. f[m + 1] \in Seq(T)
          BY <4>1, <5>1, <5>2
        <5>. QED
          BY <4>1, <5>3
      <4>. QED
        BY <4>2, <4>3
    <3>3. n \in Typed
      <4> HIDE DEF Typed
      <4>. QED
        BY <3>1, <3>2, Reaches
    <3>. QED
      BY <3>3
  <2>4. /\ at \in [1..(Len(s) + 1) -> Nat] /\ at[1] = 0
        /\ \A n \in 1..Len(s) : at[n + 1] = Len(f[n])
    <3>1. \A n \in 1..(Len(s) + 1) : (IF n = 1 THEN 0 ELSE Len(f[n - 1])) \in Nat
      <4>1. ASSUME NEW n \in 1..(Len(s) + 1), n # 1 PROVE Len(f[n - 1]) \in Nat
        <5>1. n - 1 \in 1..Len(s)
          BY <4>1
        <5>2. f[n - 1] \in Seq(T)
          BY <2>3, <5>1
        <5>. QED
          BY <5>2
      <4>. QED
        BY <4>1
    <3>2. at \in [1..(Len(s) + 1) -> Nat]
      BY <3>1
    <3>. QED
      BY <3>2
  <2> HIDE DEF at
  <2>5. 0 \in Done
    OBVIOUS
  <2>6. ASSUME NEW n \in 0..(Len(s) - 1), n \in Done PROVE n + 1 \in Done
    <3>1. n + 1 \in 1..Len(s) /\ n + 1 \in Nat /\ s[n + 1] \in Seq(T)
      OBVIOUS
    <3>2. f[n + 1] \in Seq(T) /\ at[n + 1 + 1] = Len(f[n + 1])
      BY <2>3, <2>4, <3>1
    <3>3. CASE n = 0
      <4>1. f[1] = s[1] /\ at[1] = 0 /\ at[2] = Len(s[1]) /\ s[1] \in Seq(T)
        BY <2>2, <2>4, <3>1, <3>2, <3>3
      <4>2. \A m \in 1..1 : m = 1
        OBVIOUS
      <4>3. JoinedTo(1)
        BY <4>1, <4>2 DEF JoinedUpTo
      <4> HIDE DEF JoinedTo
      <4>. QED
        BY <3>1, <3>3, <4>3
    <3>4. CASE n # 0
      <4>1. n \in 1..Len(s) /\ n + 1 - 1 = n /\ n + 1 # 1
        BY <3>4
      <4>2. JoinedTo(n)
        <5> HIDE DEF JoinedTo
        <5>. QED
          BY <2>6, <4>1
      <4>3. f[n + 1] = f[n] \o s[n + 1]
        <5>1. f[n + 1] = IF n + 1 = 1 THEN s[n + 1] ELSE f[n + 1 - 1] \o s[n + 1]
          BY <2>2, <3>1
        <5>. QED
          BY <4>1, <5>1
      <4>4. at[n + 1] = Len(f[n]) /\ f[n] \in Seq(T)
        BY <2>3, <2>4, <4>1
      <4>5. JoinedTo(n + 1)
        <5>1. at \in [1..(Len(s) + 1) -> Nat]
          BY <2>4
        <5>2. PICK k \in 1..Len(s) : k = n + 1
          BY <3>1
        <5>3. JoinedUpTo(at, s, k - 1, f[n])
          BY <4>1, <4>2, <5>2
        <5>4. Extends(at, s, k, f[n])
          BY <3>2, <4>3, <4>4, <5>2, <5>3 DEF Extends
        <5>5. JoinedUpTo(at, s, k, f[n] \o s[k])
          BY <4>4, <5>1, <5>4, OneMoreSegment
        <5>. QED
          BY <4>3, <5>2, <5>5
      <4> HIDE DEF JoinedTo
      <4>. QED
        BY <3>1, <4>5
    <3>. QED
      BY <3>3, <3>4
  <2>7. Len(s) \in Done
    <3> HIDE DEF Done
    <3>. QED
      BY <2>5, <2>6, Reaches
  <2>8. JoinedTo(Len(s))
    <3> HIDE DEF JoinedTo
    <3>. QED
      BY <1>2, <2>7
  <2>9. at[Len(s) + 1] = Len(f[Len(s)])
    <3>1. Len(s) \in 1..Len(s)
      BY <1>2
    <3>. QED
      BY <2>4, <3>1
  <2>10. Segments(at, s, f[Len(s)])
    BY <2>4, <2>8, <2>9 DEF Segments, JoinedUpTo
  <2>11. f[Len(s)] \in Seq(T)
    BY <1>2, <2>3
  <2>. QED
    BY <2>1, <2>10, <2>11
<1>. QED
  BY <1>1, <1>2

\* The segments follow one another.
LEMMA SegmentsInOrder ==
  ASSUME NEW T, NEW s \in Seq(Seq(T)), NEW r \in Seq(T), NEW at, Segments(at, s, r),
         NEW m \in 1..(Len(s) + 1), NEW n \in m..(Len(s) + 1)
  PROVE  at[m] \in Nat /\ at[n] \in Nat /\ at[m] <= at[n]
<1> DEFINE Later == {d \in Nat : m + d <= Len(s) + 1 => at[m] <= at[m + d]}
<1>1. \A k \in 1..(Len(s) + 1) : at[k] \in Nat
  BY DEF Segments
<1>2. 0 \in Later
  BY <1>1
<1>3. ASSUME NEW d \in 0..(n - m - 1), d \in Later PROVE d + 1 \in Later
  <2>1. /\ m + d \in 1..Len(s) /\ d \in Nat /\ m + (d + 1) = m + d + 1
        /\ m + d \in 1..(Len(s) + 1) /\ m + d + 1 \in 1..(Len(s) + 1)
    OBVIOUS
  <2>2. at[m + d + 1] = at[m + d] + Len(s[m + d]) /\ s[m + d] \in Seq(T)
    <3>1. PICK e \in 1..Len(s) : e = m + d
      BY <2>1
    <3>2. at[e + 1] = at[e] + Len(s[e]) /\ s[e] \in Seq(T)
      BY DEF Segments
    <3>. QED
      BY <3>1, <3>2
  <2>3. Len(s[m + d]) \in Nat /\ at[m + d] \in Nat /\ at[m] \in Nat
    BY <1>1, <2>1, <2>2
  <2>4. at[m] <= at[m + d]
    BY <1>3, <2>1
  <2>5. at[m] <= at[m + d + 1]
    BY <2>2, <2>3, <2>4
  <2>. QED
    BY <2>1, <2>5
<1>4. n - m \in Later
  <2>1. n - m \in Nat
    OBVIOUS
  <2> HIDE DEF Later
  <2>. QED
    BY <1>2, <1>3, <2>1, Reaches
<1>5. m + (n - m) = n
  OBVIOUS
<1>. QED
  BY <1>1, <1>4, <1>5

\* Element k of r is in one of the segments.
InSegment(at, s, r, k) ==
  \E n \in 1..Len(s) :
    at[n] < k /\ k <= at[n + 1] /\ k - at[n] \in 1..Len(s[n]) /\ r[k] = s[n][k - at[n]]

\* Every element is.
LEMMA SegmentOfElement ==
  ASSUME NEW T, NEW s \in Seq(Seq(T)), NEW r \in Seq(T), NEW at, Segments(at, s, r),
         NEW k \in 1..Len(r)
  PROVE  InSegment(at, s, r, k)
<1> DEFINE Beyond == {n \in 1..(Len(s) + 1) : k <= at[n]}
<1>1. \A n \in 1..(Len(s) + 1) : at[n] \in Nat
  BY DEF Segments
<1>2. Len(s) + 1 \in Beyond
  BY DEF Segments
<1>3. PICK m \in Beyond : \A n \in Beyond : m <= n
  <2>1. Beyond \in SUBSET Nat /\ Beyond # {}
    BY <1>2
  <2>. QED
    BY <2>1, LeastElement
<1>4. m # 1
  BY <1>3 DEF Segments
<1>5. PICK n \in 1..Len(s) : m = n + 1
  <2>1. m - 1 \in 1..Len(s) /\ m = (m - 1) + 1
    BY <1>4
  <2>. QED
    BY <2>1
<1>6. ~(k <= at[n]) /\ at[n] \in Nat /\ k <= at[n + 1]
  <2>1. n \in 1..(Len(s) + 1) /\ ~(m <= n)
    BY <1>5
  <2>. QED
    BY <1>1, <1>3, <1>5, <2>1
<1>7. at[n + 1] = at[n] + Len(s[n]) /\ s[n] \in Seq(T)
  BY SMTT(30) DEF Segments
<1>8. k - at[n] \in 1..Len(s[n]) /\ at[n] + (k - at[n]) = k /\ at[n] < k
  <2>1. Len(s[n]) \in Nat
    BY <1>7
  <2>. QED
    BY <1>6, <1>7, <2>1, SMTT(30)
<1>9. r[k] = s[n][k - at[n]]
  <2>1. r[at[n] + (k - at[n])] = s[n][k - at[n]]
    BY <1>8 DEF Segments
  <2>. QED
    BY <1>8, <2>1
<1>. QED
  BY <1>6, <1>8, <1>9 DEF InSegment
----------------------------------------------------------------------------
(***************************************************************************)
(* SumFunctionOnSet is defined by a recursion over the subsets of a set.   *)
(* In which order it takes the elements makes no difference.               *)
(***************************************************************************)
First(s) == CHOOSE x \in s : TRUE

Sums(it, f, D) ==
  it = [s \in SUBSET D |-> IF s = {} THEN 0 ELSE f[First(s)] + it[s \ {First(s)}]]

LEMMA SumIsTheFold ==
  ASSUME NEW f, NEW D
  PROVE  SumFunctionOnSet(f, D) = (CHOOSE it : Sums(it, f, D))[D]
BY DEF SumFunctionOnSet, FoldFunctionOnSet, MapThenFoldSet, Sums, First

LEMMA SubsetsByCardinality ==
  ASSUME NEW D, IsFiniteSet(D), NEW s \in SUBSET D
  PROVE  /\ IsFiniteSet(s) /\ Cardinality(s) \in Nat /\ Cardinality(s) <= Cardinality(D)
         /\ Cardinality(s) = 0 <=> s = {}
         /\ \A x \in s : Cardinality(s \ {x}) = Cardinality(s) - 1 /\ s \ {x} \in SUBSET D
         /\ s # {} => First(s) \in s
<1>1. IsFiniteSet(s) /\ Cardinality(s) <= Cardinality(D)
  BY FS_Subset
<1>2. Cardinality(s) \in Nat
  BY <1>1, FS_CardinalityType
<1>3. Cardinality(s) = 0 <=> s = {}
  BY <1>1, FS_EmptySet
<1>4. \A x \in s : Cardinality(s \ {x}) = Cardinality(s) - 1 /\ s \ {x} \in SUBSET D
  BY <1>1, FS_RemoveElement
<1>5. s # {} => First(s) \in s
  BY DEF First
<1>. QED
  BY <1>1, <1>2, <1>3, <1>4, <1>5

LEMMA SumsExists ==
  ASSUME NEW D, IsFiniteSet(D), NEW V, 0 \in V, \A a, b \in V : a + b \in V,
         NEW f, \A x \in D : f[x] \in V
  PROVE  \E it \in [SUBSET D -> V] : Sums(it, f, D)
<1> DEFINE Small(n) == {s \in SUBSET D : Cardinality(s) <= n}
           Rule(it, s) == it[s] = IF s = {} THEN 0 ELSE f[First(s)] + it[s \ {First(s)}]
           Reached == {n \in Nat : \E it \in [SUBSET D -> V] : \A s \in Small(n) : Rule(it, s)}
<1>1. 0 \in Reached
  <2>1. [s \in SUBSET D |-> 0] \in [SUBSET D -> V]
    OBVIOUS
  <2>2. \A s \in Small(0) : s = {}
    BY SubsetsByCardinality
  <2>3. \A s \in Small(0) : Rule([t \in SUBSET D |-> 0], s)
    BY <2>2
  <2>. QED
    BY <2>1, <2>3
<1>2. ASSUME NEW n \in 0..(Cardinality(D) - 1), n \in Reached PROVE n + 1 \in Reached
  <2>0. n \in Nat
    OBVIOUS
  <2>1. PICK it \in [SUBSET D -> V] : \A s \in Small(n) : Rule(it, s)
    BY <1>2
  <2> DEFINE next(s) == IF s = {} THEN 0 ELSE f[First(s)] + it[s \ {First(s)}]
             up == [s \in SUBSET D |-> IF Cardinality(s) <= n THEN it[s] ELSE next(s)]
  <2>2. ASSUME NEW s \in SUBSET D PROVE next(s) \in V
    <3>1. s # {} => First(s) \in D /\ s \ {First(s)} \in SUBSET D
      BY SubsetsByCardinality
    <3>2. s # {} => f[First(s)] \in V /\ it[s \ {First(s)}] \in V
      BY <3>1
    <3>. QED
      BY <3>2
  <2>3. up \in [SUBSET D -> V]
    BY <2>2
  <2>4. ASSUME NEW s \in Small(n + 1) PROVE Rule(up, s)
    <3>1. Cardinality(s) \in Nat /\ s \in SUBSET D
      BY SubsetsByCardinality
    <3>2. s # {} => s \ {First(s)} \in SUBSET D /\ Cardinality(s \ {First(s)}) = Cardinality(s) - 1
      BY SubsetsByCardinality
    <3>3. s # {} => up[s \ {First(s)}] = it[s \ {First(s)}]
      BY <2>0, <3>1, <3>2
    <3>4. up[s] = next(s)
      <4>1. CASE Cardinality(s) <= n
        BY <2>1, <3>1, <4>1
      <4>2. CASE ~(Cardinality(s) <= n)
        BY <3>1, <4>2
      <4>. QED
        BY <4>1, <4>2
    <3> HIDE DEF up
    <3>. QED
      BY <3>3, <3>4
  <2> HIDE DEF Rule, Small, up
  <2>. QED
    BY <2>0, <2>3, <2>4
<1>3. Cardinality(D) \in Reached
  <2>1. Cardinality(D) \in Nat
    BY FS_CardinalityType
  <2> HIDE DEF Reached
  <2>. QED
    BY <1>1, <1>2, <2>1, Reaches
<1>4. PICK it \in [SUBSET D -> V] : \A s \in Small(Cardinality(D)) : Rule(it, s)
  BY <1>3
<1>5. \A s \in SUBSET D : Rule(it, s)
  BY <1>4, SubsetsByCardinality
<1>6. Sums(it, f, D)
  BY <1>5 DEF Sums
<1>. QED
  BY <1>6

SumsOf(it, f, D) ==
  /\ IsFiniteSet(D) /\ \A x \in D : f[x] \in Int
  /\ it \in [SUBSET D -> Int] /\ Sums(it, f, D)

Without(s, x) == s \ {x}

LEMMA SumsTakeAny ==
  ASSUME NEW D, NEW f, NEW it, SumsOf(it, f, D), NEW t \in SUBSET D, NEW z \in t
  PROVE  it[t] = f[z] + it[Without(t, z)]
<1>0. /\ IsFiniteSet(D) /\ \A x \in D : f[x] \in Int
      /\ it \in [SUBSET D -> Int] /\ Sums(it, f, D)
  BY DEF SumsOf
<1> DEFINE TakesAny(s) == \A x \in s : it[s] = f[x] + it[s \ {x}]
           Good == {n \in Nat : \A s \in SUBSET D : Cardinality(s) = n => TakesAny(s)}
<1>1. 0 \in Good
  BY <1>0, SubsetsByCardinality
<1>2. ASSUME NEW n \in 0..(Cardinality(t) - 1), n \in Good PROVE n + 1 \in Good
  <2>1. ASSUME NEW s \in SUBSET D, Cardinality(s) = n + 1, NEW x \in s
        PROVE  it[s] = f[x] + it[s \ {x}]
    <3> DEFINE y == First(s)
    <3>1. y \in s /\ it[s] = f[y] + it[s \ {y}]
      BY <1>0, <2>1, SubsetsByCardinality, ZenonT(30) DEF Sums
    <3> HIDE DEF y
    <3>2. CASE x = y
      BY <3>1, <3>2
    <3>3. CASE x # y
      <4>1. /\ s \ {y} \in SUBSET D /\ Cardinality(s \ {y}) = n /\ x \in s \ {y}
            /\ s \ {x} \in SUBSET D /\ Cardinality(s \ {x}) = n /\ y \in s \ {x}
        BY <1>0, <2>1, <3>1, <3>3, SubsetsByCardinality
      <4>2. it[s \ {y}] = f[x] + it[(s \ {y}) \ {x}] /\ it[s \ {x}] = f[y] + it[(s \ {x}) \ {y}]
        BY <1>2, <4>1
      <4>3. (s \ {y}) \ {x} = (s \ {x}) \ {y} /\ (s \ {x}) \ {y} \in SUBSET D
        OBVIOUS
      <4>4. f[x] \in Int /\ f[y] \in Int /\ it[(s \ {x}) \ {y}] \in Int
        BY <1>0, <3>1, <4>3
      <4>5. PICK r \in Int, a \in Int, b \in Int :
              r = it[(s \ {x}) \ {y}] /\ a = f[x] /\ b = f[y]
        BY <4>4
      <4>6. it[s \ {y}] = a + r /\ it[s \ {x}] = b + r
        BY <4>2, <4>3, <4>5
      <4>7. it[s] = b + (a + r) /\ b + (a + r) = a + (b + r)
        BY <3>1, <4>5, <4>6
      <4>. QED
        BY <4>5, <4>6, <4>7
    <3>. QED
      BY <3>2, <3>3
  <2>2. n + 1 \in Nat
    OBVIOUS
  <2>. QED
    BY <2>1, <2>2, Zenon
<1>3. Cardinality(t) \in Good
  <2>1. Cardinality(t) \in Nat
    BY <1>0, SubsetsByCardinality
  <2> HIDE DEF Good
  <2>. QED
    BY <1>1, <1>2, <2>1, Reaches
<1>4. it[t] = f[z] + it[t \ {z}]
  BY <1>3
<1>. QED
  BY <1>4 DEF Without

LEMMA SumsAgree ==
  ASSUME NEW D, IsFiniteSet(D), NEW E \in SUBSET D, NEW f,
         NEW it, Sums(it, f, D), NEW ie, Sums(ie, f, E)
  PROVE  it[E] = ie[E]
<1> DEFINE Same == {n \in Nat : \A s \in SUBSET E : Cardinality(s) = n => it[s] = ie[s]}
<1>1. ASSUME NEW s \in SUBSET E
      PROVE  /\ it[s] = (IF s = {} THEN 0 ELSE f[First(s)] + it[s \ {First(s)}])
             /\ ie[s] = (IF s = {} THEN 0 ELSE f[First(s)] + ie[s \ {First(s)}])
  BY DEF Sums
<1>2. ASSUME NEW s \in SUBSET E
      PROVE  /\ Cardinality(s) \in Nat /\ (Cardinality(s) = 0 => s = {})
             /\ s # {} => s \ {First(s)} \in SUBSET E /\ Cardinality(s \ {First(s)}) = Cardinality(s) - 1
  <2>1. s \in SUBSET D
    OBVIOUS
  <2>. QED
    BY <2>1, SubsetsByCardinality
<1>3. 0 \in Same
  BY <1>1, <1>2
<1>4. ASSUME NEW n \in 0..(Cardinality(E) - 1), n \in Same PROVE n + 1 \in Same
  <2>1. ASSUME NEW s \in SUBSET E, Cardinality(s) = n + 1 PROVE it[s] = ie[s]
    <3>1. CASE s = {}
      BY <1>1, <3>1
    <3>2. CASE s # {}
      <4>1. s \ {First(s)} \in SUBSET E /\ Cardinality(s \ {First(s)}) = n
        <5>1. Cardinality(s \ {First(s)}) = n + 1 - 1
          BY <1>2, <2>1, <3>2
        <5>2. n + 1 - 1 = n
          OBVIOUS
        <5>. QED
          BY <1>2, <3>2, <5>1, <5>2
      <4>2. it[s \ {First(s)}] = ie[s \ {First(s)}]
        BY <1>4, <4>1
      <4>. QED
        BY <1>1, <3>2, <4>2
    <3>. QED
      BY <3>1, <3>2
  <2>. QED
    BY <2>1
<1>5. Cardinality(E) \in Same
  <2>1. Cardinality(E) \in Nat
    BY <1>2
  <2> HIDE DEF Same
  <2>. QED
    BY <1>3, <1>4, <2>1, Reaches
<1>. QED
  BY <1>5

\* A sum of elements of V is in V.
LEMMA SumIsIn ==
  ASSUME NEW D, IsFiniteSet(D), NEW V, 0 \in V, \A a, b \in V : a + b \in V,
         NEW f, \A x \in D : f[x] \in V
  PROVE  SumFunctionOnSet(f, D) \in V
<1> DEFINE chosen == CHOOSE it : Sums(it, f, D)
<1>2. PICK it \in [SUBSET D -> V] : Sums(it, f, D)
  BY SumsExists
<1>1. Sums(chosen, f, D)
  BY <1>2
<1> HIDE DEF chosen
<1>3. chosen[D] = it[D]
  BY <1>1, <1>2, SumsAgree
<1>. QED
  BY <1>2, <1>3, SumIsTheFold DEF chosen

LEMMA SumOfNothing ==
  ASSUME NEW f
  PROVE  SumFunctionOnSet(f, {}) = 0
<1> DEFINE chosen == CHOOSE it : Sums(it, f, {})
<1>1. Sums(chosen, f, {})
  <2>1. IsFiniteSet({}) /\ 0 \in Nat /\ \A a, b \in Nat : a + b \in Nat
    BY FS_EmptySet
  <2>. QED
    BY <2>1, SumsExists
<1> HIDE DEF chosen
<1>2. chosen[{}] = 0
  BY <1>1 DEF Sums
<1>. QED
  BY <1>2, SumIsTheFold DEF chosen

LEMMA SumAddsElement ==
  ASSUME NEW D, IsFiniteSet(D), NEW z, z \notin D, NEW f, \A x \in D \cup {z} : f[x] \in Int
  PROVE  SumFunctionOnSet(f, D \cup {z}) = SumFunctionOnSet(f, D) + f[z]
<1> DEFINE E == D \cup {z}
           chosenD == CHOOSE it : Sums(it, f, D)
           chosenE == CHOOSE it : Sums(it, f, E)
<1>0. 0 \in Int /\ \A a, b \in Int : a + b \in Int
  OBVIOUS
<1>1. IsFiniteSet(E)
  BY FS_AddElement
<1>2. PICK id \in [SUBSET D -> Int] : Sums(id, f, D)
  <2>1. \A x \in D : f[x] \in Int
    OBVIOUS
  <2>. QED
    BY <1>0, <2>1, SumsExists
<1>3. PICK it \in [SUBSET E -> Int] : Sums(it, f, E)
  BY <1>0, <1>1, SumsExists
<1>9. Sums(chosenD, f, D) /\ Sums(chosenE, f, E)
  BY <1>2, <1>3
<1>4. chosenD[D] = SumFunctionOnSet(f, D) /\ chosenE[E] = SumFunctionOnSet(f, E)
  BY SumIsTheFold
<1> HIDE DEF chosenD, chosenE
<1>5. it[E] = chosenE[E] /\ it[D] = chosenD[D]
  BY <1>1, <1>3, <1>9, SumsAgree
<1>6. it[E] = f[z] + it[D]
  <2>1. E \in SUBSET E /\ z \in E /\ E \ {z} = D /\ \A x \in E : f[x] \in Int
    OBVIOUS
  <2> HIDE DEF E
  <2>2. SumsOf(it, f, E)
    BY <1>1, <1>3, <2>1 DEF SumsOf
  <2>3. it[E] = f[z] + it[Without(E, z)]
    BY <2>1, <2>2, SumsTakeAny
  <2>. QED
    BY <2>1, <2>3 DEF Without
<1>7. f[z] \in Int /\ it[D] \in Int
  BY <1>3
<1>8. it[E] = it[D] + f[z]
  BY <1>6, <1>7
<1>. QED
  BY <1>4, <1>5, <1>8
============================================================================
