------------------------ MODULE CallSequenceProofs ------------------------
(***************************************************************************)
(* One call, for every set of signatures and every stack: where the        *)
(* analysis puts each piece of the arguments, on either side; that the     *)
(* code which follows puts it there; and what is left of A and the stack.  *)
(***************************************************************************)
EXTENDS CallSequence, SequenceFacts, FiniteSetTheorems
----------------------------------------------------------------------------
(***************************************************************************)
(* The pieces of one scalar follow one another; a cut is where a scalar    *)
(* begins, or the end.                                                     *)
(***************************************************************************)
Piece == [arg : Nat, bytes : {1, 2}, partOffset : Nat]

Runs(p) ==
  \A k \in 1..Len(p) : p[k].partOffset # 0 =>
    /\ k > 1
    /\ p[k].partOffset = p[k - 1].partOffset + p[k - 1].bytes
    /\ p[k].bytes = p[k - 1].bytes /\ p[k].arg = p[k - 1].arg

Cut(p, m) == m \in 0..Len(p) /\ (m < Len(p) => p[m + 1].partOffset = 0)

\* Pieces a + 1 to b are those of one scalar.
Group(p, a, b) ==
  Cut(p, a) /\ Cut(p, b) /\ a < b /\ \A k \in (a + 2)..b : p[k].partOffset # 0

\* The pieces passed in registers are the first ones, up to a cut.
InRegs(p) == CHOOSE m \in 0..3 : Cut(p, m) /\ \A n \in 0..3 : Cut(p, n) => n <= m

\* Where piece k of the group from a + 1 to b goes.
Place(p, a, b, k) ==
  IF b <= 3 THEN InRegister(RegList[a + b + 1 - k], p[k].bytes)
            ELSE InMemory(2 * (k - 1 - InRegs(p)), 2)

Placed(l, p) ==
  /\ Len(l) <= Len(p)
  /\ \A k \in 1..Len(l) :
       \E a, b \in 0..Len(p) : Group(p, a, b) /\ a < k /\ k <= b /\ l[k] = Place(p, a, b, k)

\* The arguments, of so many pieces each, are groups or nothing; the n-th one
\* comes after piece at[n].
Starts(counts, p) == [1..(Len(counts) + 1) -> 0..Len(p)]

Counted(counts, p, at) ==
  /\ at[1] = 0
  /\ \A n \in 1..(Len(counts) + 1) : Cut(p, at[n])
  /\ \A n \in 1..Len(counts) :
       /\ at[n + 1] = at[n] + counts[n]
       /\ \A k \in (at[n] + 2)..at[n + 1] : p[k].partOffset # 0
----------------------------------------------------------------------------
(***************************************************************************)
(* The pieces of any call are runs.                                        *)
(***************************************************************************)
LEMMA FlattenRuns ==
  ASSUME NEW q \in Seq(Seq(Piece)), \A n \in 1..Len(q) : Runs(q[n])
  PROVE  FlattenSeq(q) \in Seq(Piece) /\ Runs(FlattenSeq(q))
<1>0. PICK p : p = FlattenSeq(q)
  OBVIOUS
<1>1. p \in Seq(Piece)
  BY <1>0, FlattenSeqSegments
<1>2. PICK at : Segments(at, q, p)
  BY <1>0, FlattenSeqSegments
<1>3. ASSUME NEW k \in 1..Len(p), p[k].partOffset # 0
      PROVE  /\ k > 1
             /\ p[k].partOffset = p[k - 1].partOffset + p[k - 1].bytes
             /\ p[k].bytes = p[k - 1].bytes /\ p[k].arg = p[k - 1].arg
  <2>1. PICK n \in 1..Len(q) :
          at[n] < k /\ k <= at[n + 1] /\ k - at[n] \in 1..Len(q[n]) /\ p[k] = q[n][k - at[n]]
    <3>1. InSegment(at, q, p, k)
      BY <1>1, <1>2, SegmentOfElement
    <3>. QED
      BY <3>1 DEF InSegment
  <2>2. at[n] \in Nat
    <3>1. n \in 1..(Len(q) + 1)
      OBVIOUS
    <3>. QED
      BY <1>2, <3>1 DEF Segments
  <2>6. PICK j \in 1..Len(q[n]) : j = k - at[n]
    BY <2>1
  <2>3. /\ j > 1 /\ q[n][j].partOffset = q[n][j - 1].partOffset + q[n][j - 1].bytes
        /\ q[n][j].bytes = q[n][j - 1].bytes /\ q[n][j].arg = q[n][j - 1].arg
    <3>1. Runs(q[n]) /\ q[n][j].partOffset # 0
      BY <1>3, <2>1, <2>6
    <3>. QED
      BY <3>1 DEF Runs
  <2>4. j - 1 \in 1..Len(q[n]) /\ at[n] + (j - 1) = k - 1 /\ k > 1
    <3>1. q[n] \in Seq(Piece) /\ Len(q[n]) \in Nat
      OBVIOUS
    <3>2. k \in Nat
      BY <1>1
    <3>3. j > 1
      BY <2>3
    <3>4. PICK l \in Nat, a \in Nat : l = Len(q[n]) /\ a = at[n]
      BY <2>2, <3>1
    <3>5. j \in 1..l /\ j = k - a
      BY <2>6, <3>4
    <3>6. j - 1 \in 1..l /\ a + (j - 1) = k - 1 /\ k > 1
      BY <3>2, <3>3, <3>5
    <3>. QED
      BY <3>4, <3>6
  <2>5. p[k - 1] = q[n][j - 1]
    <3>1. p[at[n] + (j - 1)] = q[n][j - 1]
      BY <1>2, <2>4 DEF Segments
    <3>. QED
      BY <2>4, <3>1
  <2>. QED
    BY <2>1, <2>6, <2>3, <2>4, <2>5
<1>4. Runs(p)
  BY <1>3 DEF Runs
<1>. QED
  BY <1>0, <1>1, <1>4

\* The pieces of one scalar of so many bytes.
PartsOf(n, bytes) ==
  [j \in 1..NumParts(bytes) |->
    [arg |-> n, bytes |-> PartBytes(bytes), partOffset |-> (j - 1) * PartBytes(bytes)]]

LEMMA PartsAreRuns ==
  ASSUME NEW n \in Nat, NEW bytes \in Nat \ {0}
  PROVE  /\ PartsOf(n, bytes) \in Seq(Piece) /\ Runs(PartsOf(n, bytes))
         /\ NumParts(bytes) \in Nat /\ NumParts(bytes) # 0
         /\ Len(PartsOf(n, bytes)) = NumParts(bytes)
         /\ \A k \in 1..NumParts(bytes) :
              PartsOf(n, bytes)[k].arg = n /\ (PartsOf(n, bytes)[k].partOffset = 0 <=> k = 1)
<1>1. NumParts(bytes) \in Nat /\ NumParts(bytes) # 0
  BY DEF NumParts
<1>2. PartBytes(bytes) \in {1, 2}
  BY DEF PartBytes
<1>3. \A j \in 1..NumParts(bytes) : (j - 1) * PartBytes(bytes) \in Nat /\ ((j - 1) * PartBytes(bytes) = 0 <=> j = 1)
  <2>1. CASE PartBytes(bytes) = 1
    BY <1>1, <2>1
  <2>2. CASE PartBytes(bytes) = 2
    BY <1>1, <2>2
  <2>. QED
    BY <1>2, <2>1, <2>2
<1> DEFINE p == PartsOf(n, bytes)
<1>4. /\ p \in Seq(Piece) /\ Len(p) = NumParts(bytes)
      /\ \A k \in 1..NumParts(bytes) :
           p[k] = [arg |-> n, bytes |-> PartBytes(bytes), partOffset |-> (k - 1) * PartBytes(bytes)]
  <2> DEFINE part(j) ==
        [arg |-> n, bytes |-> PartBytes(bytes), partOffset |-> (j - 1) * PartBytes(bytes)]
  <2>1. \A j \in 1..NumParts(bytes) : part(j) \in Piece
    BY <1>2, <1>3 DEF Piece
  <2>2. p = [j \in 1..NumParts(bytes) |-> part(j)]
    BY DEF PartsOf
  <2>3. \A k \in 1..NumParts(bytes) : p[k] = part(k)
    BY <2>2
  <2> HIDE DEF p, part
  <2>4. p \in Seq(Piece) /\ Len(p) = NumParts(bytes)
    BY <1>1, <2>1, <2>2
  <2>. QED
    BY <2>3, <2>4 DEF part
<1> HIDE DEF p
<1>5. Runs(p)
  <2>1. ASSUME NEW k \in 1..Len(p), p[k].partOffset # 0
        PROVE  /\ k > 1
               /\ p[k].partOffset = p[k - 1].partOffset + p[k - 1].bytes
               /\ p[k].bytes = p[k - 1].bytes /\ p[k].arg = p[k - 1].arg
    <3>1. k \in Nat /\ k # 1 /\ k - 1 \in 1..NumParts(bytes) /\ k \in 1..NumParts(bytes)
      BY <1>1, <1>3, <1>4, <2>1
    <3>2. (k - 1) * PartBytes(bytes) = (k - 1 - 1) * PartBytes(bytes) + PartBytes(bytes)
      <4>1. CASE PartBytes(bytes) = 1
        BY <3>1, <4>1
      <4>2. CASE PartBytes(bytes) = 2
        BY <3>1, <4>2
      <4>. QED
        BY <1>2, <4>1, <4>2
    <3>. QED
      BY <1>4, <3>1, <3>2
  <2>. QED
    BY <2>1 DEF Runs
<1>6. \A k \in 1..NumParts(bytes) : p[k].arg = n /\ (p[k].partOffset = 0 <=> k = 1)
  BY <1>3, <1>4
<1>. QED
  BY <1>1, <1>4, <1>5, <1>6 DEF p

LEMMA PiecesOfRuns ==
  ASSUME NEW n \in Nat, NEW type \in Seq(Nat \ {0})
  PROVE  PiecesOf(n, type) \in Seq(Piece) /\ Runs(PiecesOf(n, type))
<1> DEFINE q == [v \in DOMAIN type |-> PartsOf(n, type[v])]
<1>1. q \in Seq(Seq(Piece)) /\ Len(q) = Len(type)
  <2>1. \A v \in 1..Len(type) : PartsOf(n, type[v]) \in Seq(Piece)
    BY PartsAreRuns
  <2>. QED
    BY <2>1
<1>2. \A v \in 1..Len(q) : Runs(q[v])
  BY <1>1, PartsAreRuns
<1>3. PiecesOf(n, type) = FlattenSeq(q)
  BY DEF PiecesOf, PartsOf
<1>. QED
  BY <1>1, <1>2, <1>3, FlattenRuns

LEMMA PiecesAreRuns ==
  ASSUME NEW s \in Signatures, NEW r \in Returns
  PROVE  PiecesOfCall(s, r) \in Seq(Piece) /\ Runs(PiecesOfCall(s, r))
<1>0. PICK t : t = Passed(s, r)
  OBVIOUS
<1> DEFINE q == [n \in DOMAIN t |-> PiecesOf(n, t[n])]
<1>1. t \in Seq(Seq(Nat \ {0}))
  <2>1. s \in Seq(Seq(Nat \ {0}))
    BY CallAssumption
  <2>2. <<<<2>>>> \in Seq(Seq(Nat \ {0}))
    <3>1. <<2>> \in Seq(Nat \ {0})
      OBVIOUS
    <3>. QED
      BY <3>1
  <2>3. <<<<2>>>> \o s \in Seq(Seq(Nat \ {0}))
    BY <2>1, <2>2
  <2>. QED
    BY <1>0, <2>1, <2>3 DEF Passed
<1>2. q \in Seq(Seq(Piece)) /\ Len(q) = Len(t)
  <2>1. \A n \in 1..Len(t) : PiecesOf(n, t[n]) \in Seq(Piece)
    BY <1>1, PiecesOfRuns
  <2>2. DOMAIN t = 1..Len(t) /\ Len(t) \in Nat
    BY <1>1
  <2>3. q = [n \in 1..Len(t) |-> PiecesOf(n, t[n])]
    BY <2>2
  <2>. QED
    BY <2>1, <2>2, <2>3
<1>3. \A n \in 1..Len(q) : Runs(q[n])
  BY <1>1, <1>2, PiecesOfRuns
<1>4. PiecesOfCall(s, r) = FlattenSeq(q)
  BY <1>0 DEF PiecesOfCall
<1>. QED
  BY <1>2, <1>3, <1>4, FlattenRuns
----------------------------------------------------------------------------
(***************************************************************************)
(* Cuts and groups of the pieces p of a call.                              *)
(***************************************************************************)
LEMMA EndsAreCuts ==
  ASSUME NEW p \in Seq(Piece), Runs(p)
  PROVE  Cut(p, 0) /\ Cut(p, Len(p))
<1>1. Len(p) \in Nat
  OBVIOUS
<1>2. 0 < Len(p) => p[1].partOffset = 0
  BY <1>1 DEF Runs
<1>. QED
  BY <1>1, <1>2 DEF Cut

LEMMA InRegsIsLastCut ==
  ASSUME NEW p \in Seq(Piece), Runs(p)
  PROVE  /\ InRegs(p) \in 0..3 /\ InRegs(p) <= Len(p) /\ Cut(p, InRegs(p))
         /\ \A n \in 0..3 : Cut(p, n) => n <= InRegs(p)
<1>1. Cut(p, 0)
  BY EndsAreCuts
<1>2. \E m \in 0..3 : Cut(p, m) /\ \A n \in 0..3 : Cut(p, n) => n <= m
  <2>0. \A n \in 0..3 : n = 0 \/ n = 1 \/ n = 2 \/ n = 3
    OBVIOUS
  <2>1. CASE Cut(p, 3)
    BY <2>1
  <2>2. CASE ~Cut(p, 3) /\ Cut(p, 2)
    BY <2>0, <2>2
  <2>3. CASE ~Cut(p, 3) /\ ~Cut(p, 2) /\ Cut(p, 1)
    BY <2>0, <2>3
  <2>4. CASE ~Cut(p, 3) /\ ~Cut(p, 2) /\ ~Cut(p, 1)
    BY <1>1, <2>0, <2>4
  <2>. QED
    BY <2>1, <2>2, <2>3, <2>4
<1>3. InRegs(p) \in 0..3 /\ Cut(p, InRegs(p)) /\ \A n \in 0..3 : Cut(p, n) => n <= InRegs(p)
  BY <1>2 DEF InRegs
<1>. QED
  BY <1>3 DEF Cut

\* No cut is inside a group.
LEMMA CutsAround ==
  ASSUME NEW p \in Seq(Piece), NEW a, NEW b, Group(p, a, b), NEW m, Cut(p, m)
  PROVE  a \in 0..Len(p) /\ b \in 0..Len(p) /\ m \in 0..Len(p) /\ a < b /\ (m <= a \/ b <= m)
<1>1. a \in 0..Len(p) /\ b \in 0..Len(p) /\ m \in 0..Len(p) /\ a < b /\ Len(p) \in Nat
  BY DEF Group, Cut
<1>2. ASSUME a < m, m < b PROVE FALSE
  <2>1. m + 1 \in (a + 2)..b /\ m < Len(p)
    BY <1>1, <1>2
  <2>. QED
    BY <2>1 DEF Group, Cut
<1>. QED
  BY <1>1, <1>2

LEMMA GroupsAreDisjoint ==
  ASSUME NEW p \in Seq(Piece), NEW a, NEW b, Group(p, a, b), NEW c, NEW d, Group(p, c, d),
         NEW k \in Nat, a < k, k <= b, c < k, k <= d
  PROVE  a = c /\ b = d
<1>1. Cut(p, a) /\ Cut(p, b) /\ Cut(p, c) /\ Cut(p, d)
  BY DEF Group
<1>2. a \in Nat /\ b \in Nat /\ c \in Nat /\ d \in Nat
  BY <1>1 DEF Cut
<1>3. (c <= a \/ b <= c) /\ (d <= a \/ b <= d) /\ (a <= c \/ d <= a) /\ (b <= c \/ d <= b)
  BY <1>1, CutsAround
<1>. QED
  BY <1>2, <1>3

LEMMA GroupIsUniform ==
  ASSUME NEW p \in Seq(Piece), Runs(p), NEW a, NEW b, Group(p, a, b), NEW k \in (a + 1)..b
  PROVE  k \in 1..Len(p) /\ p[k].bytes = p[a + 1].bytes /\ p[k].arg = p[a + 1].arg
<1>1. a \in Nat /\ b \in Nat /\ b <= Len(p) /\ Len(p) \in Nat /\ a < b
  BY DEF Group, Cut
<1> DEFINE Same == {d \in Nat : a + 1 + d <= b =>
                      p[a + 1 + d].bytes = p[a + 1].bytes /\ p[a + 1 + d].arg = p[a + 1].arg}
<1>2. 0 \in Same
  BY <1>1
<1>3. ASSUME NEW d \in 0..(k - a - 1 - 1), d \in Same PROVE d + 1 \in Same
  <2>1. PICK e \in Nat : e = a + 1 + d
    BY <1>1
  <2>2. e + 1 = a + 1 + (d + 1) /\ e + 1 <= b /\ e + 1 \in (a + 2)..b /\ e + 1 \in 1..Len(p)
    BY <1>1, <2>1
  <2>3. p[e].bytes = p[a + 1].bytes /\ p[e].arg = p[a + 1].arg
    BY <1>1, <1>3, <2>1, <2>2
  <2>4. p[e + 1].partOffset # 0
    BY <2>2 DEF Group
  <2>5. p[e + 1].bytes = p[e + 1 - 1].bytes /\ p[e + 1].arg = p[e + 1 - 1].arg
    BY <2>2, <2>4 DEF Runs
  <2>6. e + 1 - 1 = e
    BY <2>1
  <2>. QED
    BY <2>2, <2>3, <2>5, <2>6
<1>4. k - a - 1 \in Same
  <2>1. k - a - 1 \in Nat
    BY <1>1
  <2> HIDE DEF Same
  <2>. QED
    BY <1>2, <1>3, <2>1, Reaches
<1>5. a + 1 + (k - a - 1) = k
  BY <1>1
<1>. QED
  BY <1>1, <1>4, <1>5

\* A group is passed in registers or on the stack, as a whole.
LEMMA GroupSide ==
  ASSUME NEW p \in Seq(Piece), Runs(p), NEW a, NEW b, Group(p, a, b)
  PROVE  /\ a \in Nat /\ b \in Nat /\ a < b /\ b <= Len(p)
         /\ b <= 3 => b <= InRegs(p)
         /\ b > 3 => InRegs(p) <= a
<1>1. a \in Nat /\ b \in Nat /\ a < b /\ b <= Len(p) /\ Cut(p, b)
  BY DEF Group, Cut
<1>2. InRegs(p) \in 0..3 /\ Cut(p, InRegs(p)) /\ \A n \in 0..3 : Cut(p, n) => n <= InRegs(p)
  BY InRegsIsLastCut
<1>3. InRegs(p) <= a \/ b <= InRegs(p)
  BY <1>2, CutsAround
<1>. QED
  BY <1>1, <1>2, <1>3
----------------------------------------------------------------------------
(***************************************************************************)
(* Locations, when each piece is in its place.                             *)
(***************************************************************************)
LEMMA RegListFacts ==
  /\ DOMAIN RegList = 1..3
  /\ \A k \in 1..3 : RegList[k] \in {"A", "X", "Y"}
  /\ \A j, k \in 1..3 : RegList[j] = RegList[k] => j = k
BY DEF RegList

LEMMA PlacedKind ==
  ASSUME NEW p \in Seq(Piece), Runs(p), NEW l, Placed(l, p), NEW k \in 1..Len(l)
  PROVE  /\ k <= InRegs(p) => l[k].kind = "reg"
         /\ k > InRegs(p) => l[k] = InMemory(2 * (k - 1 - InRegs(p)), 2)
<1>1. PICK a \in 0..Len(p), b \in 0..Len(p) :
        Group(p, a, b) /\ a < k /\ k <= b /\ l[k] = Place(p, a, b, k)
  BY DEF Placed
<1>2. /\ b <= 3 => b <= InRegs(p)
      /\ b > 3 => InRegs(p) <= a
  BY <1>1, GroupSide
<1>3. InRegs(p) \in 0..3 /\ a \in Int /\ b \in Int /\ k \in Int
  BY InRegsIsLastCut
<1>4. CASE b <= 3
  <2>1. k <= InRegs(p)
    BY <1>1, <1>2, <1>3, <1>4
  <2>2. l[k].kind = "reg"
    BY <1>1, <1>4 DEF Place, InRegister
  <2>. QED
    BY <1>3, <2>1, <2>2
<1>5. CASE b > 3
  <2>1. k > InRegs(p) /\ ~(b <= 3)
    BY <1>1, <1>2, <1>3, <1>5
  <2>2. l[k] = InMemory(2 * (k - 1 - InRegs(p)), 2)
    BY <1>1, <2>1 DEF Place
  <2>. QED
    BY <1>3, <2>1, <2>2
<1>. QED
  BY <1>3, <1>4, <1>5

\* A group's registers are the ones of its places, the other way round.
LEMMA PlacedRegister ==
  ASSUME NEW p \in Seq(Piece), Runs(p), NEW l, Placed(l, p), NEW k \in 1..Len(l), k <= InRegs(p)
  PROVE  \E a, b \in 0..3 : /\ Group(p, a, b) /\ a < k /\ k <= b /\ b <= InRegs(p)
                            /\ a + b + 1 - k \in 1..3 /\ l[k].reg = RegList[a + b + 1 - k]
<1>1. PICK a \in 0..Len(p), b \in 0..Len(p) :
        Group(p, a, b) /\ a < k /\ k <= b /\ l[k] = Place(p, a, b, k)
  BY DEF Placed
<1>2. /\ b <= 3 => b <= InRegs(p)
      /\ b > 3 => InRegs(p) <= a
  BY <1>1, GroupSide
<1>3. InRegs(p) \in 0..3 /\ a \in Int /\ b \in Int /\ k \in Int
  BY InRegsIsLastCut
<1>4. b <= 3 /\ b <= InRegs(p) /\ a \in 0..3 /\ b \in 0..3 /\ a + b + 1 - k \in 1..3
  BY <1>1, <1>2, <1>3
<1>5. l[k].reg = RegList[a + b + 1 - k]
  BY <1>1, <1>4 DEF Place, InRegister
<1>. QED
  BY <1>1, <1>4, <1>5

\* No register is used twice.
LEMMA PlacedApart ==
  ASSUME NEW p \in Seq(Piece), Runs(p), NEW l, Placed(l, p),
         NEW j \in 1..Len(l), NEW k \in 1..Len(l), j <= InRegs(p), k <= InRegs(p),
         l[j].reg = l[k].reg
  PROVE  j = k
<1>1. PICK a \in 0..3, b \in 0..3 :
        /\ Group(p, a, b) /\ a < k /\ k <= b /\ b <= InRegs(p)
        /\ a + b + 1 - k \in 1..3 /\ l[k].reg = RegList[a + b + 1 - k]
  BY PlacedRegister
<1>2. PICK c \in 0..3, d \in 0..3 :
        /\ Group(p, c, d) /\ c < j /\ j <= d /\ d <= InRegs(p)
        /\ c + d + 1 - j \in 1..3 /\ l[j].reg = RegList[c + d + 1 - j]
  BY PlacedRegister
<1>3. a + b + 1 - k = c + d + 1 - j
  BY <1>1, <1>2, RegListFacts
<1>4. j \in Nat /\ k \in Nat
  OBVIOUS
<1>5. PICK x \in Nat : x = a + b + 1 - k
  BY <1>1
<1>6. a < x /\ x <= b /\ c < x /\ x <= d
  <2>1. a \in Int /\ b \in Int /\ c \in Int /\ d \in Int
    OBVIOUS
  <2>2. a < k /\ k <= b /\ c < j /\ j <= d
    BY <1>1, <1>2
  <2>3. x = a + b + 1 - k /\ x = c + d + 1 - j
    BY <1>3, <1>5
  <2>4. a < x /\ x <= b
    BY <1>4, <2>1, <2>2, <2>3
  <2>. QED
    BY <1>4, <2>1, <2>2, <2>3, <2>4
<1>7. a = c /\ b = d
  BY <1>1, <1>2, <1>6, GroupsAreDisjoint
<1>. QED
  BY <1>3, <1>4, <1>7

\* Where the pieces go is determined.
LEMMA PlacedOnce ==
  ASSUME NEW p \in Seq(Piece), Runs(p), NEW l, Placed(l, p), NEW m, Placed(m, p),
         NEW k \in 1..Len(l), k \in 1..Len(m)
  PROVE  l[k] = m[k]
<1>1. PICK a \in 0..Len(p), b \in 0..Len(p) :
        Group(p, a, b) /\ a < k /\ k <= b /\ l[k] = Place(p, a, b, k)
  BY DEF Placed
<1>2. PICK c \in 0..Len(p), d \in 0..Len(p) :
        Group(p, c, d) /\ c < k /\ k <= d /\ m[k] = Place(p, c, d, k)
  BY DEF Placed
<1>3. a = c /\ b = d
  BY <1>1, <1>2, GroupsAreDisjoint
<1>. QED
  BY <1>1, <1>2, <1>3

LEMMA PlaceIsLocation ==
  ASSUME NEW p \in Seq(Piece), Runs(p), NEW a, NEW b, Group(p, a, b),
         NEW k \in (a + 1)..b
  PROVE  Place(p, a, b, k) \in Location
<1>1. a \in Nat /\ b \in Nat /\ b <= Len(p) /\ Len(p) \in Nat /\ k \in Int
      /\ (b <= 3 => b <= InRegs(p)) /\ (b > 3 => InRegs(p) <= a) /\ InRegs(p) \in 0..3
  BY GroupSide, InRegsIsLastCut
<1>2. CASE b <= 3
  <2>1. p[k].bytes \in {1, 2}
    <3>1. k \in 1..Len(p)
      BY <1>1
    <3>2. p[k] \in Piece
      BY <3>1
    <3>. QED
      BY <3>2 DEF Piece
  <2>2. a + b + 1 - k \in 1..3
    BY <1>1, <1>2
  <2>. QED
    BY <1>2, <2>1, <2>2, RegListFacts DEF Place, InRegister, Location
<1>3. CASE b > 3
  <2>1. 2 * (k - 1 - InRegs(p)) \in Nat /\ ~(b <= 3)
    BY <1>1, <1>3
  <2>. QED
    BY <2>1 DEF Place, InMemory, Location
<1>. QED
  BY <1>1, <1>2, <1>3

\* l places the first a pieces; q places the n pieces after the first a.
PlacesFirst(l, p, a) == l \in Seq(Location) /\ Len(l) = a /\ Placed(l, p)

PlacesNext(q, p, a, n) ==
  /\ q \in Seq(Location) /\ Len(q) = n
  /\ \A j \in 1..n : q[j] = Place(p, a, a + n, a + j)

\* One more group.
LEMMA PlacedMore ==
  ASSUME NEW p \in Seq(Piece), Runs(p), NEW a \in Nat, NEW l, PlacesFirst(l, p, a),
         NEW n \in Nat, Group(p, a, a + n), NEW q, PlacesNext(q, p, a, n)
  PROVE  PlacesFirst(l \o q, p, a + n)
<1>. /\ l \in Seq(Location) /\ Len(l) = a /\ Placed(l, p)
     /\ q \in Seq(Location) /\ Len(q) = n
  BY Zenon DEF PlacesFirst, PlacesNext
<1>a. \A j \in 1..n : q[j] = Place(p, a, a + n, a + j)
  BY Zenon DEF PlacesNext
<1>0. PICK b \in Nat : b = a + n
  OBVIOUS
<1>1. /\ Group(p, a, b) /\ a \in 0..Len(p) /\ b \in 0..Len(p) /\ a < b /\ Len(p) \in Nat
      /\ \A j \in 1..n : q[j] = Place(p, a, b, a + j)
  BY <1>0, <1>a DEF Group, Cut
<1>2. PICK m : m = l \o q
  OBVIOUS
<1>3. m \in Seq(Location) /\ Len(m) = b
  <2>1. l \o q \in Seq(Location) /\ Len(l \o q) = Len(l) + Len(q)
    OBVIOUS
  <2>. QED
    BY <1>0, <1>2, <2>1
<1>4. ASSUME NEW k \in 1..Len(m)
      PROVE  \E c, d \in 0..Len(p) : Group(p, c, d) /\ c < k /\ k <= d /\ m[k] = Place(p, c, d, k)
  <2>1. CASE k <= a
    <3>1. k \in 1..Len(l) /\ m[k] = l[k]
      BY <1>1, <1>2, <1>3, <2>1
    <3>. QED
      BY <3>1 DEF Placed
  <2>2. CASE k > a
    <3>1. PICK j \in 1..n : k = a + j
      <4>1. k - a \in 1..n /\ k = a + (k - a)
        BY <1>0, <1>1, <1>3, <2>2
      <4>. QED
        BY <4>1
    <3>2. m[k] = q[j]
      <4>1. (l \o q)[Len(l) + j] = q[j]
        BY ElementOfSecond DEF Joined
      <4>. QED
        BY <1>2, <3>1, <4>1
    <3>3. m[k] = Place(p, a, b, k)
      BY <1>1, <3>1, <3>2
    <3>. QED
      BY <1>1, <1>3, <2>2, <3>3
  <2>. QED
    BY <1>1, <1>3, <2>1, <2>2
<1>5. Placed(m, p)
  <2>1. Len(m) <= Len(p)
    BY <1>1, <1>3
  <2>. QED
    BY <1>4, <2>1, Zenon DEF Placed
<1>. QED
  BY <1>0, <1>2, <1>3, <1>5 DEF PlacesFirst
----------------------------------------------------------------------------
(***************************************************************************)
(* Scalar arguments: counting the bytes of a type and counting the pieces  *)
(* come to the same.                                                       *)
(***************************************************************************)
LEMMA BytesOfNothing == TypeBytes(<< >>) = 0
<1> DEFINE R(f) ==
      f = [s \in SUBSET {} |-> IF s = {} THEN 0
                               ELSE LET x == Max(s) IN f[s \ {x}] + << >>[x]]
<1>1. R([s \in SUBSET {} |-> 0])
  OBVIOUS
<1>2. R(CHOOSE f : R(f))
  BY <1>1
<1> HIDE DEF R
<1>3. TypeBytes(<< >>) = (CHOOSE f : R(f))[{}]
  BY DEF TypeBytes, FoldLeft, MapThenFoldSet, R
<1>. QED
  BY <1>2, <1>3 DEF R

LEMMA BytesOfScalar ==
  ASSUME NEW b \in Nat
  PROVE  TypeBytes(<<b>>) = b
<1> DEFINE R(f) ==
      f = [s \in SUBSET {1} |-> IF s = {} THEN 0
                                ELSE LET x == Max(s) IN f[s \ {x}] + <<b>>[x]]
           g == [s \in SUBSET {1} |-> IF s = {} THEN 0 ELSE b]
<1>0. Max({1}) = 1
  BY DEF Max
<1>1. R(g)
  <2>1. ASSUME NEW s \in SUBSET {1}
        PROVE  g[s] = IF s = {} THEN 0 ELSE LET x == Max(s) IN g[s \ {x}] + <<b>>[x]
    <3>1. CASE s = {}
      BY <3>1
    <3>2. CASE s # {}
      <4>1. s = {1} /\ s \ {1} = {} /\ g[{}] = 0 /\ g[s] = b
        BY <3>2
      <4>2. g[s \ {1}] + <<b>>[1] = b
        BY <4>1
      <4>. HIDE DEF g
      <4>. QED
        BY <1>0, <3>2, <4>1, <4>2
    <3>. QED
      BY <3>1, <3>2
  <2>2. g = [s \in SUBSET {1} |-> g[s]]
    OBVIOUS
  <2> HIDE DEF g
  <2>. QED
    BY <2>1, <2>2
<1>2. R(CHOOSE f : R(f))
  <2> HIDE DEF R, g
  <2>. QED
    BY <1>1
<1> DEFINE h == CHOOSE f : R(f)
<1>3. DOMAIN <<b>> = {1}
  OBVIOUS
<1>4. TypeBytes(<<b>>) = h[{1}]
  <2>1. TypeBytes(<<b>>) = (CHOOSE f : R(f))[DOMAIN <<b>>]
    BY <1>3 DEF TypeBytes, FoldLeft, MapThenFoldSet
  <2>. QED
    BY <1>3, <2>1
<1> HIDE DEF h
<1>5. h[{1}] = h[{}] + b /\ h[{}] = 0
  <2>1. h = [s \in SUBSET {1} |-> IF s = {} THEN 0
                                  ELSE LET x == Max(s) IN h[s \ {x}] + <<b>>[x]]
    BY <1>2 DEF h
  <2>2. {1} \ {1} = {} /\ {} \in SUBSET {1} /\ {1} \in SUBSET {1} /\ {1} # {}
    OBVIOUS
  <2>3. h[{}] = 0
    BY <2>1, <2>2
  <2>4. h[{1}] = h[{1} \ {1}] + <<b>>[1]
    BY <1>0, <2>1, <2>2
  <2>. QED
    BY <2>2, <2>3, <2>4
<1>. QED
  BY <1>4, <1>5

LEMMA FlattenOne ==
  ASSUME NEW T, NEW q \in Seq(Seq(T))
  PROVE  /\ Len(q) = 0 => FlattenSeq(q) = << >>
         /\ Len(q) = 1 => FlattenSeq(q) = q[1]
<1>1. CASE Len(q) = 0
  <2>1. q = << >>
    BY <1>1
  <2>. QED
    BY <1>1, <2>1 DEF FlattenSeq
<1>2. CASE Len(q) = 1
  <2>1. Flattens(CHOOSE f : Flattens(f, q), q)
    BY <1>2, FlattensExists
  <2>2. FlattenSeq(q) = (CHOOSE f : Flattens(f, q))[1]
    BY <1>2 DEF FlattenSeq, Flattens
  <2>3. \A f : Flattens(f, q) => f[1] = q[1]
    BY <1>2 DEF Flattens
  <2>. QED
    BY <1>2, <2>1, <2>2, <2>3
<1>. QED
  BY <1>1, <1>2

LEMMA PiecesOfScalar ==
  ASSUME NEW n \in Nat, NEW type \in Seq(Nat \ {0}), Len(type) <= 1
  PROVE  /\ PiecesOf(n, type) \in Seq(Piece)
         /\ Len(PiecesOf(n, type)) = (TypeBytes(type) + 1) \div 2
         /\ \A k \in 1..Len(PiecesOf(n, type)) :
              /\ PiecesOf(n, type)[k].arg = n
              /\ PiecesOf(n, type)[k].partOffset = 0 <=> k = 1
<1>0. PICK q : q = [v \in DOMAIN type |-> PartsOf(n, type[v])]
  OBVIOUS
<1>1. q \in Seq(Seq(Piece)) /\ Len(q) = Len(type)
  <2>1. \A v \in 1..Len(type) : PartsOf(n, type[v]) \in Seq(Piece)
    BY PartsAreRuns
  <2>. QED
    BY <1>0, <2>1
<1>2. PiecesOf(n, type) = FlattenSeq(q)
  BY <1>0 DEF PiecesOf, PartsOf
<1>3. PiecesOf(n, type) \in Seq(Piece)
  BY PiecesOfRuns
<1>4. CASE Len(type) = 0
  <2>1. type = << >> /\ PiecesOf(n, type) = << >>
    <3>1. type = << >>
      BY <1>4
    <3>2. FlattenSeq(q) = << >>
      BY <1>1, <1>4, FlattenOne
    <3>. QED
      BY <1>2, <3>1, <3>2
  <2>2. TypeBytes(type) = 0
    BY <2>1, BytesOfNothing
  <2>. QED
    BY <1>3, <2>1, <2>2
<1>5. CASE Len(type) = 1
  <2>1. PICK b \in Nat \ {0} : type = <<b>>
    <3>1. type[1] \in Nat \ {0} /\ type = <<type[1]>>
      BY <1>5
    <3>. QED
      BY <3>1
  <2>2. PiecesOf(n, type) = PartsOf(n, b)
    <3>1. q[1] = PartsOf(n, b)
      BY <1>0, <2>1
    <3>. QED
      BY <1>1, <1>2, <1>5, <3>1, FlattenOne
  <2>3. (TypeBytes(type) + 1) \div 2 = NumParts(b)
    BY <2>1, BytesOfScalar DEF NumParts
  <2>. QED
    BY <1>3, <2>2, <2>3, PartsAreRuns
<1>6. Len(type) = 0 \/ Len(type) = 1
  <2>1. PICK l \in Nat : l = Len(type)
    OBVIOUS
  <2>2. l <= 1
    BY <2>1
  <2>3. l = 0 \/ l = 1
    BY <2>2
  <2>. QED
    BY <2>1, <2>3
<1>. QED
  BY <1>4, <1>5, <1>6, Zenon

\* With scalars only, the pieces are divided in the same way by what the callee
\* counts and by their arguments.
LEMMA ScalarsAreCounted ==
  ASSUME ScalarArguments, sig \in Signatures, ret \in Returns
  PROVE  /\ FunctionArgs \in Seq(Nat)
         /\ \E at \in Starts(FunctionArgs, Pieces) :
              Counted(FunctionArgs, Pieces, at) /\ at[Len(FunctionArgs) + 1] = Len(Pieces)
         /\ \A j, k \in 1..Len(Pieces) : Pieces[j].arg = Pieces[k].arg =>
              \E a, b \in 0..Len(Pieces) :
                Group(Pieces, a, b) /\ a < j /\ j <= b /\ a < k /\ k <= b
<1>1. PICK q : q = [n \in DOMAIN sig |-> PiecesOf(n, sig[n])]
  OBVIOUS
<1>2. PICK p : p = Pieces
  OBVIOUS
<1>3. sig \in Seq(Seq(Nat \ {0})) /\ \A n \in 1..Len(sig) : Len(sig[n]) <= 1 /\ sig[n] \in Seq(Nat \ {0})
  BY CallAssumption DEF ScalarArguments
<1>4. q \in Seq(Seq(Piece)) /\ Len(q) = Len(sig)
  <2>1. ASSUME NEW n \in 1..Len(sig) PROVE PiecesOf(n, sig[n]) \in Seq(Piece)
    <3>1. n \in Nat /\ sig[n] \in Seq(Nat \ {0})
      BY <1>3
    <3>. QED
      BY <3>1, PiecesOfRuns
  <2>2. DOMAIN sig = 1..Len(sig) /\ Len(sig) \in Nat
    BY <1>3
  <2>3. q = [n \in 1..Len(sig) |-> PiecesOf(n, sig[n])]
    BY <1>1, <2>2
  <2>. QED
    BY <2>1, <2>2, <2>3
<1>5. p = FlattenSeq(q) /\ p \in Seq(Piece) /\ Runs(p)
  <2>1. ret # "wide"
    BY DEF ScalarArguments
  <2>2. Pieces = FlattenSeq(q)
    BY <1>1, <2>1 DEF Pieces, PiecesOfCall, Passed
  <2>. QED
    BY <1>2, <2>2, PiecesAreRuns DEF Pieces
<1>6. PICK at : Segments(at, q, p)
  BY <1>4, <1>5, FlattenSeqSegments
<1>7. PICK c : c = FunctionArgs
  OBVIOUS
<1>8. ASSUME NEW n \in 1..Len(q)
      PROVE  /\ c[n] = Len(q[n])
             /\ \A k \in 1..Len(q[n]) : q[n][k].arg = n /\ (q[n][k].partOffset = 0 <=> k = 1)
  <2>1. n \in Nat /\ n \in DOMAIN sig /\ sig[n] \in Seq(Nat \ {0}) /\ Len(sig[n]) <= 1
    BY <1>3, <1>4
  <2>2. q[n] = PiecesOf(n, sig[n]) /\ c[n] = (TypeBytes(sig[n]) + 1) \div 2
    BY <1>1, <1>7, <2>1 DEF FunctionArgs
  <2>. QED
    BY <2>1, <2>2, PiecesOfScalar
<1>9. c \in Seq(Nat) /\ Len(c) = Len(q)
  <2>1. \A n \in 1..Len(q) : Len(q[n]) \in Nat
    BY <1>4
  <2>2. c = [n \in DOMAIN sig |-> (TypeBytes(sig[n]) + 1) \div 2]
    BY <1>7 DEF FunctionArgs
  <2>3. DOMAIN sig = 1..Len(q) /\ Len(q) \in Nat
    BY <1>3, <1>4
  <2>4. DOMAIN c = 1..Len(q)
    BY <2>2, <2>3
  <2>5. c = [n \in 1..Len(q) |-> c[n]]
    BY <2>2, <2>3, <2>4
  <2>. QED
    BY <1>8, <2>1, <2>3, <2>5
<1>10. /\ at[1] = 0 /\ at[Len(c) + 1] = Len(p)
       /\ \A n \in 1..(Len(c) + 1) : at[n] \in 0..Len(p)
  <2>1. ASSUME NEW n \in 1..(Len(q) + 1) PROVE at[n] \in 0..Len(p)
    <3>1. Len(q) + 1 \in n..(Len(q) + 1) /\ Len(p) \in Nat
      BY <1>4, <1>5
    <3>2. at[n] \in Nat /\ at[n] <= at[Len(q) + 1]
      BY <1>4, <1>5, <1>6, <3>1, SegmentsInOrder
    <3>3. at[Len(q) + 1] = Len(p)
      BY <1>6 DEF Segments
    <3>. QED
      BY <3>1, <3>2, <3>3
  <2>. QED
    BY <1>6, <1>9, <2>1 DEF Segments
\* An element of segment n, and where it begins.
<1>11. ASSUME NEW k \in 1..Len(p)
       PROVE  \E n \in 1..Len(q) :
                /\ at[n] \in Nat /\ at[n + 1] \in Nat /\ at[n] < k /\ k <= at[n + 1]
                /\ p[k].arg = n /\ (p[k].partOffset = 0 <=> k = at[n] + 1)
  <2>1. PICK n \in 1..Len(q) :
          at[n] < k /\ k <= at[n + 1] /\ k - at[n] \in 1..Len(q[n]) /\ p[k] = q[n][k - at[n]]
    <3>1. q \in Seq(Seq(Piece)) /\ p \in Seq(Piece)
      BY <1>4, <1>5
    <3>2. InSegment(at, q, p, k)
      BY <1>6, <3>1, SegmentOfElement
    <3>. QED
      BY <3>2 DEF InSegment
  <2>2. at[n] \in Nat /\ at[n + 1] \in Nat
    <3>1. n \in 1..(Len(c) + 1) /\ n + 1 \in 1..(Len(c) + 1)
      BY <1>4, <1>9
    <3>. QED
      BY <1>6 DEF Segments
  <2>3. p[k].arg = n /\ (p[k].partOffset = 0 <=> k - at[n] = 1)
    BY <1>8, <2>1
  <2>4. k - at[n] = 1 <=> k = at[n] + 1
    <3>1. PICK a \in Nat : a = at[n]
      BY <2>2
    <3>2. k - a = 1 <=> k = a + 1
      BY <1>5
    <3>. QED
      BY <3>1, <3>2
  <2>. QED
    BY <2>1, <2>2, <2>3, <2>4
<1>12. ASSUME NEW n \in 1..(Len(q) + 1) PROVE Cut(p, at[n])
  <2>1. at[n] \in 0..Len(p) /\ Len(p) \in Nat
    BY <1>5, <1>9, <1>10
  <2>2. ASSUME at[n] < Len(p) PROVE p[at[n] + 1].partOffset = 0
    <3>1. PICK k \in 1..Len(p) : k = at[n] + 1
      BY <2>1, <2>2
    <3>2. PICK m \in 1..Len(q) :
            /\ at[m] \in Nat /\ at[m + 1] \in Nat /\ at[m] < k /\ k <= at[m + 1]
            /\ p[k].partOffset = 0 <=> k = at[m] + 1
      BY <1>11
    <3>3. ~(m + 1 <= n)
      <4>1. ASSUME m + 1 <= n PROVE FALSE
        <5>1. n \in (m + 1)..(Len(q) + 1) /\ m + 1 \in 1..(Len(q) + 1)
          BY <1>4, <4>1
        <5>2. at[m + 1] <= at[n]
          BY <1>4, <1>5, <1>6, <5>1, SegmentsInOrder
        <5>. QED
          BY <2>1, <3>1, <3>2, <5>2
      <4>. QED
        BY <4>1
    <3>4. at[n] <= at[m]
      <4>1. m \in n..(Len(q) + 1)
        BY <1>4, <3>3
      <4>. QED
        BY <1>4, <1>5, <1>6, <4>1, SegmentsInOrder
    <3>5. k = at[m] + 1
      BY <2>1, <3>1, <3>2, <3>4
    <3>. QED
      BY <3>1, <3>2, <3>5
  <2>. QED
    BY <2>1, <2>2 DEF Cut
<1>13. ASSUME NEW n \in 1..Len(q)
       PROVE  /\ at[n + 1] = at[n] + c[n] /\ at[n] \in Nat /\ at[n + 1] \in Nat
              /\ at[n + 1] <= Len(p)
              /\ \A k \in (at[n] + 2)..at[n + 1] : p[k].partOffset # 0
  <2>1. n \in 1..(Len(c) + 1) /\ n + 1 \in 1..(Len(c) + 1)
    BY <1>4, <1>9
  <2>2. at[n + 1] = at[n] + c[n] /\ c[n] = Len(q[n])
    BY <1>6, <1>8 DEF Segments
  <2>3. at[n] \in 0..Len(p) /\ at[n + 1] \in 0..Len(p) /\ Len(p) \in Nat
    BY <1>5, <1>10, <2>1
  <2>4. ASSUME NEW k \in (at[n] + 2)..at[n + 1] PROVE p[k].partOffset # 0
    <3>1. PICK j \in 1..Len(q[n]) : k = at[n] + j /\ j # 1
      <4>1. k - at[n] \in 1..Len(q[n]) /\ k = at[n] + (k - at[n]) /\ k - at[n] # 1
        <5>1. PICK a \in Nat, l \in Int : a = at[n] /\ l = Len(q[n])
          BY <1>4, <2>3
        <5>2. k \in (a + 2)..(a + l)
          BY <2>2, <5>1
        <5>3. k - a \in 1..l /\ k = a + (k - a) /\ k - a # 1
          BY <5>2
        <5>. QED
          BY <5>1, <5>3
      <4>. QED
        BY <4>1
    <3>2. p[k] = q[n][j]
      BY <1>6, <3>1 DEF Segments
    <3>. QED
      BY <1>8, <3>1, <3>2
  <2>. QED
    BY <2>2, <2>3, <2>4
<1>14. at \in Starts(c, p)
  <2>1. at \in [1..(Len(q) + 1) -> Nat]
    BY <1>6 DEF Segments
  <2>. QED
    BY <1>9, <1>10, <2>1 DEF Starts
<1>15. Counted(c, p, at) /\ at[Len(c) + 1] = Len(p)
  BY <1>9, <1>10, <1>12, <1>13 DEF Counted
<1>16. ASSUME NEW j \in 1..Len(p), NEW k \in 1..Len(p), p[j].arg = p[k].arg
       PROVE  \E a, b \in 0..Len(p) : Group(p, a, b) /\ a < j /\ j <= b /\ a < k /\ k <= b
  <2>1. PICK n \in 1..Len(q) : at[n] < j /\ j <= at[n + 1] /\ p[j].arg = n
    BY <1>11
  <2>2. PICK m \in 1..Len(q) : at[m] < k /\ k <= at[m + 1] /\ p[k].arg = m
    BY <1>11
  <2>3. m = n
    BY <1>16, <2>1, <2>2
  <2>4. n \in 1..(Len(q) + 1) /\ n + 1 \in 1..(Len(q) + 1)
    BY <1>4
  <2>5. Cut(p, at[n]) /\ Cut(p, at[n + 1])
    BY <1>12, <2>4
  <2>6. at[n] \in 0..Len(p) /\ at[n + 1] \in 0..Len(p) /\ at[n] < at[n + 1]
    <3>1. at[n] \in Nat /\ at[n + 1] \in Nat
      BY <1>13
    <3>2. j \in Nat /\ Len(p) \in Nat
      BY <1>5
    <3>3. at[n] < at[n + 1] /\ at[n + 1] <= Len(p)
      BY <1>13, <2>1, <3>1, <3>2
    <3>. QED
      BY <3>1, <3>2, <3>3
  <2>7. Group(p, at[n], at[n + 1])
    BY <1>13, <2>5, <2>6 DEF Group
  <2>. QED
    BY <2>1, <2>2, <2>3, <2>6, <2>7
<1>. QED
  BY <1>2, <1>7, <1>9, <1>14, <1>15, <1>16
----------------------------------------------------------------------------
(***************************************************************************)
(* analyzeStandardArguments has assigned the first m of the pieces p, all  *)
(* those of the arguments before the n-th.                                 *)
(***************************************************************************)
FirstRegisters(n) == {RegList[k] : k \in 1..n}
Used(p, m) == IF m <= InRegs(p) THEN m ELSE InRegs(p)

\* The n-th argument begins after piece m.
StartsAt(p, counts, n, m) ==
  \E at \in Starts(counts, p) :
    /\ Counted(counts, p, at) /\ at[Len(counts) + 1] = Len(p)
    /\ n \in 1..(Len(counts) + 1) /\ m = at[n]

Assigned(p, counts, n, m, left, onStack, taken, bytes, l) ==
  /\ StartsAt(p, counts, n, m)
  /\ onStack \in BOOLEAN /\ (onStack <=> m > InRegs(p))
  /\ left = 3 - Used(p, m)
  /\ taken = FirstRegisters(Used(p, m))
  /\ bytes = 2 * (m - Used(p, m))
  /\ l \in Seq(Location) /\ Len(l) = m /\ Placed(l, p)

LEMMA NothingAssigned ==
  ASSUME NEW p \in Seq(Piece), Runs(p), NEW counts \in Seq(Nat),
         \E at \in Starts(counts, p) : Counted(counts, p, at) /\ at[Len(counts) + 1] = Len(p)
  PROVE  Assigned(p, counts, 1, 0, 3, FALSE, {}, 0, << >>)
<1>1. InRegs(p) \in 0..3 /\ Used(p, 0) = 0
  BY InRegsIsLastCut DEF Used
<1>2. 1 \in 1..(Len(counts) + 1) /\ \A at : Counted(counts, p, at) => at[1] = 0
  BY DEF Counted
<1>3. << >> \in Seq(Location) /\ Len(<< >>) = 0 /\ Placed(<< >>, p)
  BY DEF Placed
<1>4. FirstRegisters(0) = {}
  BY DEF FirstRegisters
<1>. QED
  BY <1>1, <1>2, <1>3, <1>4 DEF Assigned, StartsAt

LEMMA CountedGroup ==
  ASSUME NEW p \in Seq(Piece), Runs(p), NEW counts \in Seq(Nat),
         NEW at \in Starts(counts, p), Counted(counts, p, at), NEW n \in 1..Len(counts)
  PROVE  /\ at[n] \in Nat /\ at[n + 1] \in Nat /\ at[n + 1] = at[n] + counts[n]
         /\ counts[n] \in Nat /\ at[n + 1] <= Len(p)
         /\ counts[n] # 0 => Group(p, at[n], at[n + 1])
<1>1. n \in 1..(Len(counts) + 1) /\ n + 1 \in 1..(Len(counts) + 1) /\ Len(p) \in Nat
  OBVIOUS
<1>2. at[n] \in 0..Len(p) /\ at[n + 1] \in 0..Len(p)
  BY <1>1 DEF Starts
<1>3. counts[n] \in Nat
  OBVIOUS
<1>4. at[n + 1] = at[n] + counts[n] /\ Cut(p, at[n]) /\ Cut(p, at[n + 1])
      /\ \A k \in (at[n] + 2)..at[n + 1] : p[k].partOffset # 0
  BY <1>1 DEF Counted
<1>5. counts[n] # 0 => at[n] < at[n + 1]
  BY <1>2, <1>3, <1>4
<1>. QED
  BY <1>1, <1>2, <1>3, <1>4, <1>5 DEF Group

\* What the analysis knows suffices to tell whether the next argument fits.
LEMMA WhereItGoes ==
  ASSUME NEW p \in Seq(Piece), Runs(p), NEW a, NEW b, Group(p, a, b)
  PROVE  IF a <= InRegs(p) /\ b - a <= 3 - a
         THEN b <= 3 /\ b <= InRegs(p) /\ Used(p, a) = a /\ Used(p, b) = b
         ELSE b > 3 /\ a >= InRegs(p) /\ Used(p, a) = InRegs(p) /\ Used(p, b) = InRegs(p)
<1>1. /\ a \in Nat /\ b \in Nat /\ a < b /\ InRegs(p) \in 0..3
      /\ b <= 3 => b <= InRegs(p)
      /\ b > 3 => InRegs(p) <= a
  BY GroupSide, InRegsIsLastCut
<1>2. CASE a <= InRegs(p) /\ b - a <= 3 - a
  BY <1>1, <1>2 DEF Used
<1>3. CASE ~(a <= InRegs(p) /\ b - a <= 3 - a)
  <2>1. b > 3
    BY <1>1, <1>3
  <2>. QED
    BY <1>1, <1>3, <2>1 DEF Used
<1>. QED
  BY <1>2, <1>3

\* The next registers of the list are given out.
LEMMA NextRegisters ==
  ASSUME NEW u \in 0..3, allocated = {RegList[k] : k \in 1..u}, NEW n \in Nat, u + n <= 3
  PROVE  /\ \A j \in 1..n : AllocateRegs(n)[j] = RegList[u + j]
         /\ allocated \cup {AllocateRegs(n)[j] : j \in 1..n} = {RegList[k] : k \in 1..(u + n)}
<1> DEFINE free == {k \in DOMAIN RegList : RegList[k] \notin allocated}
           nth(j) == {k \in free : Cardinality({m \in free : m <= k}) = j}
<1>1. free = (u + 1)..3
  BY RegListFacts
<1>2. ASSUME NEW j \in 1..n PROVE nth(j) = {u + j}
  <2>1. ASSUME NEW k \in (u + 1)..3 PROVE Cardinality({m \in free : m <= k}) = k - u
    <3>1. {m \in free : m <= k} = (u + 1)..k
      BY <1>1
    <3>2. Cardinality((u + 1)..k) = k - (u + 1) + 1
      BY FS_Interval
    <3>3. k - (u + 1) + 1 = k - u
      OBVIOUS
    <3> HIDE DEF free
    <3>. QED
      BY <3>1, <3>2, <3>3
  <2>2. \A k \in (u + 1)..3 : Cardinality({m \in free : m <= k}) = j <=> k = u + j
    BY <2>1
  <2>3. u + j \in (u + 1)..3
    OBVIOUS
  <2>. HIDE DEF free
  <2>. QED
    BY <1>1, <2>2, <2>3
<1>3. AllocateRegs(n) =
        [j \in 1..n |-> IF nth(j) = {} THEN "none" ELSE RegList[CHOOSE k \in nth(j) : TRUE]]
  BY DEF AllocateRegs
<1> HIDE DEF nth
<1>4. ASSUME NEW j \in 1..n PROVE AllocateRegs(n)[j] = RegList[u + j]
  <2>1. nth(j) = {u + j}
    BY <1>2
  <2>2. (CHOOSE k \in {u + j} : TRUE) = u + j
    OBVIOUS
  <2>. QED
    BY <1>3, <2>1, <2>2
<1>5. ASSUME NEW r
      PROVE  r \in allocated \cup {AllocateRegs(n)[j] : j \in 1..n}
               <=> r \in {RegList[k] : k \in 1..(u + n)}
  <2>1. ASSUME NEW k \in 1..(u + n)
        PROVE  RegList[k] \in allocated \cup {AllocateRegs(n)[j] : j \in 1..n}
    <3>1. CASE k <= u
      <4>1. k \in 1..u
        BY <3>1
      <4>. QED
        BY <4>1
    <3>2. CASE k > u
      <4>1. k - u \in 1..n /\ u + (k - u) = k
        BY <3>2
      <4>2. RegList[k] = AllocateRegs(n)[k - u]
        BY <1>4, <4>1
      <4>. QED
        BY <4>1, <4>2
    <3>. QED
      BY <3>1, <3>2
  <2>2. \A k \in 1..u : k \in 1..(u + n)
    OBVIOUS
  <2>3. ASSUME NEW j \in 1..n
        PROVE  AllocateRegs(n)[j] \in {RegList[k] : k \in 1..(u + n)}
    <3>1. u + j \in 1..(u + n)
      OBVIOUS
    <3>. QED
      BY <1>4, <3>1
  <2>. QED
    BY <2>1, <2>2, <2>3
<1>. QED
  BY <1>4, <1>5

LEMMA AssignedNext ==
  ASSUME NEW p \in Seq(Piece), Runs(p), NEW counts \in Seq(Nat), NEW n, NEW m,
         NEW left, NEW onStack, NEW taken, NEW bytes, NEW l,
         Assigned(p, counts, n, m, left, onStack, taken, bytes, l), n <= Len(counts)
  PROVE  /\ n \in 1..Len(counts) /\ m \in Nat /\ counts[n] \in Nat /\ m + counts[n] <= Len(p)
         /\ counts[n] # 0 => Group(p, m, m + counts[n])
         /\ StartsAt(p, counts, n + 1, m + counts[n])
<1>1. PICK at \in Starts(counts, p) :
        /\ Counted(counts, p, at) /\ at[Len(counts) + 1] = Len(p)
        /\ n \in 1..(Len(counts) + 1) /\ m = at[n]
  BY DEF Assigned, StartsAt
<1>2. n \in 1..Len(counts) /\ n + 1 \in 1..(Len(counts) + 1)
  BY <1>1
<1>3. /\ at[n] \in Nat /\ at[n + 1] = at[n] + counts[n]
      /\ counts[n] \in Nat /\ at[n + 1] <= Len(p)
      /\ counts[n] # 0 => Group(p, at[n], at[n + 1])
  BY <1>1, <1>2, CountedGroup
<1>4. StartsAt(p, counts, n + 1, m + counts[n])
  BY <1>1, <1>2, <1>3 DEF StartsAt
<1>. QED
  BY <1>1, <1>2, <1>3, <1>4

LEMMA NoMoreAssigned ==
  ASSUME NEW p \in Seq(Piece), Runs(p), NEW counts \in Seq(Nat), NEW n, NEW m,
         NEW left, NEW onStack, NEW taken, NEW bytes, NEW l,
         Assigned(p, counts, n, m, left, onStack, taken, bytes, l), n <= Len(counts),
         counts[n] = 0
  PROVE  Assigned(p, counts, n + 1, m, left, onStack, taken, bytes, l)
<1>1. m \in Nat /\ m + counts[n] = m
  BY AssignedNext
<1>2. StartsAt(p, counts, n + 1, m)
  BY <1>1, AssignedNext
<1>. QED
  BY <1>2 DEF Assigned

RegisterGroup(given, c, w) == Reverse([j \in 1..c |-> InRegister(given[j], w)])
MemoryGroup(from, c, w) == [j \in 1..c |-> InMemory(from + (j - 1) * w, w)]

\* A group in registers, the last piece first.
LEMMA GroupInRegisters ==
  ASSUME NEW p \in Seq(Piece), Runs(p), NEW m \in Nat, NEW c \in Nat, Group(p, m, m + c),
         m + c <= 3, NEW given, \A j \in 1..c : given[j] = RegList[m + j]
  PROVE  /\ RegisterGroup(given, c, p[m + 1].bytes) \in Seq(Location)
         /\ Len(RegisterGroup(given, c, p[m + 1].bytes)) = c
         /\ \A j \in 1..c :
              RegisterGroup(given, c, p[m + 1].bytes)[j] = Place(p, m, m + c, m + j)
<1>0. PICK q : q = RegisterGroup(given, c, p[m + 1].bytes)
  OBVIOUS
<1>1. /\ Len([j \in 1..c |-> InRegister(given[j], p[m + 1].bytes)]) = c
      /\ q = [j \in 1..c |-> InRegister(given[c - j + 1], p[m + 1].bytes)]
  BY <1>0 DEF Reverse, RegisterGroup
<1>2. ASSUME NEW j \in 1..c
      PROVE  q[j] = Place(p, m, m + c, m + j) /\ q[j] \in Location
  <2>1. m + j \in (m + 1)..(m + c) /\ c - j + 1 \in 1..c
        /\ m + (m + c) + 1 - (m + j) = m + (c - j + 1)
    OBVIOUS
  <2>2. p[m + j].bytes = p[m + 1].bytes
    BY <2>1, GroupIsUniform
  <2>3. given[c - j + 1] = RegList[m + (c - j + 1)]
    BY <2>1
  <2>4. q[j] = InRegister(RegList[m + (m + c) + 1 - (m + j)], p[m + j].bytes)
    BY <1>1, <2>1, <2>2, <2>3
  <2>5. q[j] = Place(p, m, m + c, m + j)
    BY <2>4 DEF Place
  <2>6. Place(p, m, m + c, m + j) \in Location
    BY <2>1, PlaceIsLocation
  <2>. QED
    BY <2>5, <2>6
<1>3. q \in Seq(Location) /\ Len(q) = c
  <2>1. q = [j \in 1..c |-> q[j]]
    BY <1>1
  <2>. QED
    BY <1>2, <2>1
<1>. QED
  BY <1>0, <1>2, <1>3

\* A group on the stack.
LEMMA GroupInMemory ==
  ASSUME NEW p \in Seq(Piece), Runs(p), NEW m \in Nat, NEW c \in Nat, Group(p, m, m + c),
         m + c > 3, InRegs(p) <= m
  PROVE  /\ MemoryGroup(2 * (m - InRegs(p)), c, 2) \in Seq(Location)
         /\ Len(MemoryGroup(2 * (m - InRegs(p)), c, 2)) = c
         /\ \A j \in 1..c :
              MemoryGroup(2 * (m - InRegs(p)), c, 2)[j] = Place(p, m, m + c, m + j)
<1>0. PICK q : q = MemoryGroup(2 * (m - InRegs(p)), c, 2)
  OBVIOUS
<1>1. InRegs(p) \in 0..3
  BY InRegsIsLastCut
<1>2. ASSUME NEW j \in 1..c
      PROVE  q[j] = Place(p, m, m + c, m + j) /\ q[j] \in Location
  <2>1. m + j \in (m + 1)..(m + c) /\ ~(m + c <= 3)
    OBVIOUS
  <2>2. 2 * (m - InRegs(p)) + (j - 1) * 2 = 2 * ((m + j) - 1 - InRegs(p))
    BY <1>1
  <2>3. q[j] = InMemory(2 * ((m + j) - 1 - InRegs(p)), 2)
    BY <1>0, <2>2 DEF MemoryGroup
  <2>4. q[j] = Place(p, m, m + c, m + j)
    BY <2>1, <2>3, Zenon DEF Place
  <2>5. Place(p, m, m + c, m + j) \in Location
    BY <2>1, PlaceIsLocation
  <2>. QED
    BY <2>4, <2>5
<1>3. q \in Seq(Location) /\ Len(q) = c
  <2>1. q = [j \in 1..c |-> q[j]]
    BY <1>0 DEF MemoryGroup
  <2>. QED
    BY <1>2, <2>1
<1>. QED
  BY <1>0, <1>2, <1>3

\* The counters keep step with the pieces assigned.
LEMMA CountersInRegisters ==
  ASSUME NEW p \in Seq(Piece), Runs(p), NEW m \in Nat, NEW c \in Nat, Group(p, m, m + c),
         ~(m > InRegs(p)), c <= 3 - Used(p, m)
  PROVE  /\ m + c <= 3 /\ Used(p, m) = m /\ Used(p, m + c) = m + c /\ ~(m + c > InRegs(p))
         /\ 3 - Used(p, m) - c = 3 - Used(p, m + c)
         /\ 2 * (m - Used(p, m)) = 2 * ((m + c) - Used(p, m + c))
<1>1. InRegs(p) \in 0..3
  BY InRegsIsLastCut
<1>2. Used(p, m) = m /\ m + c - m <= 3 - m /\ m <= InRegs(p)
  BY <1>1 DEF Used
<1>3. m + c <= 3 /\ m + c <= InRegs(p) /\ Used(p, m + c) = m + c
  BY <1>2, WhereItGoes
<1>. QED
  BY <1>1, <1>2, <1>3

LEMMA CountersOnStack ==
  ASSUME NEW p \in Seq(Piece), Runs(p), NEW m \in Nat, NEW c \in Nat, Group(p, m, m + c),
         m > InRegs(p) \/ c > 3 - Used(p, m)
  PROVE  /\ m + c > 3 /\ InRegs(p) <= m /\ Used(p, m) = InRegs(p)
         /\ Used(p, m + c) = InRegs(p) /\ m + c > InRegs(p)
         /\ 2 * (m - Used(p, m)) + c * 2 = 2 * ((m + c) - Used(p, m + c))
<1>1. InRegs(p) \in 0..3
  BY InRegsIsLastCut
<1>2. ~(m <= InRegs(p) /\ m + c - m <= 3 - m)
  BY <1>1 DEF Used
<1>3. m + c > 3 /\ m >= InRegs(p) /\ Used(p, m) = InRegs(p) /\ Used(p, m + c) = InRegs(p)
  BY <1>2, WhereItGoes
<1>. QED
  BY <1>1, <1>3

LEMMA MoreInRegisters ==
  ASSUME NEW p \in Seq(Piece), Runs(p), NEW counts \in Seq(Nat), NEW n, NEW m,
         NEW left, NEW taken, NEW bytes, NEW l,
         Assigned(p, counts, n, m, left, FALSE, taken, bytes, l), n <= Len(counts),
         counts[n] # 0, counts[n] <= left,
         NEW given, \A j \in 1..counts[n] : given[j] = RegList[m + j]
  PROVE  Assigned(p, counts, n + 1, m + counts[n], left - counts[n], FALSE,
                  FirstRegisters(m + counts[n]), bytes,
                  l \o RegisterGroup(given, counts[n], p[m + 1].bytes))
<1>0. PICK c : c = counts[n]
  OBVIOUS
<1>1. StartsAt(p, counts, n + 1, m + c)
  BY <1>0, AssignedNext
<1>2. m \in Nat /\ c \in Nat /\ Group(p, m, m + c)
  BY <1>0, AssignedNext
<1>3. /\ FALSE \in BOOLEAN /\ (FALSE <=> m > InRegs(p))
      /\ left = 3 - Used(p, m) /\ bytes = 2 * (m - Used(p, m))
      /\ l \in Seq(Location) /\ Len(l) = m /\ Placed(l, p)
  BY DEF Assigned
<1>4. ~(m > InRegs(p)) /\ c <= 3 - Used(p, m)
  BY <1>0, <1>3
<1>5. /\ m + c <= 3 /\ Used(p, m + c) = m + c /\ ~(m + c > InRegs(p))
      /\ 3 - Used(p, m) - c = 3 - Used(p, m + c)
      /\ 2 * (m - Used(p, m)) = 2 * ((m + c) - Used(p, m + c))
  BY <1>2, <1>4, CountersInRegisters
<1>6. PICK q : q = RegisterGroup(given, c, p[m + 1].bytes)
  OBVIOUS
<1>7. /\ q \in Seq(Location) /\ Len(q) = c
      /\ \A j \in 1..c : q[j] = Place(p, m, m + c, m + j)
  <2>1. \A j \in 1..c : given[j] = RegList[m + j]
    BY <1>0
  <2>. QED
    <3>1. m + c <= 3
      BY <1>5
    <3>2. /\ RegisterGroup(given, c, p[m + 1].bytes) \in Seq(Location)
          /\ Len(RegisterGroup(given, c, p[m + 1].bytes)) = c
          /\ \A j \in 1..c :
               RegisterGroup(given, c, p[m + 1].bytes)[j] = Place(p, m, m + c, m + j)
      BY <1>2, <2>1, <3>1, GroupInRegisters, ZenonT(30)
    <3>. QED
      BY <1>6, <3>2
<1>8. l \o q \in Seq(Location) /\ Len(l \o q) = m + c /\ Placed(l \o q, p)
  <2>1. PlacesFirst(l, p, m)
    BY <1>3, Zenon DEF PlacesFirst
  <2>2. PlacesNext(q, p, m, c)
    BY <1>7, Zenon DEF PlacesNext
  <2>3. PlacesFirst(l \o q, p, m + c)
    BY <1>2, <2>1, <2>2, PlacedMore, Zenon
  <2>. QED
    BY <2>3, Zenon DEF PlacesFirst
<1>9. /\ FALSE \in BOOLEAN /\ (FALSE <=> m + c > InRegs(p))
      /\ left - c = 3 - Used(p, m + c) /\ bytes = 2 * ((m + c) - Used(p, m + c))
      /\ FirstRegisters(m + c) = FirstRegisters(Used(p, m + c))
  BY <1>3, <1>5
<1>10. Assigned(p, counts, n + 1, m + c, left - c, FALSE, FirstRegisters(m + c),
                bytes, l \o q)
  BY <1>1, <1>8, <1>9, Zenon DEF Assigned
<1>. QED
  BY <1>0, <1>6, <1>10

LEMMA MoreOnStack ==
  ASSUME NEW p \in Seq(Piece), Runs(p), \A k \in 4..Len(p) : p[k].bytes = 2,
         NEW counts \in Seq(Nat), NEW n, NEW m,
         NEW left, NEW onStack, NEW taken, NEW bytes, NEW l,
         Assigned(p, counts, n, m, left, onStack, taken, bytes, l), n <= Len(counts),
         counts[n] # 0, onStack = TRUE \/ counts[n] > left
  PROVE  Assigned(p, counts, n + 1, m + counts[n], left, TRUE, taken,
                  bytes + counts[n] * p[m + 1].bytes,
                  l \o MemoryGroup(bytes, counts[n], p[m + 1].bytes))
<1>0. PICK c : c = counts[n]
  OBVIOUS
<1>1. StartsAt(p, counts, n + 1, m + c)
  BY <1>0, AssignedNext
<1>2. m \in Nat /\ c \in Nat /\ m + c <= Len(p) /\ Group(p, m, m + c)
  BY <1>0, AssignedNext
<1>3. /\ onStack \in BOOLEAN /\ (onStack <=> m > InRegs(p))
      /\ left = 3 - Used(p, m) /\ bytes = 2 * (m - Used(p, m))
      /\ taken = FirstRegisters(Used(p, m))
      /\ l \in Seq(Location) /\ Len(l) = m /\ Placed(l, p)
  BY DEF Assigned
<1>4. m > InRegs(p) \/ c > 3 - Used(p, m)
  BY <1>0, <1>3
<1>5. /\ m + c > 3 /\ InRegs(p) <= m /\ Used(p, m) = InRegs(p)
      /\ Used(p, m + c) = InRegs(p) /\ m + c > InRegs(p)
      /\ 2 * (m - Used(p, m)) + c * 2 = 2 * ((m + c) - Used(p, m + c))
  BY <1>2, <1>4, CountersOnStack
<1>6. p[m + 1].bytes = 2
  <2>1. PICK k \in Nat : k = m + c
    BY <1>2
  <2>2. k \in 4..Len(p)
    BY <1>2, <1>5, <2>1
  <2>3. k \in (m + 1)..k
    <3>1. m < k
      BY <1>2, <2>1 DEF Group
    <3>. QED
      BY <1>2, <3>1
  <2>4. p[k].bytes = p[m + 1].bytes
    BY <1>2, <2>1, <2>3, GroupIsUniform
  <2>. QED
    BY <2>2, <2>4
<1>7. PICK q : q = MemoryGroup(2 * (m - InRegs(p)), c, 2)
  OBVIOUS
<1>8. /\ q \in Seq(Location) /\ Len(q) = c
      /\ \A j \in 1..c : q[j] = Place(p, m, m + c, m + j)
  BY <1>2, <1>5, <1>7, GroupInMemory
<1>9. l \o q \in Seq(Location) /\ Len(l \o q) = m + c /\ Placed(l \o q, p)
  <2>1. PlacesFirst(l, p, m)
    BY <1>3, Zenon DEF PlacesFirst
  <2>2. PlacesNext(q, p, m, c)
    BY <1>8, Zenon DEF PlacesNext
  <2>3. PlacesFirst(l \o q, p, m + c)
    BY <1>2, <2>1, <2>2, PlacedMore, Zenon
  <2>. QED
    BY <2>3, Zenon DEF PlacesFirst
<1>10. /\ TRUE \in BOOLEAN /\ (TRUE <=> m + c > InRegs(p))
       /\ left = 3 - Used(p, m + c) /\ bytes + c * 2 = 2 * ((m + c) - Used(p, m + c))
       /\ taken = FirstRegisters(Used(p, m + c))
  BY <1>3, <1>5
<1>11. Assigned(p, counts, n + 1, m + c, left, TRUE, taken, bytes + c * 2, l \o q)
  BY <1>1, <1>9, <1>10, Zenon DEF Assigned
<1>12. q = MemoryGroup(bytes, c, 2)
  BY <1>3, <1>5, <1>7
<1>. QED
  BY <1>0, <1>6, <1>11, <1>12
----------------------------------------------------------------------------
(***************************************************************************)
(* The inductive invariant.                                                *)
(***************************************************************************)
FunctionOK ==
  /\ sig \in Signatures /\ ret \in Returns /\ savesA \in BOOLEAN
  /\ ret = "word" => savesA
  /\ (side = "call" \/ ScalarArguments) => args \in Seq(Nat)

Fresh ==
  /\ arg = 1 /\ pos = 0 /\ regsLeft = 3 /\ usesStack = FALSE
  /\ allocated = {} /\ stackOffset = 0 /\ locs = << >>

RegsOK == regs \in [{"A", "X", "Y"} -> [lo : Bytes, hi : Bytes]]

MachineFresh ==
  /\ DOMAIN regs = {"A", "X", "Y"} /\ \A r \in {"A", "X", "Y"} : regs[r] = Word(CallersValue)
  /\ RegsOK
  /\ SP = StackTop /\ DOMAIN stack = 1..StackTop

\* parseExternFuncCallArgs has counted the pieces before i.
ParseInv ==
  /\ side = "call" /\ Fresh /\ MachineFresh
  /\ i \in 1..(Len(Pieces) + 1) /\ size \in 0..(i - 1)
  /\ IF size = 0 THEN offset = 0 /\ Cut(Pieces, i - 1)
     ELSE offset = Pieces[i - 1].partOffset + Pieces[i - 1].bytes
  /\ \A k \in (i - size + 1)..(i - 1) : Pieces[k].partOffset # 0
  /\ \E at \in Starts(args, Pieces) :
       Counted(args, Pieces, at) /\ at[Len(args) + 1] = i - 1 - size

AssignInv == Assigned(Pieces, args, arg, pos, regsLeft, usesStack, allocated, stackOffset, locs)

CalledInv ==
  /\ called.locs \in Seq(Location) /\ Len(called.locs) = Len(Pieces)
  /\ Placed(called.locs, Pieces)
  /\ called.bytes = 2 * (Len(Pieces) - InRegs(Pieces))

\* The stack arguments after the k-th are where they belong.
StoredAfter(k) ==
  \A j \in (k + 1)..Len(Pieces) :
    /\ stack[StackTop - 2 * (Len(Pieces) - j) - 1] = <<j, "lo">>
    /\ stack[StackTop - 2 * (Len(Pieces) - j)] = <<j, "hi">>

\* SP when every stack argument is pushed.
ArgumentsTop == StackTop - 2 * (Len(Pieces) - InRegs(Pieces))
SavedTop == ArgumentsTop - 2 - StackSize

RegistersPassed == \A r \in {"A", "X", "Y"} : regs[r] = Word(AtCall(r))

\* The last word pushed, and the one the callee's code starts from.
OnTop(w) == stack[SP + 1] = w.lo /\ stack[SP + 2] = w.hi
FrameTop == Word(IF savesA THEN AtCall("A") ELSE ReturnAddress)

RunInv ==
  /\ RegsOK /\ DOMAIN stack = 1..StackTop
  /\ pc = "store" =>
       /\ i \in InRegs(Pieces)..Len(Pieces) /\ SP = StackTop - 2 * (Len(Pieces) - i)
       /\ StoredAfter(i) /\ \A r \in {"A", "X", "Y"} : regs[r] = Word(CallersValue)
  /\ pc = "call" => SP = ArgumentsTop /\ StoredAfter(InRegs(Pieces)) /\ RegistersPassed
  /\ pc = "save" =>
       /\ SP = ArgumentsTop - 2 /\ StoredAfter(InRegs(Pieces)) /\ RegistersPassed
       /\ OnTop(Word(ReturnAddress))
  /\ pc = "body" =>
       /\ SP = SavedTop /\ StoredAfter(InRegs(Pieces)) /\ RegistersPassed
       /\ OnTop(FrameTop)
  /\ pc = "restore" =>
       /\ SP = SavedTop /\ OnTop(FrameTop)
       /\ IF savesA THEN regs["A"] \in {Word(Result), Word(Temporary)}
                    ELSE regs["A"] = Word(AtCall("A"))
  /\ pc = "return" =>
       IF savesA
         THEN /\ SP = ArgumentsTop - 3 /\ stack[SP + 1] = <<AtCall("A"), "hi">>
              /\ regs["A"].lo = <<AtCall("A"), "lo">> /\ regs["A"].hi # <<AtCall("A"), "hi">>
         ELSE /\ SP = ArgumentsTop - 2 /\ OnTop(Word(ReturnAddress))
              /\ regs["A"] = Word(AtCall("A"))
  /\ pc = "adjust" => ~savesA /\ SP = ArgumentsTop /\ regs["A"] = Word(AtCall("A"))
  /\ pc = "done" =>
       /\ ~savesA /\ SP = StackTop
       /\ regs["A"] = Word(IF called.bytes = 0 THEN AtCall("A") ELSE StackAddress)
  /\ pc = "astray" => savesA /\ SP = ArgumentsTop - 1
  /\ pc = "assert" => SP = StackTop

CallInv ==
  /\ FunctionOK
  /\ pc \in {"parse", "assign", "store", "call", "save", "body", "restore", "return",
             "adjust", "done", "astray", "assert"}
  /\ i \in 0..(Len(Pieces) + 1) /\ size \in Nat /\ offset \in Nat
  /\ pc = "parse" => ParseInv /\ called = [locs |-> << >>, bytes |-> 0]
  /\ pc = "assign" =>
       /\ side \in {"call", "entry"} /\ MachineFresh
       /\ side = "call" => AssignInv /\ called = [locs |-> << >>, bytes |-> 0]
       /\ side = "entry" => CalledInv /\ (ScalarArguments => AssignInv)
  /\ pc \notin {"parse", "assign"} =>
       side = "run" /\ CalledInv /\ (ScalarArguments => AssignInv /\ arg > Len(args)) /\ RunInv
----------------------------------------------------------------------------
(***************************************************************************)
(* What the invariant says of the pieces; and of a step that leaves the    *)
(* function alone.                                                         *)
(***************************************************************************)
LEMMA PiecesFacts ==
  ASSUME FunctionOK
  PROVE  /\ Pieces \in Seq(Piece) /\ Runs(Pieces) /\ Len(Pieces) \in Nat
         /\ InRegs(Pieces) \in 0..3 /\ InRegs(Pieces) <= Len(Pieces)
         /\ WordsOnStack => \A k \in 4..Len(Pieces) : Pieces[k].bytes = 2
         /\ StackIsLarge => 2 * Len(Pieces) + 5 <= StackTop
<1>1. sig \in Signatures /\ ret \in Returns
  BY DEF FunctionOK
<1>2. Pieces \in Seq(Piece) /\ Runs(Pieces)
  BY <1>1, PiecesAreRuns DEF Pieces
<1>3. Len(Pieces) \in Nat
  BY <1>2
<1>4. InRegs(Pieces) \in 0..3 /\ InRegs(Pieces) <= Len(Pieces)
  BY <1>2, InRegsIsLastCut
<1>5. WordsOnStack => \A k \in 4..Len(Pieces) : Pieces[k].bytes = 2
  BY <1>1 DEF WordsOnStack, Pieces
<1>6. StackIsLarge => 2 * Len(Pieces) + 5 <= StackTop
  BY <1>1 DEF StackIsLarge, Pieces
<1>. QED
  BY <1>2, <1>3, <1>4, <1>5, <1>6

LEMMA CountedMore ==
  ASSUME NEW p \in Seq(Piece), NEW counts \in Seq(Nat), NEW at \in Starts(counts, p),
         Counted(counts, p, at), NEW c \in Nat, Cut(p, at[Len(counts) + 1] + c),
         \A k \in (at[Len(counts) + 1] + 2)..(at[Len(counts) + 1] + c) : p[k].partOffset # 0
  PROVE  \E more \in Starts(Append(counts, c), p) :
           /\ Counted(Append(counts, c), p, more)
           /\ more[Len(Append(counts, c)) + 1] = at[Len(counts) + 1] + c
<1>0. PICK e : /\ e = at[Len(counts) + 1] + c /\ Cut(p, e)
               /\ \A k \in (at[Len(counts) + 1] + 2)..e : p[k].partOffset # 0
  OBVIOUS
<1>1. PICK n \in Nat : n = Len(counts)
  OBVIOUS
<1>2. PICK d : d = Append(counts, c)
  OBVIOUS
<1>3. /\ d \in Seq(Nat) /\ Len(d) = n + 1 /\ d[n + 1] = c
      /\ \A k \in 1..n : d[k] = counts[k]
  BY <1>1, <1>2
<1>4. e \in 0..Len(p)
  BY <1>0 DEF Cut
<1>5. PICK more : more = [k \in 1..(n + 2) |-> IF k = n + 2 THEN e ELSE at[k]]
  OBVIOUS
<1>6. more \in Starts(d, p)
  <2>1. \A k \in 1..(n + 1) : at[k] \in 0..Len(p)
    BY <1>1 DEF Starts
  <2>2. \A k \in 1..(n + 2) : (IF k = n + 2 THEN e ELSE at[k]) \in 0..Len(p)
    BY <1>4, <2>1
  <2>3. Len(d) + 1 = n + 2
    BY <1>3
  <2>. QED
    BY <1>5, <2>2, <2>3 DEF Starts
<1>7. more[n + 2] = e /\ \A k \in 1..(n + 1) : more[k] = at[k]
  BY <1>5
<1>8. \A k \in 1..(n + 2) : Cut(p, more[k])
  <2>1. \A k \in 1..(n + 1) : Cut(p, at[k])
    BY <1>1 DEF Counted
  <2>. QED
    BY <1>0, <1>7, <2>1
<1>9. ASSUME NEW k \in 1..(n + 1)
      PROVE  /\ more[k + 1] = more[k] + d[k]
             /\ \A x \in (more[k] + 2)..more[k + 1] : p[x].partOffset # 0
  <2>1. CASE k = n + 1
    <3>1. more[k + 1] = e /\ more[k] = at[n + 1] /\ d[k] = c
      BY <1>3, <1>7, <2>1, SMTT(30)
    <3>. QED
      BY <1>0, <1>1, <3>1
  <2>2. CASE k # n + 1
    <3>1. k \in 1..Len(counts) /\ more[k + 1] = at[k + 1] /\ more[k] = at[k] /\ d[k] = counts[k]
      <4>1. k \in 1..n /\ k \in 1..(n + 1) /\ k + 1 \in 1..(n + 1)
        BY <2>2
      <4>. QED
        BY <1>1, <1>3, <1>7, <4>1
    <3>. QED
      BY <3>1 DEF Counted
  <2>. QED
    BY <2>1, <2>2
<1>10. more[1] = 0
  BY <1>7 DEF Counted
<1>11. Counted(d, p, more) /\ more[Len(d) + 1] = e
  <2>1. Len(d) = n + 1 /\ Len(d) + 1 = n + 2
    BY <1>3
  <2>. QED
    BY <1>7, <1>8, <1>9, <1>10, <2>1 DEF Counted
<1>. QED
  BY <1>0, <1>2, <1>6, <1>11

LEMMA AssignedAll ==
  ASSUME NEW p \in Seq(Piece), Runs(p), NEW counts \in Seq(Nat), NEW n, NEW m,
         NEW left, NEW onStack, NEW taken, NEW bytes, NEW l,
         Assigned(p, counts, n, m, left, onStack, taken, bytes, l), n > Len(counts)
  PROVE  /\ n = Len(counts) + 1 /\ m = Len(p)
         /\ l \in Seq(Location) /\ Len(l) = Len(p) /\ Placed(l, p)
         /\ bytes = 2 * (Len(p) - InRegs(p))
<1>1. PICK at \in Starts(counts, p) :
        /\ at[Len(counts) + 1] = Len(p)
        /\ n \in 1..(Len(counts) + 1) /\ m = at[n]
  BY DEF Assigned, StartsAt
<1>2. n = Len(counts) + 1
  BY <1>1
<1>3. m = Len(p)
  BY <1>1, <1>2
<1>4. /\ l \in Seq(Location) /\ Len(l) = m /\ Placed(l, p)
      /\ bytes = 2 * (m - Used(p, m))
  BY DEF Assigned
<1>5. Used(p, m) = InRegs(p)
  BY <1>3, InRegsIsLastCut DEF Used
<1>. QED
  BY <1>2, <1>3, <1>4, <1>5
----------------------------------------------------------------------------
(***************************************************************************)
(* The analysis.                                                           *)
(***************************************************************************)
\* A word of one value, as a register holds it.
LEMMA WordIsRegister ==
  ASSUME NEW v \in StackAddress..Len(Pieces)
  PROVE  /\ Word(v) \in [lo : Bytes, hi : Bytes]
         /\ Word(v).lo = <<v, "lo">> /\ Word(v).hi = <<v, "hi">>
BY DEF Word, Bytes

LEMMA CallInit ==
  ASSUME StackIsLarge, Init
  PROVE  CallInv
<1>1. FunctionOK
  BY DEF Init, FunctionOK
<1>2. Pieces \in Seq(Piece) /\ Runs(Pieces) /\ Len(Pieces) \in Nat
  BY <1>1, PiecesFacts
<1>3. Fresh /\ MachineFresh
  <2>1. CallersValue \in StackAddress..Len(Pieces)
    BY <1>2 DEF CallersValue, StackAddress
  <2>2. Word(CallersValue) \in [lo : Bytes, hi : Bytes]
    BY <2>1, WordIsRegister
  <2>3. regs = [r \in {"A", "X", "Y"} |-> Word(CallersValue)]
    BY DEF Init
  <2>. QED
    BY <2>2, <2>3 DEF Init, Fresh, MachineFresh, RegsOK
<1>4. Cut(Pieces, 0)
  BY <1>2, EndsAreCuts
<1>5. \E at \in Starts(<< >>, Pieces) : Counted(<< >>, Pieces, at) /\ at[Len(<< >>) + 1] = 0
  <2>1. PICK at : at = [k \in 1..1 |-> 0]
    OBVIOUS
  <2>2. Len(<< >>) = 0 /\ 0 + 1 = 1 /\ 1..1 = {1} /\ 1..0 = {}
    OBVIOUS
  <2>3. at \in Starts(<< >>, Pieces)
    BY <1>2, <2>1, <2>2 DEF Starts
  <2>4. at[1] = 0
    BY <2>1
  <2>5. Counted(<< >>, Pieces, at)
    BY <1>4, <2>2, <2>4 DEF Counted
  <2>. QED
    BY <2>2, <2>3, <2>4, <2>5
<1>6. /\ side = "call" /\ pc = "parse" /\ args = << >> /\ i = 1 /\ size = 0 /\ offset = 0
      /\ called = [locs |-> << >>, bytes |-> 0]
  BY DEF Init
<1>7. ParseInv
  BY <1>2, <1>3, <1>4, <1>5, <1>6 DEF ParseInv
<1>. QED
  BY <1>1, <1>2, <1>6, <1>7 DEF CallInv

LEMMA SameFunction ==
  ASSUME CallInv, UNCHANGED function
  PROVE  Pieces' = Pieces
BY DEF function, Pieces

LEMMA ParsePieceStep ==
  ASSUME CallInv, ParsePiece
  PROVE  CallInv'
<1>1. FunctionOK /\ pc = "parse" /\ ParseInv /\ called = [locs |-> << >>, bytes |-> 0]
  BY DEF CallInv, ParsePiece
<1>2. Pieces \in Seq(Piece) /\ Runs(Pieces) /\ Len(Pieces) \in Nat
  BY <1>1, PiecesFacts
<1>3. /\ i' = i + 1 /\ size' = size + 1 /\ offset' = offset + Pieces[i].bytes
      /\ UNCHANGED <<function, side, pc, args, analysis, called, machine>>
  BY DEF ParsePiece
<1>4. Pieces' = Pieces
  BY <1>3, SameFunction
<1>5. i <= Len(Pieces) /\ Pieces[i].partOffset = offset
  BY DEF ParsePiece, Continues
<1>6. /\ i \in 1..(Len(Pieces) + 1) /\ size \in 0..(i - 1)
      /\ size # 0 => offset = Pieces[i - 1].partOffset + Pieces[i - 1].bytes
      /\ \A k \in (i - size + 1)..(i - 1) : Pieces[k].partOffset # 0
  BY <1>1 DEF ParseInv
<1>7. Pieces[i] \in Piece /\ i \in Nat /\ size \in Nat
  BY <1>2, <1>5, <1>6
<1>8. offset' \in Nat /\ offset \in Nat
  BY <1>3, <1>5, <1>7 DEF Piece
<1>9. \A k \in (i' - size' + 1)..(i' - 1) : Pieces[k].partOffset # 0
  <2>1. size # 0 => Pieces[i].partOffset # 0
    <3>1. ASSUME size # 0 PROVE Pieces[i].partOffset # 0
      <4>1. Pieces[i - 1] \in Piece
        BY <1>2, <1>6, <1>7, <3>1
      <4>2. Pieces[i - 1].partOffset \in Nat /\ Pieces[i - 1].bytes \in {1, 2}
        BY <4>1 DEF Piece
      <4>. QED
        BY <1>5, <1>6, <3>1, <4>2
    <3>. QED
      BY <3>1
  <2>2. ASSUME NEW k \in (i' - size' + 1)..(i' - 1)
        PROVE  k \in (i - size + 1)..(i - 1) \/ (k = i /\ size # 0)
    BY <1>3, <1>7
  <2>. QED
    BY <1>6, <2>1, <2>2
<1>10. i' - 1 - size' = i - 1 - size /\ i' - 1 = i
  BY <1>3, <1>7
<1>11. i' \in 1..(Len(Pieces) + 1) /\ size' \in 0..(i' - 1) /\ size' # 0
  BY <1>2, <1>3, <1>5, <1>6, <1>7
<1>12. /\ side' = "call" /\ args' = args /\ pc' = "parse" /\ Fresh' /\ MachineFresh'
       /\ called' = [locs |-> << >>, bytes |-> 0]
  BY <1>1, <1>3, <1>4 DEF ParseInv, Fresh, MachineFresh, RegsOK, Bytes, analysis, machine
<1>13. \E at \in Starts(args, Pieces) :
         Counted(args, Pieces, at) /\ at[Len(args) + 1] = i - 1 - size
  BY <1>1 DEF ParseInv
<1>14. ParseInv'
  BY <1>3, <1>4, <1>5, <1>9, <1>10, <1>11, <1>12, <1>13 DEF ParseInv
<1>15. FunctionOK'
  BY <1>1, <1>3 DEF FunctionOK, function
<1>. QED
  BY <1>4, <1>8, <1>11, <1>12, <1>14, <1>15 DEF CallInv

LEMMA EndArgumentStep ==
  ASSUME CallInv, EndArgument
  PROVE  CallInv'
<1>1. FunctionOK /\ pc = "parse" /\ ParseInv /\ called = [locs |-> << >>, bytes |-> 0]
  BY DEF CallInv, EndArgument
<1>2. Pieces \in Seq(Piece) /\ Runs(Pieces) /\ Len(Pieces) \in Nat
  BY <1>1, PiecesFacts
<1>3. /\ args' = Append(args, size) /\ size' = 0 /\ offset' = 0
      /\ UNCHANGED <<function, side, pc, i, analysis, called, machine>>
  BY DEF EndArgument
<1>4. Pieces' = Pieces
  BY <1>3, SameFunction
<1>5. i <= Len(Pieces) => Pieces[i].partOffset # offset
  BY DEF EndArgument, Continues
<1>6. /\ side = "call" /\ i \in 1..(Len(Pieces) + 1) /\ size \in 0..(i - 1)
      /\ size = 0 => offset = 0 /\ Cut(Pieces, i - 1)
      /\ size # 0 => offset = Pieces[i - 1].partOffset + Pieces[i - 1].bytes
      /\ \A k \in (i - size + 1)..(i - 1) : Pieces[k].partOffset # 0
  BY <1>1 DEF ParseInv
<1>7. args \in Seq(Nat) /\ size \in Nat /\ i \in Nat
  BY <1>1, <1>6 DEF FunctionOK
<1>8. Cut(Pieces, i - 1)
  <2>1. ASSUME i - 1 < Len(Pieces) PROVE Pieces[i - 1 + 1].partOffset = 0
    <3>1. i <= Len(Pieces) /\ i - 1 + 1 = i /\ i \in 1..Len(Pieces)
      BY <1>2, <1>6, <2>1
    <3>2. CASE size = 0
      BY <1>6, <2>1, <3>2 DEF Cut
    <3>3. CASE size # 0
      BY <1>2, <1>5, <1>6, <3>1, <3>3 DEF Runs
    <3>. QED
      BY <3>2, <3>3
  <2>2. i - 1 \in 0..Len(Pieces)
    BY <1>2, <1>6
  <2>. QED
    BY <2>1, <2>2 DEF Cut
<1>9. \E at \in Starts(args', Pieces) :
         Counted(args', Pieces, at) /\ at[Len(args') + 1] = i - 1
  <2>1. PICK at \in Starts(args, Pieces) :
          Counted(args, Pieces, at) /\ at[Len(args) + 1] = i - 1 - size
    BY <1>1 DEF ParseInv
  <2>2. at[Len(args) + 1] + size = i - 1 /\ at[Len(args) + 1] + 2 = i - size + 1
    BY <1>7, <2>1
  <2>3. \A k \in (at[Len(args) + 1] + 2)..(i - 1) : Pieces[k].partOffset # 0
    BY <1>6, <2>2
  <2>4. \E at2 \in Starts(Append(args, size), Pieces) :
          /\ Counted(Append(args, size), Pieces, at2)
          /\ at2[Len(Append(args, size)) + 1] = i - 1
    <3>1. i - 1 = at[Len(args) + 1] + size
      BY <2>2
    <3>2. size \in Nat /\ args \in Seq(Nat) /\ Pieces \in Seq(Piece)
      BY <1>2, <1>7
    <3>. QED
      <4>1. PICK c \in Seq(Nat), p \in Seq(Piece) : c = args /\ p = Pieces
        BY <3>2
      <4>2. /\ at \in Starts(c, p) /\ Counted(c, p, at) /\ Cut(p, at[Len(c) + 1] + size)
            /\ \A k \in (at[Len(c) + 1] + 2)..(at[Len(c) + 1] + size) : p[k].partOffset # 0
        BY <1>8, <2>1, <2>3, <3>1, <4>1
      <4>3. \E at2 \in Starts(Append(c, size), p) :
              /\ Counted(Append(c, size), p, at2)
              /\ at2[Len(Append(c, size)) + 1] = at[Len(c) + 1] + size
        BY <3>2, <4>2, CountedMore
      <4>. QED
        BY <3>1, <4>1, <4>3
  <2>. QED
    BY <1>3, <2>4
<1>10. /\ side' = "call" /\ args' \in Seq(Nat) /\ pc' = "parse" /\ Fresh' /\ MachineFresh'
       /\ called' = [locs |-> << >>, bytes |-> 0]
  BY <1>1, <1>3, <1>4, <1>7 DEF ParseInv, Fresh, MachineFresh, RegsOK, Bytes, analysis, machine
<1>11. /\ i' = i /\ i' \in 1..(Len(Pieces) + 1) /\ size' \in 0..(i' - 1) /\ i' - 1 - size' = i - 1
       /\ (i' - size' + 1)..(i' - 1) = {}
  BY <1>3, <1>6
<1>12. ParseInv'
  BY <1>3, <1>4, <1>8, <1>9, <1>10, <1>11 DEF ParseInv
<1>13. FunctionOK'
  BY <1>1, <1>3, <1>10 DEF FunctionOK, function
<1>. QED
  BY <1>2, <1>3, <1>4, <1>10, <1>11, <1>12, <1>13 DEF CallInv

LEMMA EndParseStep ==
  ASSUME CallInv, EndParse
  PROVE  CallInv'
<1>1. FunctionOK /\ pc = "parse" /\ ParseInv /\ called = [locs |-> << >>, bytes |-> 0]
  BY DEF CallInv, EndParse
<1>2. Pieces \in Seq(Piece) /\ Runs(Pieces) /\ Len(Pieces) \in Nat
  BY <1>1, PiecesFacts
<1>3. /\ pc' = "assign" /\ i > Len(Pieces) /\ size = 0
      /\ UNCHANGED <<function, side, args, parsing, analysis, called, machine>>
  BY DEF EndParse
<1>4. Pieces' = Pieces
  BY <1>3, SameFunction
<1>5. side = "call" /\ Fresh /\ MachineFresh /\ i - 1 - size = Len(Pieces) /\ args \in Seq(Nat)
  <2>1. side = "call" /\ Fresh /\ MachineFresh /\ i \in 1..(Len(Pieces) + 1)
    BY <1>1 DEF ParseInv
  <2>2. i - 1 - size = Len(Pieces)
    BY <1>2, <1>3, <2>1
  <2>. QED
    BY <1>1, <2>1, <2>2 DEF FunctionOK
<1>6. \E at \in Starts(args, Pieces) :
        Counted(args, Pieces, at) /\ at[Len(args) + 1] = Len(Pieces)
  BY <1>1, <1>5 DEF ParseInv
<1>7. Assigned(Pieces, args, 1, 0, 3, FALSE, {}, 0, << >>)
  BY <1>2, <1>5, <1>6, NothingAssigned
<1>8. AssignInv
  BY <1>5, <1>7 DEF AssignInv, Fresh
<1>9. AssignInv'
  BY <1>3, <1>4, <1>8 DEF AssignInv, analysis
<1>10. FunctionOK'
  BY <1>1, <1>3 DEF FunctionOK, function
<1>11. /\ side' = "call" /\ MachineFresh' /\ called' = [locs |-> << >>, bytes |-> 0]
       /\ i' = i /\ size' = size /\ offset' = offset
  BY <1>1, <1>3, <1>4, <1>5 DEF MachineFresh, RegsOK, Bytes, machine, parsing
<1>. QED
  BY <1>3, <1>4, <1>9, <1>10, <1>11 DEF CallInv

\* A step of analyzeStandardArguments, whichever side it is run for.
LEMMA AssigningStep ==
  ASSUME CallInv, pc = "assign", UNCHANGED <<function, side, pc, args, parsing, called, machine>>,
         args \in Seq(Nat) /\ AssignInv => AssignInv'
  PROVE  CallInv'
<1>1. /\ FunctionOK /\ side \in {"call", "entry"} /\ MachineFresh
      /\ i \in 0..(Len(Pieces) + 1) /\ size \in Nat /\ offset \in Nat
      /\ side = "call" => AssignInv /\ called = [locs |-> << >>, bytes |-> 0]
      /\ side = "entry" => CalledInv /\ (ScalarArguments => AssignInv)
  BY DEF CallInv
<1>2. Pieces' = Pieces
  BY SameFunction
<1>3. (side = "call" \/ ScalarArguments) => args \in Seq(Nat)
  BY <1>1 DEF FunctionOK
<1>4. /\ side = "call" => AssignInv'
      /\ side = "entry" => (ScalarArguments => AssignInv')
  BY <1>1, <1>3
<1>5. FunctionOK' /\ MachineFresh'
  BY <1>1, <1>2 DEF FunctionOK, MachineFresh, RegsOK, Bytes, function, machine
<1>6. i' = i /\ size' = size /\ offset' = offset /\ side' = side /\ pc' = "assign" /\ called' = called
  BY DEF parsing
<1>7. CalledInv => CalledInv'
  BY <1>2, <1>6 DEF CalledInv
<1>. QED
  BY <1>1, <1>2, <1>4, <1>5, <1>6, <1>7 DEF CallInv

LEMMA SkipEmptyStep ==
  ASSUME CallInv, SkipEmpty
  PROVE  CallInv'
<1>1. /\ pc = "assign" /\ arg <= Len(args) /\ args[arg] = 0 /\ arg' = arg + 1
      /\ UNCHANGED <<function, side, pc, args, parsing, called, machine>>
      /\ UNCHANGED <<pos, regsLeft, usesStack, allocated, stackOffset, locs>>
  BY DEF SkipEmpty, Assigning, Size
<1>2. Pieces \in Seq(Piece) /\ Runs(Pieces)
  BY PiecesFacts DEF CallInv
<1>3. Pieces' = Pieces
  BY <1>1, SameFunction
<1>4. ASSUME args \in Seq(Nat), AssignInv PROVE AssignInv'
  <2>1. Assigned(Pieces, args, arg + 1, pos, regsLeft, usesStack, allocated, stackOffset, locs)
    BY <1>1, <1>2, <1>4, NoMoreAssigned DEF AssignInv
  <2>. QED
    BY <1>1, <1>3, <2>1 DEF AssignInv
<1>. QED
  BY <1>1, <1>4, AssigningStep

LEMMA AssignRegistersStep ==
  ASSUME CallInv, AssignRegisters
  PROVE  CallInv'
<1>1. /\ pc = "assign" /\ arg <= Len(args) /\ args[arg] # 0 /\ ~usesStack /\ args[arg] <= regsLeft
      /\ arg' = arg + 1 /\ pos' = pos + args[arg] /\ regsLeft' = regsLeft - args[arg]
      /\ UNCHANGED <<function, side, pc, args, parsing, called, machine>>
      /\ UNCHANGED <<usesStack, stackOffset>>
  BY DEF AssignRegisters, Assigning, Size, NextArgument
<1>2. PICK given : given = AllocateRegs(args[arg])
  OBVIOUS
<1>3. /\ locs' = locs \o RegisterGroup(given, args[arg], Pieces[pos + 1].bytes)
      /\ allocated' = allocated \cup {given[j] : j \in 1..args[arg]}
  BY <1>2 DEF AssignRegisters, Size, LocBytes, RegisterGroup
<1>4. Pieces \in Seq(Piece) /\ Runs(Pieces)
  BY PiecesFacts DEF CallInv
<1>5. Pieces' = Pieces
  BY <1>1, SameFunction
<1>6. ASSUME args \in Seq(Nat), AssignInv PROVE AssignInv'
  <2>1. Assigned(Pieces, args, arg, pos, regsLeft, usesStack, allocated, stackOffset, locs)
    BY <1>6 DEF AssignInv
  <2>2. /\ pos \in Nat /\ args[arg] \in Nat /\ Group(Pieces, pos, pos + args[arg])
    BY <1>1, <1>4, <1>6, <2>1, AssignedNext
  <2>3. /\ usesStack \in BOOLEAN /\ (usesStack <=> pos > InRegs(Pieces))
        /\ regsLeft = 3 - Used(Pieces, pos)
        /\ allocated = FirstRegisters(Used(Pieces, pos))
    BY <2>1 DEF Assigned
  <2>4. pos + args[arg] <= 3 /\ Used(Pieces, pos) = pos
    BY <1>1, <1>4, <2>2, <2>3, CountersInRegisters
  <2>5. /\ \A j \in 1..args[arg] : given[j] = RegList[pos + j]
        /\ allocated' = FirstRegisters(pos + args[arg])
    <3>1. pos \in 0..3 /\ allocated = {RegList[k] : k \in 1..pos}
      BY <2>2, <2>3, <2>4 DEF FirstRegisters
    <3>. QED
      <4>1. PICK u \in 0..3, n \in Nat : u = pos /\ n = args[arg]
        BY <2>2, <3>1
      <4>2. u + n <= 3 /\ allocated = {RegList[k] : k \in 1..u}
        BY <2>4, <3>1, <4>1
      <4>3. /\ \A j \in 1..n : AllocateRegs(n)[j] = RegList[u + j]
            /\ allocated \cup {AllocateRegs(n)[j] : j \in 1..n} = {RegList[k] : k \in 1..(u + n)}
        BY <4>2, NextRegisters
      <4>. QED
        BY <1>2, <1>3, <4>1, <4>3 DEF FirstRegisters
  <2>6. Assigned(Pieces, args, arg, pos, regsLeft, FALSE, allocated, stackOffset, locs)
    BY <1>1, <2>1, <2>3
  <2>7. Assigned(Pieces, args, arg + 1, pos + args[arg], regsLeft - args[arg], FALSE,
                 FirstRegisters(pos + args[arg]), stackOffset,
                 locs \o RegisterGroup(given, args[arg], Pieces[pos + 1].bytes))
    BY <1>1, <1>4, <1>6, <2>5, <2>6, MoreInRegisters
  <2>. QED
    BY <1>1, <1>3, <1>5, <2>3, <2>5, <2>7 DEF AssignInv
<1>. QED
  BY <1>1, <1>6, AssigningStep

LEMMA AssignStackStep ==
  ASSUME WordsOnStack, CallInv, AssignStack
  PROVE  CallInv'
<1>1. /\ pc = "assign" /\ arg <= Len(args) /\ args[arg] # 0 /\ (usesStack \/ args[arg] > regsLeft)
      /\ arg' = arg + 1 /\ pos' = pos + args[arg] /\ usesStack' = TRUE
      /\ UNCHANGED <<function, side, pc, args, parsing, called, machine>>
      /\ UNCHANGED <<regsLeft, allocated>>
  BY DEF AssignStack, Assigning, Size, NextArgument
<1>2. /\ locs' = locs \o MemoryGroup(stackOffset, args[arg], Pieces[pos + 1].bytes)
      /\ stackOffset' = stackOffset + args[arg] * Pieces[pos + 1].bytes
  BY DEF AssignStack, Size, LocBytes, MemoryGroup
<1>3. Pieces \in Seq(Piece) /\ Runs(Pieces) /\ \A k \in 4..Len(Pieces) : Pieces[k].bytes = 2
  BY PiecesFacts DEF CallInv
<1>4. Pieces' = Pieces
  BY <1>1, SameFunction
<1>5. ASSUME args \in Seq(Nat), AssignInv PROVE AssignInv'
  <2>1. Assigned(Pieces, args, arg, pos, regsLeft, usesStack, allocated, stackOffset, locs)
    BY <1>5 DEF AssignInv
  <2>2. usesStack = TRUE \/ args[arg] > regsLeft
    BY <1>1, <2>1 DEF Assigned
  <2>3. Assigned(Pieces, args, arg + 1, pos + args[arg], regsLeft, TRUE, allocated,
                 stackOffset + args[arg] * Pieces[pos + 1].bytes,
                 locs \o MemoryGroup(stackOffset, args[arg], Pieces[pos + 1].bytes))
    BY <1>1, <1>3, <1>5, <2>1, <2>2, MoreOnStack
  <2>. QED
    BY <1>1, <1>2, <1>4, <2>3 DEF AssignInv
<1>. QED
  BY <1>1, <1>5, AssigningStep

LEMMA CallAnalyzedStep ==
  ASSUME CallInv, CallAnalyzed
  PROVE  CallInv'
<1>1. /\ pc = "assign" /\ arg > Len(args) /\ side = "call"
      /\ called' = [locs |-> locs, bytes |-> stackOffset]
      /\ side' = "entry" /\ args' = FunctionArgs
      /\ UNCHANGED <<function, pc, parsing, machine>>
      /\ arg' = 1 /\ pos' = 0 /\ regsLeft' = 3 /\ usesStack' = FALSE
      /\ allocated' = {} /\ stackOffset' = 0 /\ locs' = << >>
  BY DEF CallAnalyzed, NewAnalysis
<1>2. /\ FunctionOK /\ MachineFresh /\ AssignInv
      /\ i \in 0..(Len(Pieces) + 1) /\ size \in Nat /\ offset \in Nat
  BY <1>1 DEF CallInv
<1>3. Pieces \in Seq(Piece) /\ Runs(Pieces) /\ args \in Seq(Nat)
  BY <1>1, <1>2, PiecesFacts DEF FunctionOK
<1>4. Pieces' = Pieces
  BY <1>1, SameFunction
<1>5. /\ locs \in Seq(Location) /\ Len(locs) = Len(Pieces) /\ Placed(locs, Pieces)
      /\ stackOffset = 2 * (Len(Pieces) - InRegs(Pieces))
  <2>1. Assigned(Pieces, args, arg, pos, regsLeft, usesStack, allocated, stackOffset, locs)
    BY <1>2 DEF AssignInv
  <2>. QED
    BY <1>1, <1>3, <2>1, AssignedAll
<1>6. CalledInv'
  BY <1>1, <1>4, <1>5 DEF CalledInv
<1>7. ASSUME ScalarArguments PROVE args' \in Seq(Nat) /\ AssignInv'
  <2>1. /\ FunctionArgs \in Seq(Nat)
        /\ \E at \in Starts(FunctionArgs, Pieces) :
             Counted(FunctionArgs, Pieces, at) /\ at[Len(FunctionArgs) + 1] = Len(Pieces)
    BY <1>2, <1>7, ScalarsAreCounted DEF FunctionOK
  <2>2. Assigned(Pieces, FunctionArgs, 1, 0, 3, FALSE, {}, 0, << >>)
    BY <1>3, <2>1, NothingAssigned
  <2>. QED
    BY <1>1, <1>4, <2>1, <2>2 DEF AssignInv
<1>8. FunctionOK'
  BY <1>1, <1>2, <1>7 DEF FunctionOK, function
<1>9. MachineFresh' /\ i' = i /\ size' = size /\ offset' = offset /\ pc' = "assign"
  BY <1>1, <1>2, <1>4 DEF MachineFresh, RegsOK, Bytes, machine, parsing
<1>. QED
  BY <1>1, <1>2, <1>4, <1>6, <1>7, <1>8, <1>9 DEF CallInv
----------------------------------------------------------------------------
(***************************************************************************)
(* The call.                                                               *)
(***************************************************************************)
\* The analyses are over: only pc, i and the machine change.
LEMMA RunningStep ==
  ASSUME CallInv, pc \notin {"parse", "assign"},
         UNCHANGED <<function, side, args, size, offset, analysis, called>>,
         pc' \in {"store", "call", "save", "body", "restore", "return", "adjust", "done", "astray"},
         i' \in 0..(Len(Pieces) + 1), RunInv'
  PROVE  CallInv'
<1>1. /\ FunctionOK /\ side = "run" /\ CalledInv
      /\ ScalarArguments => AssignInv /\ arg > Len(args)
      /\ size \in Nat /\ offset \in Nat
  BY DEF CallInv
<1>2. Pieces' = Pieces
  BY SameFunction
<1>3. FunctionOK' /\ CalledInv' /\ side' = side /\ size' = size /\ offset' = offset
  BY <1>1, <1>2 DEF FunctionOK, CalledInv, function
<1>4. ScalarArguments => AssignInv' /\ arg' > Len(args')
  BY <1>1, <1>2 DEF AssignInv, analysis
<1>. QED
  BY <1>1, <1>2, <1>3, <1>4 DEF CallInv

\* What holds while the code runs.
LEMMA RunFacts ==
  ASSUME CallInv, pc \notin {"parse", "assign"}
  PROVE  /\ FunctionOK /\ RunInv
         /\ Pieces \in Seq(Piece) /\ Runs(Pieces) /\ Len(Pieces) \in Nat
         /\ InRegs(Pieces) \in 0..3 /\ InRegs(Pieces) <= Len(Pieces)
         /\ StackIsLarge => 2 * Len(Pieces) + 5 <= StackTop
         /\ called.locs \in Seq(Location) /\ Len(called.locs) = Len(Pieces)
         /\ Placed(called.locs, Pieces)
         /\ called.bytes = 2 * (Len(Pieces) - InRegs(Pieces))
<1>1. FunctionOK /\ RunInv /\ CalledInv
  BY DEF CallInv
<1>2. /\ Pieces \in Seq(Piece) /\ Runs(Pieces) /\ Len(Pieces) \in Nat
      /\ InRegs(Pieces) \in 0..3 /\ InRegs(Pieces) <= Len(Pieces)
      /\ StackIsLarge => 2 * Len(Pieces) + 5 <= StackTop
  BY <1>1, PiecesFacts
<1>. QED
  BY <1>1, <1>2 DEF CalledInv

LEMMA CalledKinds ==
  ASSUME CallInv, pc \notin {"parse", "assign"}, NEW k \in 1..Len(Pieces)
  PROVE  /\ InMem(k) <=> k > InRegs(Pieces)
         /\ k > InRegs(Pieces) =>
              called.locs[k].bytes = 2 /\ called.locs[k].offset = 2 * (k - 1 - InRegs(Pieces))
<1>1. /\ k <= InRegs(Pieces) => called.locs[k].kind = "reg"
      /\ k > InRegs(Pieces) => called.locs[k] = InMemory(2 * (k - 1 - InRegs(Pieces)), 2)
  BY RunFacts, PlacedKind
<1>2. k \in Nat /\ InRegs(Pieces) \in Nat
  BY RunFacts
<1>. QED
  BY <1>1, <1>2 DEF InMem, InMemory

\* The value of each register at the call.
LEMMA AtCallFacts ==
  ASSUME CallInv, pc \notin {"parse", "assign"}, NEW r
  PROVE  /\ AtCall(r) \in 0..Len(Pieces)
         /\ \A k \in 1..InRegs(Pieces) : called.locs[k].reg = r => AtCall(r) = k
         /\ (\A k \in 1..InRegs(Pieces) : called.locs[k].reg # r) => AtCall(r) = CallersValue
<1> DEFINE Holder(k) == k \in 1..Len(called.locs) /\ ~InMem(k) /\ called.locs[k].reg = r
<1>1. \A k : Holder(k) <=> k \in 1..InRegs(Pieces) /\ called.locs[k].reg = r
  <2>1. Len(called.locs) = Len(Pieces) /\ Len(Pieces) \in Nat
        /\ InRegs(Pieces) \in 0..3 /\ InRegs(Pieces) <= Len(Pieces)
    BY RunFacts
  <2>2. \A k \in 1..Len(Pieces) : InMem(k) <=> k > InRegs(Pieces)
    BY CalledKinds
  <2>. QED
    BY <2>1, <2>2
<1>2. \A j, k : Holder(j) /\ Holder(k) => j = k
  <2>1. ASSUME NEW j, NEW k, Holder(j), Holder(k) PROVE j = k
    <3>1. j \in 1..Len(called.locs) /\ k \in 1..Len(called.locs)
          /\ j <= InRegs(Pieces) /\ k <= InRegs(Pieces)
          /\ called.locs[j].reg = called.locs[k].reg
      BY <1>1, <2>1
    <3>. QED
      BY <3>1, RunFacts, PlacedApart
  <2>. QED
    BY <2>1
<1>3. AtCall(r) = IF \E k \in 1..Len(called.locs) : Holder(k)
                    THEN CHOOSE k \in 1..Len(called.locs) : Holder(k) ELSE CallersValue
  BY DEF AtCall
<1>4. CallersValue = 0 /\ Len(called.locs) = Len(Pieces) /\ Len(Pieces) \in Nat
  BY RunFacts DEF CallersValue
<1>5. \A k : Holder(k) => k \in 1..Len(called.locs)
  OBVIOUS
<1> HIDE DEF Holder
<1>6. \A k : Holder(k) => AtCall(r) = k
  BY <1>2, <1>3, <1>5
<1>7. (\A k : ~Holder(k)) => AtCall(r) = CallersValue
  BY <1>3
<1>8. AtCall(r) \in 0..Len(Pieces)
  BY <1>4, <1>5, <1>6, <1>7
<1>. QED
  BY <1>1, <1>6, <1>7, <1>8

\* Pushing keeps what is above.
LEMMA PushKeeps ==
  ASSUME NEW w, DOMAIN stack = 1..StackTop, SP \in Nat, SP - 1 \in 1..StackTop, SP \in 1..StackTop,
         Push(w)
  PROVE  /\ DOMAIN stack' = 1..StackTop /\ SP' = SP - 2
         /\ stack'[SP] = w.hi /\ stack'[SP - 1] = w.lo
         /\ \A at \in 1..StackTop : at > SP => stack'[at] = stack[at]
BY DEF Push

LEMMA EntryAnalyzedStep ==
  ASSUME StackIsLarge, CallInv, EntryAnalyzed
  PROVE  CallInv'
<1>1. /\ pc = "assign" /\ arg > Len(args) /\ side = "entry"
      /\ side' = "run" /\ pc' \in {"store", "assert"} /\ i' = Len(called.locs)
      /\ UNCHANGED <<function, args, size, offset, analysis, called, machine>>
  BY DEF EntryAnalyzed
<1>2. /\ FunctionOK /\ MachineFresh /\ CalledInv /\ (ScalarArguments => AssignInv)
      /\ size \in Nat /\ offset \in Nat
  BY <1>1 DEF CallInv
<1>3. /\ Len(Pieces) \in Nat /\ InRegs(Pieces) \in 0..3 /\ InRegs(Pieces) <= Len(Pieces)
  BY <1>2, PiecesFacts
<1>4. Pieces' = Pieces
  BY <1>1, SameFunction
<1>5. /\ FunctionOK' /\ CalledInv' /\ (ScalarArguments => AssignInv' /\ arg' > Len(args'))
      /\ size' = size /\ offset' = offset
  BY <1>1, <1>2, <1>4 DEF FunctionOK, CalledInv, AssignInv, function, analysis
<1>6. i' = Len(Pieces)
  BY <1>1, <1>2 DEF CalledInv
<1>7. regs' = regs /\ SP' = SP /\ stack' = stack
  BY <1>1 DEF machine
<1>8. RunInv'
  <2>1. SP = StackTop - 2 * (Len(Pieces) - Len(Pieces))
    <3>1. SP = StackTop /\ StackTop \in Nat
      BY <1>2, CallAssumption DEF MachineFresh
    <3>. QED
      BY <1>3, <3>1
  <2>2. (StoredAfter(i))'
    BY <1>3, <1>4, <1>6 DEF StoredAfter
  <2>3. /\ RegsOK' /\ DOMAIN stack' = 1..StackTop /\ SP' = StackTop
        /\ \A r \in {"A", "X", "Y"} : regs'[r] = Word(CallersValue)
    BY <1>2, <1>4, <1>7 DEF MachineFresh, RegsOK, Bytes
  <2>4. i' \in InRegs(Pieces)..Len(Pieces)
    BY <1>3, <1>6
  <2>. QED
    BY <1>1, <1>4, <1>6, <1>7, <2>1, <2>2, <2>3, <2>4 DEF RunInv
<1>. QED
  BY <1>1, <1>2, <1>3, <1>4, <1>5, <1>6, <1>8 DEF CallInv

LEMMA PushArgumentStep ==
  ASSUME StackIsLarge, CallInv, PushArgument
  PROVE  CallInv'
<1>1. /\ pc = "store" /\ i > 0 /\ InMem(i) /\ i' = i - 1
      /\ Push(Source(i))
      /\ UNCHANGED <<function, side, pc, args, size, offset, analysis, called, regs>>
  BY DEF PushArgument
<1>2. /\ RunInv /\ Len(Pieces) \in Nat /\ InRegs(Pieces) \in 0..3 /\ InRegs(Pieces) <= Len(Pieces)
      /\ 2 * Len(Pieces) + 5 <= StackTop /\ StackTop \in Nat
  BY <1>1, RunFacts, CallAssumption
<1>3. /\ RegsOK /\ DOMAIN stack = 1..StackTop
      /\ i \in InRegs(Pieces)..Len(Pieces) /\ SP = StackTop - 2 * (Len(Pieces) - i)
      /\ StoredAfter(i) /\ \A r \in {"A", "X", "Y"} : regs[r] = Word(CallersValue)
  BY <1>1, <1>2 DEF RunInv
<1>4. Pieces' = Pieces
  BY <1>1, SameFunction
<1>5. i \in 1..Len(Pieces)
  BY <1>1, <1>2, <1>3
<1>6. i > InRegs(Pieces) /\ Source(i).lo = <<i, "lo">> /\ Source(i).hi = <<i, "hi">>
  BY <1>1, <1>5, CalledKinds DEF Source, Word
<1>7. /\ SP \in Nat /\ SP \in 1..StackTop /\ SP - 1 \in 1..StackTop
  BY <1>2, <1>3, <1>5
<1>8. /\ DOMAIN stack' = 1..StackTop /\ SP' = SP - 2
      /\ stack'[SP] = <<i, "hi">> /\ stack'[SP - 1] = <<i, "lo">>
      /\ \A at \in 1..StackTop : at > SP => stack'[at] = stack[at]
  BY <1>1, <1>3, <1>6, <1>7, PushKeeps
<1>9. SP' = StackTop - 2 * (Len(Pieces) - (i - 1)) /\ i - 1 \in InRegs(Pieces)..Len(Pieces)
  <2>1. PICK n \in Nat, f \in 0..3, m \in Nat :
          n = Len(Pieces) /\ f = InRegs(Pieces) /\ m = i /\ f < m /\ m <= n
    BY <1>2, <1>5, <1>6
  <2>2. SP = StackTop - 2 * (n - m) /\ SP' = SP - 2
    BY <1>3, <1>8, <2>1
  <2>3. SP' = StackTop - 2 * (n - (m - 1)) /\ m - 1 \in f..n
    BY <1>2, <2>1, <2>2
  <2>. QED
    BY <2>1, <2>3
<1>10. ASSUME NEW j \in (i - 1 + 1)..Len(Pieces)
       PROVE  /\ stack'[StackTop - 2 * (Len(Pieces) - j) - 1] = <<j, "lo">>
              /\ stack'[StackTop - 2 * (Len(Pieces) - j)] = <<j, "hi">>
  <2>1. CASE j = i
    BY <1>3, <1>8, <2>1
  <2>2. CASE j # i
    <3>1. j \in (i + 1)..Len(Pieces)
      BY <1>5, <2>2
    <3>2. PICK x \in Int : x = StackTop - 2 * (Len(Pieces) - j)
      <4>1. StackTop - 2 * (Len(Pieces) - j) \in Int
        BY <1>2, <1>5, <3>1
      <4>. QED
        BY <4>1
    <3>3. x \in 1..StackTop /\ x - 1 \in 1..StackTop /\ x > SP /\ x - 1 > SP
      BY <1>2, <1>3, <1>5, <3>1, <3>2
    <3>4. stack[x - 1] = <<j, "lo">> /\ stack[x] = <<j, "hi">>
      BY <1>3, <3>1, <3>2 DEF StoredAfter
    <3>. QED
      BY <1>8, <3>2, <3>3, <3>4
  <2>. QED
    BY <2>1, <2>2
<1>11. StoredAfter(i)'
  BY <1>1, <1>4, <1>10 DEF StoredAfter
<1>12. RunInv'
  BY <1>1, <1>3, <1>4, <1>8, <1>9, <1>11 DEF RunInv, RegsOK, Bytes
<1>13. i' \in 0..(Len(Pieces) + 1)
  BY <1>1, <1>2, <1>5
<1>. QED
  BY <1>1, <1>12, <1>13, RunningStep

LEMMA CopyToRegistersStep ==
  ASSUME CallInv, CopyToRegisters
  PROVE  CallInv'
<1>1. /\ pc = "store" /\ pc' = "call" /\ (i > 0 => ~InMem(i))
      /\ regs' = [r \in DOMAIN regs |->
                    IF \E k \in 1..i : called.locs[k].reg = r
                      THEN Word(CHOOSE k \in 1..i : called.locs[k].reg = r) ELSE regs[r]]
      /\ UNCHANGED <<function, side, args, parsing, analysis, called, SP, stack>>
  BY DEF CopyToRegisters
<1>2. /\ RunInv /\ Len(Pieces) \in Nat /\ InRegs(Pieces) \in 0..3 /\ InRegs(Pieces) <= Len(Pieces)
  BY <1>1, RunFacts
<1>3. /\ DOMAIN regs = {"A", "X", "Y"} /\ DOMAIN stack = 1..StackTop
      /\ i \in InRegs(Pieces)..Len(Pieces) /\ SP = StackTop - 2 * (Len(Pieces) - i)
      /\ StoredAfter(i) /\ \A r \in {"A", "X", "Y"} : regs[r] = Word(CallersValue)
  BY <1>1, <1>2 DEF RunInv, RegsOK
<1>4. Pieces' = Pieces
  BY <1>1, SameFunction
<1>5. i = InRegs(Pieces)
  <2>1. ASSUME i > InRegs(Pieces) PROVE FALSE
    <3>1. i \in 1..Len(Pieces) /\ i > 0
      BY <1>2, <1>3, <2>1
    <3>. QED
      BY <1>1, <2>1, <3>1, CalledKinds
  <2>. QED
    BY <1>2, <1>3, <2>1
<1>6. ASSUME NEW r \in {"A", "X", "Y"} PROVE regs'[r] = Word(AtCall(r))
  <2>1. regs'[r] = IF \E k \in 1..i : called.locs[k].reg = r
                     THEN Word(CHOOSE k \in 1..i : called.locs[k].reg = r)
                     ELSE Word(CallersValue)
    BY <1>1, <1>3 DEF RegsOK
  <2>2. CASE \E k \in 1..i : called.locs[k].reg = r
    <3>1. PICK k \in 1..i : regs'[r] = Word(k) /\ called.locs[k].reg = r
      BY <2>1, <2>2
    <3>. QED
      BY <1>1, <1>5, <3>1, AtCallFacts
  <2>3. CASE ~\E k \in 1..i : called.locs[k].reg = r
    BY <1>1, <1>5, <2>1, <2>3, AtCallFacts
  <2>. QED
    BY <2>2, <2>3
<1>7. RegsOK'
  <2>1. DOMAIN regs' = {"A", "X", "Y"} /\ regs' = [r \in {"A", "X", "Y"} |-> regs'[r]]
    BY <1>1, <1>3 DEF RegsOK
  <2>2. ASSUME NEW r \in {"A", "X", "Y"} PROVE regs'[r] \in [lo : Bytes, hi : Bytes]
    <3>1. AtCall(r) \in StackAddress..Len(Pieces)
      BY <1>1, <1>2, AtCallFacts DEF StackAddress
    <3>. QED
      BY <1>6, <3>1, WordIsRegister
  <2>. QED
    BY <1>4, <2>1, <2>2 DEF RegsOK, Bytes
<1>8. stack' = stack /\ SP' = SP /\ called' = called
  BY <1>1
<1>9. /\ SP' = ArgumentsTop' /\ StoredAfter(InRegs(Pieces))' /\ RegistersPassed'
  <2>1. RegistersPassed'
    BY <1>6, <1>8 DEF RegistersPassed, AtCall, InMem
  <2>2. SP' = ArgumentsTop'
    BY <1>3, <1>4, <1>5, <1>8 DEF ArgumentsTop
  <2>3. StoredAfter(InRegs(Pieces))'
    BY <1>3, <1>4, <1>5, <1>8 DEF StoredAfter
  <2>. QED
    BY <2>1, <2>2, <2>3
<1>10. RunInv'
  BY <1>1, <1>3, <1>4, <1>7, <1>8, <1>9 DEF RunInv
<1>11. i' \in 0..(Len(Pieces) + 1) /\ UNCHANGED <<size, offset>>
  BY <1>1, <1>2, <1>5 DEF parsing
<1>. QED
  BY <1>1, <1>10, <1>11, RunningStep

\* What is pushed below the arguments leaves them where they are.
LEMMA PushBelow ==
  ASSUME NEW w, Len(Pieces) \in Nat, InRegs(Pieces) \in 0..3, InRegs(Pieces) <= Len(Pieces),
         2 * Len(Pieces) + 5 <= StackTop, StackTop \in Nat, Pieces' = Pieces,
         DOMAIN stack = 1..StackTop, SP \in {ArgumentsTop, ArgumentsTop - 2},
         StoredAfter(InRegs(Pieces)), Push(w)
  PROVE  /\ DOMAIN stack' = 1..StackTop /\ SP' = SP - 2
         /\ stack'[SP' + 1] = w.lo /\ stack'[SP' + 2] = w.hi
         /\ StoredAfter(InRegs(Pieces))'
<1>1. SP \in Nat /\ SP - 1 \in 1..StackTop /\ SP \in 1..StackTop
  BY DEF ArgumentsTop
<1>2. /\ DOMAIN stack' = 1..StackTop /\ SP' = SP - 2
      /\ stack'[SP - 1] = w.lo /\ stack'[SP] = w.hi
      /\ \A at \in 1..StackTop : at > SP => stack'[at] = stack[at]
  BY <1>1, PushKeeps
<1>3. ASSUME NEW j \in (InRegs(Pieces) + 1)..Len(Pieces)
      PROVE  /\ stack'[StackTop - 2 * (Len(Pieces) - j) - 1] = <<j, "lo">>
             /\ stack'[StackTop - 2 * (Len(Pieces) - j)] = <<j, "hi">>
  <2>1. PICK x \in Int : x = StackTop - 2 * (Len(Pieces) - j)
    <3>1. StackTop - 2 * (Len(Pieces) - j) \in Int
      OBVIOUS
    <3>. QED
      BY <3>1
  <2>2. x \in 1..StackTop /\ x - 1 \in 1..StackTop /\ x > SP /\ x - 1 > SP
    BY <2>1, SMTT(30) DEF ArgumentsTop
  <2>3. stack[x - 1] = <<j, "lo">> /\ stack[x] = <<j, "hi">>
    BY <2>1 DEF StoredAfter
  <2>. QED
    BY <1>2, <2>1, <2>2, <2>3
<1>4. SP' + 1 = SP - 1 /\ SP' + 2 = SP
  BY <1>1, <1>2
<1>. QED
  BY <1>2, <1>3, <1>4 DEF StoredAfter

LEMMA CallStep ==
  ASSUME StackIsLarge, CallInv, Call
  PROVE  CallInv'
<1>1. /\ pc = "call" /\ pc' = "save" /\ Push(Word(ReturnAddress))
      /\ UNCHANGED <<function, side, args, parsing, analysis, called, regs>>
  BY DEF Call
<1>2. /\ RunInv /\ Len(Pieces) \in Nat /\ InRegs(Pieces) \in 0..3 /\ InRegs(Pieces) <= Len(Pieces)
      /\ 2 * Len(Pieces) + 5 <= StackTop /\ StackTop \in Nat
  BY <1>1, RunFacts, CallAssumption
<1>3. /\ RegsOK /\ DOMAIN stack = 1..StackTop
      /\ SP = ArgumentsTop /\ StoredAfter(InRegs(Pieces)) /\ RegistersPassed
  BY <1>1, <1>2 DEF RunInv
<1>4. Pieces' = Pieces
  BY <1>1, SameFunction
<1>5. /\ DOMAIN stack' = 1..StackTop /\ SP' = SP - 2 /\ StoredAfter(InRegs(Pieces))'
      /\ stack'[SP' + 1] = Word(ReturnAddress).lo /\ stack'[SP' + 2] = Word(ReturnAddress).hi
  BY <1>1, <1>2, <1>3, <1>4, PushBelow
<1>6. RegistersPassed' /\ ArgumentsTop' = ArgumentsTop /\ RegsOK'
  <2>1. RegistersPassed'
    BY <1>1, <1>3 DEF RegistersPassed, AtCall, InMem
  <2>2. RegsOK'
    BY <1>1, <1>3, <1>4 DEF RegsOK, Bytes
  <2>. QED
    BY <1>4, <2>1, <2>2 DEF ArgumentsTop
<1>7. RunInv'
  BY <1>1, <1>3, <1>4, <1>5, <1>6 DEF RunInv, OnTop
<1>8. i' \in 0..(Len(Pieces) + 1) /\ UNCHANGED <<size, offset>>
  BY <1>1 DEF CallInv, parsing
<1>. QED
  BY <1>1, <1>7, <1>8, RunningStep

LEMMA SaveStep ==
  ASSUME StackIsLarge, CallInv, Save
  PROVE  CallInv'
<1>1. /\ pc = "save" /\ pc' = "body"
      /\ IF savesA THEN Push(regs["A"]) ELSE UNCHANGED <<SP, stack>>
      /\ UNCHANGED <<function, side, args, parsing, analysis, called, regs>>
  BY DEF Save
<1>2. /\ RunInv /\ Len(Pieces) \in Nat /\ InRegs(Pieces) \in 0..3 /\ InRegs(Pieces) <= Len(Pieces)
      /\ 2 * Len(Pieces) + 5 <= StackTop /\ StackTop \in Nat
  BY <1>1, RunFacts, CallAssumption
<1>3. /\ RegsOK /\ DOMAIN stack = 1..StackTop
      /\ SP = ArgumentsTop - 2 /\ StoredAfter(InRegs(Pieces)) /\ RegistersPassed
      /\ OnTop(Word(ReturnAddress))
  BY <1>1, <1>2 DEF RunInv
<1>4. Pieces' = Pieces
  BY <1>1, SameFunction
<1>5. /\ RegistersPassed' /\ SavedTop' = SavedTop /\ savesA' = savesA /\ AtCall("A")' = AtCall("A")
      /\ RegsOK'
  BY <1>1, <1>3, <1>4 DEF RegistersPassed, AtCall, InMem, SavedTop, ArgumentsTop, StackSize,
                          RegsOK, Bytes, function
<1>6. regs["A"] = Word(AtCall("A")) /\ ArgumentsTop \in Int
  BY <1>2, <1>3 DEF RegistersPassed, ArgumentsTop
<1>7. /\ DOMAIN stack' = 1..StackTop /\ SP' = SavedTop /\ StoredAfter(InRegs(Pieces))'
      /\ stack'[SP' + 1] = FrameTop.lo /\ stack'[SP' + 2] = FrameTop.hi
  <2>1. CASE savesA
    <3>1. /\ DOMAIN stack' = 1..StackTop /\ SP' = SP - 2 /\ StoredAfter(InRegs(Pieces))'
          /\ stack'[SP' + 1] = regs["A"].lo /\ stack'[SP' + 2] = regs["A"].hi
      BY <1>1, <1>2, <1>3, <1>4, <2>1, PushBelow
    <3>2. SP' = SavedTop
      BY <1>3, <1>6, <2>1, <3>1 DEF SavedTop, StackSize
    <3>3. FrameTop = regs["A"]
      BY <1>6, <2>1 DEF FrameTop
    <3>. QED
      BY <3>1, <3>2, <3>3
  <2>2. CASE ~savesA
    <3>1. SP' = SP /\ stack' = stack
      BY <1>1, <2>2
    <3>2. SP' = SavedTop
      BY <1>3, <1>6, <2>2, <3>1 DEF SavedTop, StackSize
    <3>3. StoredAfter(InRegs(Pieces))'
      BY <1>3, <1>4, <3>1 DEF StoredAfter
    <3>4. FrameTop = Word(ReturnAddress)
      BY <2>2 DEF FrameTop
    <3>. QED
      BY <1>3, <3>1, <3>2, <3>3, <3>4 DEF OnTop
  <2>. QED
    BY <2>1, <2>2
<1>8. FrameTop' = FrameTop
  BY <1>5 DEF FrameTop
<1>9. RunInv'
  BY <1>1, <1>4, <1>5, <1>7, <1>8 DEF RunInv, OnTop
<1>10. i' \in 0..(Len(Pieces) + 1) /\ UNCHANGED <<size, offset>>
  BY <1>1 DEF CallInv, parsing
<1>. QED
  BY <1>1, <1>9, <1>10, RunningStep

LEMMA BodyStep ==
  ASSUME CallInv, Body
  PROVE  CallInv'
<1>1. /\ pc = "body" /\ pc' = "restore"
      /\ regs' = [A |-> IF ret = "word" THEN Word(Result)
                        ELSE IF savesA THEN Word(Temporary) ELSE regs["A"],
                  X |-> Word(Temporary), Y |-> Word(Temporary)]
      /\ UNCHANGED <<function, side, args, parsing, analysis, called, SP, stack>>
  BY DEF Body
<1>2. RunInv /\ FunctionOK /\ Len(Pieces) \in Nat
  BY <1>1, RunFacts
<1>3. /\ RegsOK /\ DOMAIN stack = 1..StackTop
      /\ SP = SavedTop /\ RegistersPassed /\ OnTop(FrameTop)
  BY <1>1, <1>2 DEF RunInv
<1>4. Pieces' = Pieces
  BY <1>1, SameFunction
<1>5. /\ SavedTop' = SavedTop /\ AtCall("A")' = AtCall("A") /\ savesA' = savesA
      /\ FrameTop' = FrameTop
  BY <1>1, <1>4 DEF SavedTop, ArgumentsTop, StackSize, FrameTop, AtCall, InMem, function
<1>6. RegsOK'
  <2>1. /\ Word(Result) \in [lo : Bytes, hi : Bytes] /\ Word(Temporary) \in [lo : Bytes, hi : Bytes]
    <3>1. Result \in StackAddress..Len(Pieces) /\ Temporary \in StackAddress..Len(Pieces)
      BY <1>2 DEF Result, Temporary, StackAddress
    <3>. QED
      BY <3>1, WordIsRegister
  <2>2. regs["A"] \in [lo : Bytes, hi : Bytes]
    BY <1>3 DEF RegsOK
  <2>3. regs' = [r \in {"A", "X", "Y"} |-> regs'[r]]
    BY <1>1
  <2>4. /\ regs'["X"] = Word(Temporary) /\ regs'["Y"] = Word(Temporary)
        /\ regs'["A"] \in {Word(Result), Word(Temporary), regs["A"]}
    BY <1>1
  <2>5. Bytes' = Bytes
    BY <1>4 DEF Bytes
  <2>6. \A r \in {"A", "X", "Y"} : regs'[r] \in [lo : Bytes, hi : Bytes]
    BY <2>1, <2>2, <2>4
  <2>. QED
    BY <2>3, <2>5, <2>6 DEF RegsOK
<1>7. IF savesA THEN regs'["A"] \in {Word(Result), Word(Temporary)}
                ELSE regs'["A"] = Word(AtCall("A"))
  BY <1>1, <1>2, <1>3 DEF FunctionOK, RegistersPassed
<1>8. SP' = SP /\ stack' = stack
  BY <1>1
<1>9. RunInv'
  BY <1>1, <1>3, <1>5, <1>6, <1>7, <1>8 DEF RunInv, OnTop
<1>10. i' \in 0..(Len(Pieces) + 1) /\ UNCHANGED <<size, offset>>
  BY <1>1 DEF CallInv, parsing
<1>. QED
  BY <1>1, <1>9, <1>10, RunningStep

LEMMA RestoreStep ==
  ASSUME CallInv, Restore
  PROVE  CallInv'
<1>1. /\ pc = "restore" /\ pc' = "return"
      /\ IF savesA THEN regs' = [regs EXCEPT !["A"].lo = stack[SP + 1]] /\ SP' = SP + 1
                   ELSE UNCHANGED <<regs, SP>>
      /\ UNCHANGED <<function, side, args, parsing, analysis, called, stack>>
  BY DEF Restore
<1>2. RunInv /\ FunctionOK /\ Len(Pieces) \in Nat /\ InRegs(Pieces) \in 0..3 /\ StackTop \in Nat
  BY <1>1, RunFacts, CallAssumption
<1>3. /\ RegsOK /\ DOMAIN stack = 1..StackTop
      /\ SP = SavedTop /\ OnTop(FrameTop)
      /\ IF savesA THEN regs["A"] \in {Word(Result), Word(Temporary)}
                   ELSE regs["A"] = Word(AtCall("A"))
  BY <1>1, <1>2 DEF RunInv
<1>4. Pieces' = Pieces
  BY <1>1, SameFunction
<1>5. /\ ArgumentsTop' = ArgumentsTop /\ AtCall("A")' = AtCall("A") /\ ArgumentsTop \in Int
      /\ savesA' = savesA /\ stack' = stack /\ Bytes' = Bytes
  BY <1>1, <1>2, <1>4 DEF ArgumentsTop, AtCall, InMem, Bytes, function
<1>6. AtCall("A") \in 0..Len(Pieces)
  BY <1>1, AtCallFacts
<1>7. CASE savesA
  <2>1. /\ stack[SP + 1] = <<AtCall("A"), "lo">> /\ stack[SP + 2] = <<AtCall("A"), "hi">>
    BY <1>3, <1>7 DEF OnTop, FrameTop, Word
  <2>2. SP' = ArgumentsTop - 3 /\ SP' + 1 = SP + 2
    BY <1>1, <1>3, <1>5, <1>7 DEF SavedTop, StackSize
  <2>3. regs' = [regs EXCEPT !["A"].lo = <<AtCall("A"), "lo">>]
    BY <1>1, <1>7, <2>1
  <2>4. <<AtCall("A"), "lo">> \in Bytes
    BY <1>2, <1>6 DEF Bytes, StackAddress
  <2>5. RegsOK'
    BY <1>3, <1>5, <2>3, <2>4 DEF RegsOK
  <2>6. regs'["A"] = [regs["A"] EXCEPT !.lo = <<AtCall("A"), "lo">>]
    BY <1>3, <2>3 DEF RegsOK
  <2>7. regs["A"].hi \in {<<Result, "hi">>, <<Temporary, "hi">>} /\ regs["A"] = [lo |-> regs["A"].lo, hi |-> regs["A"].hi]
    BY <1>3, <1>7 DEF Word
  <2>8. regs'["A"].lo = <<AtCall("A"), "lo">> /\ regs'["A"].hi # <<AtCall("A"), "hi">>
    BY <1>2, <1>6, <2>6, <2>7 DEF Result, Temporary
  <2>9. RunInv'
    BY <1>1, <1>3, <1>5, <1>7, <2>1, <2>2, <2>5, <2>8 DEF RunInv
  <2>. QED
    <3>1. i' \in 0..(Len(Pieces) + 1) /\ UNCHANGED <<size, offset>>
      BY <1>1 DEF CallInv, parsing
    <3>. QED
      BY <1>1, <2>9, <3>1, RunningStep
<1>8. CASE ~savesA
  <2>1. regs' = regs /\ SP' = SP
    BY <1>1, <1>8
  <2>2. SP = ArgumentsTop - 2 /\ FrameTop = Word(ReturnAddress)
    BY <1>3, <1>5, <1>8 DEF SavedTop, StackSize, FrameTop
  <2>3. RunInv'
    BY <1>1, <1>3, <1>5, <1>8, <2>1, <2>2 DEF RunInv, OnTop, RegsOK
  <2>. QED
    <3>1. i' \in 0..(Len(Pieces) + 1) /\ UNCHANGED <<size, offset>>
      BY <1>1 DEF CallInv, parsing
    <3>. QED
      BY <1>1, <2>3, <3>1, RunningStep
<1>. QED
  BY <1>7, <1>8

LEMMA ReturnStep ==
  ASSUME CallInv, Return
  PROVE  CallInv'
<1>1. /\ pc = "return" /\ SP' = SP + 2
      /\ pc' = IF [lo |-> stack[SP + 1], hi |-> stack[SP + 2]] = Word(ReturnAddress)
                 THEN "adjust" ELSE "astray"
      /\ UNCHANGED <<function, side, args, parsing, analysis, called, regs, stack>>
  BY DEF Return
<1>2. /\ RunInv /\ FunctionOK /\ Len(Pieces) \in Nat /\ InRegs(Pieces) \in 0..3 /\ StackTop \in Nat
  BY <1>1, RunFacts, CallAssumption
<1>3. /\ RegsOK /\ DOMAIN stack = 1..StackTop
      /\ IF savesA
           THEN SP = ArgumentsTop - 3 /\ stack[SP + 1] = <<AtCall("A"), "hi">>
           ELSE SP = ArgumentsTop - 2 /\ OnTop(Word(ReturnAddress)) /\ regs["A"] = Word(AtCall("A"))
  BY <1>1, <1>2 DEF RunInv
<1>4. Pieces' = Pieces
  BY <1>1, SameFunction
<1>5. /\ ArgumentsTop' = ArgumentsTop /\ AtCall("A")' = AtCall("A") /\ ArgumentsTop \in Int
      /\ savesA' = savesA /\ RegsOK' /\ DOMAIN stack' = 1..StackTop /\ regs' = regs
  <2>1. ArgumentsTop' = ArgumentsTop /\ ArgumentsTop \in Int
    BY <1>2, <1>4 DEF ArgumentsTop
  <2>2. AtCall("A")' = AtCall("A")
    BY <1>1 DEF AtCall, InMem
  <2>3. RegsOK'
    BY <1>1, <1>3, <1>4 DEF RegsOK, Bytes
  <2>. QED
    BY <1>1, <1>3, <2>1, <2>2, <2>3 DEF function
<1>6. CASE savesA
  <2>1. [lo |-> stack[SP + 1], hi |-> stack[SP + 2]] # Word(ReturnAddress)
    BY <1>3, <1>6 DEF Word
  <2>2. pc' = "astray" /\ SP' = ArgumentsTop - 1
    BY <1>1, <1>3, <1>5, <1>6, <2>1
  <2>3. RunInv'
    BY <1>5, <1>6, <2>2 DEF RunInv
  <2>. QED
    <3>1. i' \in 0..(Len(Pieces) + 1) /\ UNCHANGED <<size, offset>>
      BY <1>1 DEF CallInv, parsing
    <3>. QED
      BY <1>1, <2>2, <2>3, <3>1, RunningStep
<1>7. CASE ~savesA
  <2>1. [lo |-> stack[SP + 1], hi |-> stack[SP + 2]] = Word(ReturnAddress)
    BY <1>3, <1>7 DEF OnTop, Word
  <2>2. pc' = "adjust" /\ SP' = ArgumentsTop
    BY <1>1, <1>3, <1>5, <1>7, <2>1
  <2>3. RunInv'
    BY <1>3, <1>5, <1>7, <2>2 DEF RunInv
  <2>. QED
    <3>1. i' \in 0..(Len(Pieces) + 1) /\ UNCHANGED <<size, offset>>
      BY <1>1 DEF CallInv, parsing
    <3>. QED
      BY <1>1, <2>2, <2>3, <3>1, RunningStep
<1>. QED
  BY <1>6, <1>7

LEMMA AdjustStep ==
  ASSUME CallInv, Adjust
  PROVE  CallInv'
<1>1. /\ pc = "adjust" /\ pc' = "done" /\ SP' = SP + called.bytes
      /\ regs' = IF called.bytes # 0 THEN [regs EXCEPT !["A"] = Word(StackAddress)] ELSE regs
      /\ UNCHANGED <<function, side, args, parsing, analysis, called, stack>>
  BY DEF Adjust
<1>2. /\ RunInv /\ Len(Pieces) \in Nat /\ InRegs(Pieces) \in 0..3 /\ StackTop \in Nat
      /\ called.bytes = 2 * (Len(Pieces) - InRegs(Pieces))
  BY <1>1, RunFacts, CallAssumption
<1>3. /\ RegsOK /\ DOMAIN stack = 1..StackTop
      /\ ~savesA /\ SP = ArgumentsTop /\ regs["A"] = Word(AtCall("A"))
  BY <1>1, <1>2 DEF RunInv
<1>4. Pieces' = Pieces
  BY <1>1, SameFunction
<1>5. SP' = StackTop
  BY <1>1, <1>2, <1>3, SMTT(30) DEF ArgumentsTop
<1>6. /\ AtCall("A")' = AtCall("A") /\ savesA' = savesA /\ called' = called /\ stack' = stack
      /\ Bytes' = Bytes
  BY <1>1, <1>4 DEF AtCall, InMem, Bytes, function
<1>7. RegsOK'
  <2>1. StackAddress \in StackAddress..Len(Pieces)
    BY <1>2 DEF StackAddress
  <2>2. Word(StackAddress) \in [lo : Bytes, hi : Bytes]
    BY <2>1, WordIsRegister
  <2>. QED
    BY <1>1, <1>3, <1>6, <2>2 DEF RegsOK
<1>8. regs'["A"] = Word(IF called.bytes = 0 THEN AtCall("A") ELSE StackAddress)
  BY <1>1, <1>3 DEF RegsOK
<1>9. RunInv'
  BY <1>1, <1>3, <1>5, <1>6, <1>7, <1>8 DEF RunInv
<1>10. i' \in 0..(Len(Pieces) + 1) /\ UNCHANGED <<size, offset>>
  BY <1>1 DEF CallInv, parsing
<1>. QED
  BY <1>1, <1>9, <1>10, RunningStep

LEMMA CallStutter ==
  ASSUME CallInv, UNCHANGED vars
  PROVE  CallInv'
<1>1. UNCHANGED <<function, side, pc, args, parsing, analysis, called, machine>>
  BY DEF vars
<1>2. /\ sig' = sig /\ ret' = ret /\ savesA' = savesA /\ side' = side /\ pc' = pc /\ args' = args
      /\ i' = i /\ size' = size /\ offset' = offset /\ arg' = arg /\ pos' = pos
      /\ regsLeft' = regsLeft /\ usesStack' = usesStack /\ allocated' = allocated
      /\ stackOffset' = stackOffset /\ locs' = locs /\ called' = called
      /\ regs' = regs /\ SP' = SP /\ stack' = stack
  BY <1>1 DEF function, parsing, analysis, machine
<1>3. Pieces' = Pieces
  BY <1>1, SameFunction
<1>4. /\ FunctionOK' = FunctionOK /\ MachineFresh' = MachineFresh /\ AssignInv' = AssignInv
      /\ CalledInv' = CalledInv
  BY <1>2, <1>3 DEF FunctionOK, MachineFresh, RegsOK, Bytes, AssignInv, CalledInv
<1>5. ParseInv' = ParseInv
  BY <1>2, <1>3, <1>4 DEF ParseInv, Fresh
<1>6. RunInv' = RunInv
  BY <1>2, <1>3 DEF RunInv, StoredAfter, ArgumentsTop, SavedTop, StackSize, RegistersPassed,
                    AtCall, InMem, RegsOK, Bytes, OnTop, FrameTop
<1>. QED
  BY <1>2, <1>3, <1>4, <1>5, <1>6 DEF CallInv
----------------------------------------------------------------------------
(***************************************************************************)
(* The invariant, and what follows from it.                                *)
(***************************************************************************)
LEMMA CallNext ==
  ASSUME StackIsLarge, WordsOnStack, CallInv, [Next]_vars
  PROVE  CallInv'
<1>1. CASE Analyze
  BY <1>1, ParsePieceStep, EndArgumentStep, EndParseStep, SkipEmptyStep, AssignRegistersStep,
     AssignStackStep, CallAnalyzedStep, EntryAnalyzedStep DEF Analyze
<1>2. CASE Run
  BY <1>2, PushArgumentStep, CopyToRegistersStep, CallStep, SaveStep, BodyStep, RestoreStep,
     ReturnStep, AdjustStep DEF Run
<1>3. CASE Done \/ UNCHANGED vars
  BY <1>3, CallStutter DEF Done
<1>. QED
  BY <1>1, <1>2, <1>3 DEF Next

\* What both analyses know, and the code that is run, at every moment: the
\* pieces assigned so far are in their places, the arguments pushed so far are
\* where they belong, and what SP, A and the stack hold at each step of the
\* code, to the byte that one POPRd leaves of the word PHAstk has pushed.
THEOREM CallInvariant ==
  ASSUME StackIsLarge, WordsOnStack
  PROVE  Spec => []CallInv
<1>1. Init => CallInv
  BY CallInit
<1>2. CallInv /\ [Next]_vars => CallInv'
  BY CallNext
<1>. QED
  BY <1>1, <1>2, PTL DEF Spec

\* eliminateCallFramePseudoInstr takes as many bytes off the stack as
\* fixStackStores' pushes put there, and SP is where it was, in a call of a
\* function that saves no register.  No other call comes back:
\* restoreCalleeSavedRegisters pops one byte of the two that
\* spillCalleeSavedRegisters pushed.
THEOREM CallStackBalanced ==
  ASSUME StackIsLarge, WordsOnStack
  PROVE  Spec => []StackBalanced
<1>1. CallInv => StackBalanced
  BY DEF CallInv, RunInv, StackBalanced
<1>. QED
  BY <1>1, CallInvariant, PTL

\* CSR_Normal lists A.  When the callee returns, a saved A has its low byte
\* back and never its high one; when the caller goes on, A is as it was at the
\* call exactly if ADJCALLSTACKUP had nothing to take off the stack.
THEOREM CallPreservesA ==
  ASSUME StackIsLarge, WordsOnStack
  PROVE  Spec => []CallPreserves
<1>1. ASSUME CallInv, pc = "return"
      PROVE  /\ regs["A"].lo = Word(AtCall("A")).lo
             /\ regs["A"].hi = Word(AtCall("A")).hi <=> ~savesA
  BY <1>1, RunFacts DEF RunInv, Word
<1>2. ASSUME CallInv, pc = "done"
      PROVE  regs["A"] = Word(AtCall("A")) <=> called.bytes = 0
  <2>1. regs["A"] = Word(IF called.bytes = 0 THEN AtCall("A") ELSE StackAddress)
    BY <1>2, RunFacts DEF RunInv
  <2>2. AtCall("A") \in Nat
    BY <1>2, AtCallFacts, RunFacts
  <2>3. Word(StackAddress).lo # Word(AtCall("A")).lo
    BY <2>2 DEF Word, StackAddress
  <2>. QED
    BY <2>1, <2>3
<1>3. CallInv => CallPreserves
  BY <1>1, <1>2 DEF CallPreserves
<1>. QED
  BY <1>3, CallInvariant, PTL

\* A location on the stack is where the caller has pushed the piece.
LEMMA StoredPiece ==
  ASSUME CallInv, StackIsLarge, pc \notin {"parse", "assign"}, StoredAfter(InRegs(Pieces)),
         NEW k \in 1..Len(Pieces), k > InRegs(Pieces)
  PROVE  Holds(ArgumentsTop + 1 + 2 * (k - 1 - InRegs(Pieces)), k, 2)
<1>1. /\ Len(Pieces) \in Nat /\ InRegs(Pieces) \in 0..3 /\ InRegs(Pieces) <= Len(Pieces)
      /\ StackTop \in Nat
  BY RunFacts, CallAssumption
<1>2. PICK x \in Int : x = StackTop - 2 * (Len(Pieces) - k)
  <2>1. StackTop - 2 * (Len(Pieces) - k) \in Int
    BY <1>1
  <2>. QED
    BY <2>1
<1>3. stack[x - 1] = <<k, "lo">> /\ stack[x] = <<k, "hi">>
  <2>1. k \in (InRegs(Pieces) + 1)..Len(Pieces)
    BY <1>1
  <2>. QED
    BY <1>2, <2>1 DEF StoredAfter
<1>4. ArgumentsTop + 1 + 2 * (k - 1 - InRegs(Pieces)) = x - 1
  <2> DEFINE n == Len(Pieces)
             q == InRegs(Pieces)
  <2>1. n \in Int /\ q \in Int /\ StackTop \in Int /\ k \in Int
    BY <1>1
  <2>2. ArgumentsTop = StackTop - 2 * (n - q) /\ x = StackTop - 2 * (n - k)
    BY <1>2 DEF ArgumentsTop
  <2>. HIDE DEF n, q
  <2>3. ArgumentsTop + 1 + 2 * (k - 1 - q) = x - 1
    BY <2>1, <2>2
  <2>. QED
    BY <2>3 DEF q
<1>5. x - 1 + 1 = x
  BY <1>2
<1>. QED
  BY <1>3, <1>4, <1>5 DEF Holds

\* fixStackStores' pushes leave each stack argument at the offset that
\* analyzeStandardArguments has given it.
THEOREM CallPushesInPlace ==
  ASSUME StackIsLarge, WordsOnStack
  PROVE  Spec => []PushesStoreInPlace
<1>1. ASSUME CallInv, pc = "call", NEW k \in 1..Len(called.locs), InMem(k)
      PROVE  Holds(SP + 1 + called.locs[k].offset, k, called.locs[k].bytes)
  <2>1. RunInv /\ k \in 1..Len(Pieces)
    BY <1>1, RunFacts
  <2>2. SP = ArgumentsTop /\ StoredAfter(InRegs(Pieces))
    BY <1>1, <2>1 DEF RunInv
  <2>3. /\ k > InRegs(Pieces) /\ called.locs[k].bytes = 2
        /\ called.locs[k].offset = 2 * (k - 1 - InRegs(Pieces))
    BY <1>1, <2>1, CalledKinds
  <2>4. Holds(ArgumentsTop + 1 + 2 * (k - 1 - InRegs(Pieces)), k, 2)
    BY <1>1, <2>1, <2>2, <2>3, StoredPiece
  <2>. QED
    BY <2>2, <2>3, <2>4
<1>2. CallInv => PushesStoreInPlace
  BY <1>1 DEF PushesStoreInPlace
<1>. QED
  BY <1>2, CallInvariant, PTL
----------------------------------------------------------------------------
(***************************************************************************)
(* What the callee finds, when arguments are scalars.                      *)
(***************************************************************************)
LEMMA BothPlaced ==
  ASSUME ScalarArguments, CallInv
  PROVE  /\ locs \in Seq(Location) /\ Placed(locs, Pieces)
         /\ called.locs \in Seq(Location) /\ Placed(called.locs, Pieces) /\ called.bytes \in Nat
         /\ pc \notin {"parse", "assign"} => Len(locs) = Len(Pieces)
<1>1. /\ Pieces \in Seq(Piece) /\ Runs(Pieces) /\ Len(Pieces) \in Nat
      /\ InRegs(Pieces) \in 0..3 /\ InRegs(Pieces) <= Len(Pieces)
      /\ args \in Seq(Nat)
  BY PiecesFacts DEF CallInv, FunctionOK
<1>2. << >> \in Seq(Location) /\ Placed(<< >>, Pieces)
  BY <1>1 DEF Placed
<1>3. AssignInv => locs \in Seq(Location) /\ Placed(locs, Pieces)
  BY DEF AssignInv, Assigned
<1>4. CalledInv => /\ called.locs \in Seq(Location) /\ Placed(called.locs, Pieces)
                   /\ called.bytes \in Nat
  BY <1>1 DEF CalledInv
<1>5. CASE pc = "parse"
  <2>1. locs = << >> /\ called = [locs |-> << >>, bytes |-> 0]
    BY <1>5 DEF CallInv, ParseInv, Fresh
  <2>. QED
    BY <1>2, <1>5, <2>1
<1>6. CASE pc = "assign"
  <2>1. /\ AssignInv
        /\ CalledInv \/ called = [locs |-> << >>, bytes |-> 0]
    BY <1>6 DEF CallInv
  <2>2. called.locs \in Seq(Location) /\ Placed(called.locs, Pieces) /\ called.bytes \in Nat
    <3>1. CASE CalledInv
      BY <1>4, <3>1
    <3>2. CASE called = [locs |-> << >>, bytes |-> 0]
      BY <1>2, <3>2
    <3>. QED
      BY <2>1, <3>1, <3>2
  <2>. QED
    BY <1>3, <1>6, <2>1, <2>2
<1>7. CASE pc \notin {"parse", "assign"}
  <2>1. AssignInv /\ arg > Len(args) /\ CalledInv
    BY <1>7 DEF CallInv
  <2>2. Len(locs) = Len(Pieces)
    <3>1. Assigned(Pieces, args, arg, pos, regsLeft, usesStack, allocated, stackOffset, locs)
      BY <2>1 DEF AssignInv
    <3>. QED
      BY <1>1, <2>1, <3>1, AssignedAll
  <2>. QED
    BY <1>3, <1>4, <2>1, <2>2
<1>. QED
  BY <1>5, <1>6, <1>7

\* analyzeStandardArguments: all pieces of an argument are passed in registers
\* or all on the stack, on either side.
THEOREM CallNeverMixed ==
  ASSUME StackIsLarge, WordsOnStack, ScalarArguments
  PROVE  Spec => []NeverMixed
<1>1. ASSUME CallInv, NEW l, Placed(l, Pieces), NEW j \in 1..Len(l), NEW k \in 1..Len(l),
             Len(l) \in Nat, Pieces[j].arg = Pieces[k].arg
      PROVE  l[j].kind = l[k].kind
  <2>1. /\ Pieces \in Seq(Piece) /\ Runs(Pieces) /\ Len(Pieces) \in Nat
        /\ sig \in Signatures /\ ret \in Returns /\ InRegs(Pieces) \in Nat
    BY <1>1, PiecesFacts DEF CallInv, FunctionOK
  <2>2. j \in 1..Len(Pieces) /\ k \in 1..Len(Pieces)
    BY <1>1, <2>1 DEF Placed
  <2>3. PICK a \in 0..Len(Pieces), b \in 0..Len(Pieces) :
          Group(Pieces, a, b) /\ a < j /\ j <= b /\ a < k /\ k <= b
    BY <1>1, <2>1, <2>2, ScalarsAreCounted
  <2>4. /\ b <= 3 => b <= InRegs(Pieces)
        /\ b > 3 => InRegs(Pieces) <= a
    BY <2>1, <2>3, GroupSide
  <2>5. (j <= InRegs(Pieces) /\ k <= InRegs(Pieces)) \/ (j > InRegs(Pieces) /\ k > InRegs(Pieces))
    <3>1. a \in Nat /\ b \in Nat /\ j \in Nat /\ k \in Nat
      BY <2>1, <2>2
    <3>2. PICK f \in Nat : f = InRegs(Pieces)
      BY <2>1
    <3>3. a < j /\ j <= b /\ a < k /\ k <= b /\ (b <= 3 => b <= f) /\ (b > 3 => f <= a)
      BY <2>3, <2>4, <3>2
    <3>4. (j <= f /\ k <= f) \/ (j > f /\ k > f)
      BY <3>1, <3>3
    <3>. QED
      BY <3>2, <3>4
  <2>6. ASSUME NEW x \in 1..Len(l)
        PROVE  /\ x <= InRegs(Pieces) => l[x].kind = "reg"
               /\ x > InRegs(Pieces) => l[x].kind = "mem"
    <3>1. /\ x <= InRegs(Pieces) => l[x].kind = "reg"
          /\ x > InRegs(Pieces) => l[x] = InMemory(2 * (x - 1 - InRegs(Pieces)), 2)
      BY <1>1, <2>1, PlacedKind
    <3>. QED
      BY <3>1 DEF InMemory
  <2>. QED
    BY <2>5, <2>6
<1>2. CallInv => NeverMixed
  <2>1. ASSUME CallInv
        PROVE  /\ Placed(locs, Pieces) /\ Len(locs) \in Nat
               /\ Placed(called.locs, Pieces) /\ Len(called.locs) \in Nat
    BY <2>1, BothPlaced
  <2>. QED
    BY <1>1, <2>1 DEF NeverMixed
<1>. QED
  BY <1>2, CallInvariant, PTL

\* The caller's parseExternFuncCallArgs and the callee's parseFunctionArgs
\* count in different ways, and yet every piece is where the callee's analysis
\* has it, whether or not A is saved first.  eliminateFrameIndex has the pieces
\* on the stack read from A, and A is never the address their offsets are from.
THEOREM CallArgumentsInPlace ==
  ASSUME StackIsLarge, WordsOnStack, ScalarArguments
  PROVE  Spec => []ArgumentsInPlace
<1>1. ASSUME CallInv, pc = "body", NEW k \in 1..Len(locs)
      PROVE  /\ locs[k].kind = "reg" => regs[locs[k].reg] = Word(k)
             /\ locs[k].kind = "mem" =>
                  Holds(SP + FrameOffset(locs[k].offset), k, locs[k].bytes)
  <2>1. /\ RunInv /\ Pieces \in Seq(Piece) /\ Runs(Pieces) /\ Len(Pieces) \in Nat
        /\ InRegs(Pieces) \in 0..3 /\ InRegs(Pieces) <= Len(Pieces)
        /\ Len(called.locs) = Len(Pieces) /\ Placed(called.locs, Pieces) /\ StackTop \in Nat
    BY <1>1, RunFacts, CallAssumption
  <2>2. locs \in Seq(Location) /\ Placed(locs, Pieces) /\ Len(locs) = Len(Pieces)
    BY <1>1, BothPlaced
  <2>3. k \in 1..Len(Pieces) /\ k \in 1..Len(called.locs) /\ locs[k] = called.locs[k]
    BY <2>1, <2>2, PlacedOnce
  <2>4. SP = SavedTop /\ StoredAfter(InRegs(Pieces)) /\ RegistersPassed
    BY <1>1, <2>1 DEF RunInv
  <2>5. CASE k <= InRegs(Pieces)
    <3>1. locs[k].kind = "reg"
      BY <2>1, <2>2, <2>5, PlacedKind
    <3>2. locs[k].reg \in {"A", "X", "Y"}
      <4>1. locs[k] \in Location
        BY <2>2
      <4>. QED
        BY <3>1, <4>1 DEF Location
    <3>3. AtCall(locs[k].reg) = k
      <4>1. k \in 1..InRegs(Pieces) /\ called.locs[k].reg = locs[k].reg
        BY <2>1, <2>3, <2>5
      <4>. QED
        BY <1>1, <4>1, AtCallFacts
    <3>. QED
      BY <2>4, <3>1, <3>2, <3>3 DEF RegistersPassed
  <2>6. CASE k > InRegs(Pieces)
    <3>1. locs[k] = InMemory(2 * (k - 1 - InRegs(Pieces)), 2)
      BY <2>1, <2>2, <2>6, PlacedKind
    <3>2. /\ locs[k].kind = "mem" /\ locs[k].bytes = 2
          /\ locs[k].offset = 2 * (k - 1 - InRegs(Pieces))
      BY <3>1 DEF InMemory
    <3>3. SP + FrameOffset(locs[k].offset) = ArgumentsTop + 1 + 2 * (k - 1 - InRegs(Pieces))
      <4>1. SP + FrameOffset(locs[k].offset) =
              SavedTop + (2 * (k - 1 - InRegs(Pieces)) + (StackSize + 3))
        BY <2>4, <3>2 DEF FrameOffset, OffsetOfLocalArea, StackSize
      <4>2. SavedTop = ArgumentsTop - 2 - StackSize /\ StackSize \in Nat /\ ArgumentsTop \in Int
        BY <2>1 DEF SavedTop, StackSize, ArgumentsTop
      <4>3. PICK s \in Nat, t \in Int, f \in Int :
              s = StackSize /\ t = ArgumentsTop /\ f = InRegs(Pieces)
        BY <2>1, <4>2
      <4>4. t - 2 - s + (2 * (k - 1 - f) + (s + 3)) = t + 1 + 2 * (k - 1 - f)
        BY <2>1, <4>3
      <4>. QED
        BY <4>1, <4>2, <4>3, <4>4
    <3>4. Holds(ArgumentsTop + 1 + 2 * (k - 1 - InRegs(Pieces)), k, 2)
      BY <1>1, <2>3, <2>4, <2>6, StoredPiece
    <3>. QED
      BY <3>2, <3>3, <3>4
  <2>. QED
    BY <2>1, <2>3, <2>5, <2>6
<1>2. CallInv /\ pc = "body" => Len(locs) = Len(Pieces)
  BY BothPlaced
<1>3. ASSUME CallInv, pc = "body" PROVE FrameBase # Word(StackAddress)
  <2>1. FrameBase = Word(AtCall("A"))
    BY <1>3, RunFacts DEF RunInv, RegistersPassed, FrameBase
  <2>2. AtCall("A") \in Nat
    BY <1>3, AtCallFacts, RunFacts
  <2>3. Word(AtCall("A")).lo # Word(StackAddress).lo
    BY <2>2 DEF Word, StackAddress
  <2>. QED
    BY <2>1, <2>3
<1>4. CallInv => ArgumentsInPlace
  BY <1>1, <1>2, <1>3 DEF ArgumentsInPlace
<1>. QED
  BY <1>4, CallInvariant, PTL

\* LowerFormalArguments emits as many values as the signature has pieces; what
\* its assertion asks fails only with a hidden argument or an aggregate.
THEOREM CallEmitsEveryValue ==
  ASSUME StackIsLarge, WordsOnStack, ScalarArguments
  PROVE  Spec => []EmitsEveryValue
<1>1. CallInv => EmitsEveryValue
  <2>1. CallInv /\ side = "run" => pc \notin {"parse", "assign"}
    BY DEF CallInv, ParseInv
  <2>. QED
    BY <2>1, BothPlaced DEF EmitsEveryValue
<1>. QED
  BY <1>1, CallInvariant, PTL

LEMMA AssignedType ==
  ASSUME NEW p \in Seq(Piece), Runs(p), NEW counts \in Seq(Nat), NEW n, NEW m,
         NEW left, NEW onStack, NEW taken, NEW bytes, NEW l,
         Assigned(p, counts, n, m, left, onStack, taken, bytes, l)
  PROVE  /\ n \in 1..(Len(counts) + 1) /\ m \in 0..Len(p) /\ left \in 0..3
         /\ onStack \in BOOLEAN /\ taken \subseteq {"A", "X", "Y"} /\ bytes \in Nat
         /\ l \in Seq(Location)
<1>1. PICK at \in Starts(counts, p) : n \in 1..(Len(counts) + 1) /\ m = at[n]
  BY DEF Assigned, StartsAt
<1>2. m \in 0..Len(p) /\ InRegs(p) \in 0..3 /\ Len(p) \in Nat
  BY <1>1, InRegsIsLastCut DEF Starts
<1>3. Used(p, m) \in 0..3 /\ Used(p, m) <= m
  BY <1>2 DEF Used
<1>4. /\ left = 3 - Used(p, m) /\ taken = FirstRegisters(Used(p, m))
      /\ bytes = 2 * (m - Used(p, m)) /\ onStack \in BOOLEAN /\ l \in Seq(Location)
  BY DEF Assigned
<1>5. taken \subseteq {"A", "X", "Y"}
  <2>1. \A k \in 1..Used(p, m) : k \in 1..3
    BY <1>3
  <2>. QED
    BY <1>4, <2>1, RegListFacts DEF FirstRegisters
<1>6. left \in 0..3 /\ bytes \in Nat
  <2>1. PICK u \in 0..3, x \in Nat : u = Used(p, m) /\ x = m
    BY <1>2, <1>3
  <2>2. 3 - u \in 0..3 /\ 2 * (x - u) \in Nat
    BY <1>3, <2>1
  <2>. QED
    BY <1>4, <2>1, <2>2
<1>. QED
  BY <1>1, <1>2, <1>4, <1>5, <1>6

\* The types of the analysis and of the machine; above all that the cursors of
\* analyzeStandardArguments stay within the arguments and the pieces, and SP
\* within the stack.
THEOREM CallTypes ==
  ASSUME StackIsLarge, WordsOnStack, ScalarArguments
  PROVE  Spec => []CallTypeOK
<1>1. ASSUME CallInv PROVE CallTypeOK
  <2>1. /\ FunctionOK /\ i \in 0..(Len(Pieces) + 1) /\ size \in Nat /\ offset \in Nat
        /\ pc \in {"parse", "assign", "store", "call", "save", "body", "restore", "return",
                   "adjust", "done", "astray", "assert"}
    BY <1>1 DEF CallInv
  <2>2. /\ Pieces \in Seq(Piece) /\ Runs(Pieces) /\ Len(Pieces) \in Nat /\ args \in Seq(Nat)
        /\ InRegs(Pieces) \in 0..3 /\ InRegs(Pieces) <= Len(Pieces)
        /\ 2 * Len(Pieces) + 5 <= StackTop /\ StackTop \in Nat
    BY <2>1, PiecesFacts, CallAssumption DEF FunctionOK
  <2>3. /\ called.locs \in Seq(Location) /\ called.bytes \in Nat /\ locs \in Seq(Location)
    BY <1>1, BothPlaced
  <2>4. side \in {"call", "entry", "run"}
    BY <1>1, <2>1 DEF CallInv, ParseInv
  <2>5. /\ arg \in 1..(Len(args) + 1) /\ pos \in 0..Len(Pieces)
        /\ regsLeft \in 0..3 /\ usesStack \in BOOLEAN
        /\ allocated \subseteq {"A", "X", "Y"} /\ stackOffset \in Nat
    <3>1. CASE pc = "parse"
      <4>1. Fresh
        BY <1>1, <3>1 DEF CallInv, ParseInv
      <4>2. 1 \in 1..(Len(args) + 1) /\ 0 \in 0..Len(Pieces) /\ 0 \in Nat
        BY <2>2
      <4>3. 3 \in 0..3 /\ FALSE \in BOOLEAN /\ {} \subseteq {"A", "X", "Y"}
        OBVIOUS
      <4>4. /\ arg = 1 /\ pos = 0 /\ regsLeft = 3 /\ usesStack = FALSE
            /\ allocated = {} /\ stackOffset = 0
        BY <4>1 DEF Fresh
      <4>. QED
        BY <4>2, <4>3, <4>4, Zenon
    <3>2. CASE pc # "parse"
      <4>1. AssignInv
        BY <1>1, <2>1, <3>2 DEF CallInv
      <4>2. Assigned(Pieces, args, arg, pos, regsLeft, usesStack, allocated, stackOffset, locs)
        BY <4>1 DEF AssignInv
      <4>. QED
        BY <2>2, <4>2, AssignedType
    <3>. QED
      BY <3>1, <3>2
  <2>6. RegsOK /\ DOMAIN stack = 1..StackTop /\ SP \in 1..StackTop
    <3>1. CASE pc \in {"parse", "assign"}
      <4>1. MachineFresh
        BY <1>1, <3>1 DEF CallInv, ParseInv
      <4>2. StackTop \in 1..StackTop
        BY <2>2
      <4>. QED
        BY <4>1, <4>2 DEF MachineFresh
    <3>2. CASE pc \notin {"parse", "assign"}
      <4>1. RunInv
        BY <1>1, <3>2, RunFacts
      <4>2. SP \in 1..StackTop
        <5>1. /\ ArgumentsTop \in 5..StackTop /\ SavedTop \in 1..StackTop
              /\ ArgumentsTop - 1 \in 1..StackTop /\ ArgumentsTop - 2 \in 1..StackTop
              /\ ArgumentsTop - 3 \in 1..StackTop /\ StackTop \in 1..StackTop
          <6>1. PICK f \in 0..3, n \in Nat : f = InRegs(Pieces) /\ n = Len(Pieces) /\ f <= n
            BY <2>2
          <6>2. PICK z \in {0, 2} : z = StackSize
            BY DEF StackSize
          <6>3. PICK s \in Nat : s = StackTop /\ 2 * n + 5 <= s
            BY <2>2, <6>1
          <6>4. PICK t \in Int : t = s - 2 * (n - f)
            OBVIOUS
          <6>5. 5 <= t /\ t <= s
            BY <6>1, <6>3, <6>4
          <6>6. /\ t \in 5..s /\ t - 2 - z \in 1..s /\ s \in 1..s
                /\ t - 1 \in 1..s /\ t - 2 \in 1..s /\ t - 3 \in 1..s
            BY <6>5
          <6>. QED
            BY <6>1, <6>2, <6>3, <6>4, <6>6 DEF ArgumentsTop, SavedTop
        <5>2. pc = "store" => SP \in 1..StackTop
          <6>1. ASSUME pc = "store" PROVE SP \in 1..StackTop
            <7>1. i \in InRegs(Pieces)..Len(Pieces) /\ SP = StackTop - 2 * (Len(Pieces) - i)
              BY <4>1, <6>1 DEF RunInv
            <7>. QED
              BY <2>2, <7>1
          <6>. QED
            BY <6>1
        <5>3. ArgumentsTop \in 1..StackTop
          BY <2>2, <5>1
        <5>. QED
          BY <2>1, <3>2, <4>1, <5>1, <5>2, <5>3 DEF RunInv
      <4>. QED
        BY <4>1, <4>2 DEF RunInv
    <3>. QED
      BY <3>1, <3>2
  <2>. QED
    BY <2>1, <2>2, <2>3, <2>4, <2>5, <2>6 DEF CallTypeOK, FunctionOK, RegsOK
<1>. QED
  BY <1>1, CallInvariant, PTL
============================================================================
