------------------------- MODULE ExpandPseudoProofs -------------------------
(***************************************************************************)
(* The pass and the expanded code, for every set of programs: the pass     *)
(* settles in three rounds, registers are kept, and the stack pointer, the *)
(* device and the shared word are never seen half written.                 *)
(***************************************************************************)
EXTENDS ExpandPseudo, WordArithProofs, SequenceFacts

----------------------------------------------------------------------------
(***************************************************************************)
(* What is expanded, and how often.                                        *)
(***************************************************************************)
\* Pseudos whose expansions have pseudos in them, and the others.
Twice ==
  {"AtomicLoad16", "AtomicStore16", "AtomicLoadAdd16", "AtomicLoadSub16", "AtomicLoadAnd16",
   "AtomicLoadOr16", "AtomicLoadXor16"}
Once ==
  DOMAIN ByteOps \cup Atomic8 \cup WordAccesses \cup
  {"AtomicLoad8", "AtomicStore8", "AtomicFence", "PUSHWRr", "POPWRd", "SPWRITE"}

\* The rounds an instruction takes.
Rank(p) == IF p.op \in Twice THEN 2 ELSE IF p.op \in Once THEN 1 ELSE 0

IsSeq(c) == c \in Seq({c[k] : k \in DOMAIN c})

\* A sequence of whatever elements.
LEMMA SeqFacts ==
  ASSUME NEW T, NEW c \in Seq(T)
  PROVE  IsSeq(c) /\ Len(c) \in Nat /\ DOMAIN c = 1..Len(c)
<1>1. c \in [1..Len(c) -> {c[k] : k \in DOMAIN c}] /\ Len(c) \in Nat /\ DOMAIN c = 1..Len(c)
  OBVIOUS
<1>. QED
  BY <1>1 DEF IsSeq

LEMMA EmptyFacts == IsSeq(<< >>) /\ Len(<< >>) = 0
<1>1. << >> \in Seq({1})
  OBVIOUS
<1>. QED
  BY <1>1, SeqFacts

LEMMA OneFacts ==
  ASSUME NEW a
  PROVE  IsSeq(<<a>>) /\ Len(<<a>>) = 1 /\ <<a>>[1] = a
<1>1. <<a>> \in Seq({a}) /\ Len(<<a>>) = 1
  OBVIOUS
<1>. QED
  BY <1>1, SeqFacts

LEMMA TwoFacts ==
  ASSUME NEW a, NEW b
  PROVE  IsSeq(<<a, b>>) /\ Len(<<a, b>>) = 2 /\ <<a, b>>[1] = a /\ <<a, b>>[2] = b
<1>1. <<a, b>> \in Seq({a, b}) /\ Len(<<a, b>>) = 2
  OBVIOUS
<1>. QED
  BY <1>1, SeqFacts

LEMMA ThreeFacts ==
  ASSUME NEW a, NEW b, NEW c
  PROVE  /\ IsSeq(<<a, b, c>>) /\ Len(<<a, b, c>>) = 3
         /\ <<a, b, c>>[1] = a /\ <<a, b, c>>[2] = b /\ <<a, b, c>>[3] = c
<1>1. <<a, b, c>> \in Seq({a, b, c}) /\ Len(<<a, b, c>>) = 3
  OBVIOUS
<1>. QED
  BY <1>1, SeqFacts

LEMMA FiveFacts ==
  ASSUME NEW a, NEW b, NEW c, NEW d, NEW e
  PROVE  /\ IsSeq(<<a, b, c, d, e>>) /\ Len(<<a, b, c, d, e>>) = 5
         /\ <<a, b, c, d, e>>[1] = a /\ <<a, b, c, d, e>>[2] = b /\ <<a, b, c, d, e>>[3] = c
         /\ <<a, b, c, d, e>>[4] = d /\ <<a, b, c, d, e>>[5] = e
<1>1. <<a, b, c, d, e>> \in Seq({a, b, c, d, e}) /\ Len(<<a, b, c, d, e>>) = 5
  OBVIOUS
<1>. QED
  BY <1>1, SeqFacts

\* The instructions of two sequences, one after the other.
LEMMA Concat ==
  ASSUME NEW c, NEW d, IsSeq(c), IsSeq(d)
  PROVE  /\ IsSeq(c \o d) /\ Len(c \o d) = Len(c) + Len(d)
         /\ \A k \in 1..Len(c) : (c \o d)[k] = c[k]
         /\ \A k \in 1..Len(d) : (c \o d)[Len(c) + k] = d[k]
<1> DEFINE T == {c[k] : k \in DOMAIN c} \cup {d[k] : k \in DOMAIN d}
<1>1. c \in Seq(T) /\ d \in Seq(T)
  BY DEF IsSeq
<1>. HIDE DEF T
<1>2. c \o d \in Seq(T) /\ Len(c) \in Nat /\ Len(d) \in Nat
  BY <1>1
<1>3. /\ Len(c \o d) = Len(c) + Len(d)
      /\ \A k \in 1..Len(c) : (c \o d)[k] = c[k]
      /\ \A k \in 1..Len(d) : (c \o d)[Len(c) + k] = d[k]
  BY <1>1, <1>2
<1>4. IsSeq(c \o d)
  BY <1>2, SeqFacts
<1>. QED
  BY <1>3, <1>4

\* The byte instructions are none of the pseudos.
LEMMA ByteOpsAreNative ==
  ASSUME NEW op \in DOMAIN ByteOps
  PROVE  /\ ByteOps[op][1] \notin Once \cup Twice /\ ByteOps[op][2] \notin Once \cup Twice
BY DEF ByteOps, Once, Twice, Atomic8, WordAccesses

\* The byte instructions for the halves are no pseudos.
LEMMA HalvesAreNative ==
  ASSUME NEW p, p.op \in DOMAIN ByteOps
  PROVE  Rank(LoHalf(p)) = 0 /\ Rank(HiHalf(p)) = 0
<1>1. LoHalf(p).op = ByteOps[p.op][1] /\ HiHalf(p).op = ByteOps[p.op][2]
  BY DEF LoHalf, HiHalf, Half, MI
<1>. QED
  BY <1>1, ByteOpsAreNative DEF Rank

\* What a sequence is expanded to is of a lower rank.
Lower(c, r) == IsSeq(c) /\ Len(c) \in Nat /\ \A k \in 1..Len(c) : Rank(c[k]) <= r

LEMMA EmptyLower ==
  ASSUME NEW r
  PROVE  Lower(<< >>, r)
BY EmptyFacts DEF Lower

LEMMA OneLower ==
  ASSUME NEW r, NEW a, Rank(a) <= r
  PROVE  Lower(<<a>>, r)
<1>1. \A k \in 1..1 : k = 1
  OBVIOUS
<1>. QED
  BY <1>1, OneFacts DEF Lower

LEMMA TwoLower ==
  ASSUME NEW r, NEW a, NEW b, Rank(a) <= r, Rank(b) <= r
  PROVE  Lower(<<a, b>>, r)
<1>1. \A k \in 1..2 : k = 1 \/ k = 2
  OBVIOUS
<1>. QED
  BY <1>1, TwoFacts DEF Lower

LEMMA ThreeLower ==
  ASSUME NEW r, NEW a, NEW b, NEW c, Rank(a) <= r, Rank(b) <= r, Rank(c) <= r
  PROVE  Lower(<<a, b, c>>, r)
<1>1. \A k \in 1..3 : k = 1 \/ k = 2 \/ k = 3
  OBVIOUS
<1>. QED
  BY <1>1, ThreeFacts DEF Lower

LEMMA FiveLower ==
  ASSUME NEW r, NEW a, NEW b, NEW c, NEW d, NEW e,
         Rank(a) <= r, Rank(b) <= r, Rank(c) <= r, Rank(d) <= r, Rank(e) <= r
  PROVE  Lower(<<a, b, c, d, e>>, r)
<1>1. \A k \in 1..5 : k = 1 \/ k = 2 \/ k = 3 \/ k = 4 \/ k = 5
  OBVIOUS
<1>. QED
  BY <1>1, FiveFacts DEF Lower

\* An instruction that changes nothing is dropped.
LEMMA NeededLower ==
  ASSUME NEW q, Rank(q) = 0
  PROVE  Lower(Needed(q), 0)
<1>1. Rank(q) <= 0
  OBVIOUS
<1>. QED
  BY <1>1, EmptyLower, OneLower DEF Needed

\* The ranks of two sequences, one after the other.
LEMMA ConcatLower ==
  ASSUME NEW c, NEW d, NEW r, Lower(c, r), Lower(d, r)
  PROVE  Lower(c \o d, r)
<1>1. Len(c) \in Nat /\ Len(d) \in Nat
  BY DEF Lower
<1>2. ASSUME NEW k \in 1..(Len(c) + Len(d)) PROVE Rank((c \o d)[k]) <= r
  <2>1. CASE k <= Len(c)
    BY <1>1, <2>1, Concat DEF Lower
  <2>2. CASE k > Len(c)
    <3>1. k - Len(c) \in 1..Len(d) /\ k = Len(c) + (k - Len(c))
      BY <1>1, <2>2
    <3>. QED
      BY <3>1, Concat DEF Lower
  <2>. QED
    BY <1>1, <2>1, <2>2
<1>. QED
  BY <1>1, <1>2, Concat DEF Lower

\* expandArith, expandLogic and expandLogicImm make byte instructions.
LEMMA ByteWiseLower ==
  ASSUME NEW p, p.op \in DOMAIN ByteOps
  PROVE  Lower(ByteWise(p), 0)
<1>1. Lower(Needed(LoHalf(p)), 0) /\ Lower(Needed(HiHalf(p)), 0)
  BY HalvesAreNative, NeededLower
<1>. QED
  BY <1>1, ConcatLower DEF ByteWise

RankOfOp(op) == IF op \in Twice THEN 2 ELSE IF op \in Once THEN 1 ELSE 0

\* An instruction built from its parts.
LEMMA RankOfMI ==
  ASSUME NEW op, NEW d, NEW s, NEW k
  PROVE  /\ Rank(MI(op, d, s, k)) = RankOfOp(op) /\ MI(op, d, s, k).op = op
         /\ MI(op, d, s, k).d = d /\ MI(op, d, s, k).s = s /\ MI(op, d, s, k).k = k
BY DEF Rank, RankOfOp, MI

\* The ranks of the instructions expansions are made of.
LEMMA NativeOps ==
  ASSUME NEW op \in {"INRdA", "OUTARr", "BCLRs", "LDRdPtr", "LDDRdPtrQ", "LDRdPtrPi", "LDRdPtrPd",
                     "STPtrRr", "STDPtrQRr", "STPtrPiRr", "STPtrPdRr", "LDSRdK", "STSKRr",
                     "PHAstk", "POPRd", "MOVRdRr", "ADDRdRr", "SUBRdRr", "ANDRdRr", "ORRdRr",
                     "EORRdRr"}
  PROVE  RankOfOp(op) = 0
BY DEF RankOfOp, Twice, Once, ByteOps, Atomic8, WordAccesses

\* What an atomic operation protects needs one more round at most.
LEMMA InnerOps ==
  ASSUME NEW op \in {"LDWRdPtr", "STWPtrRr", "ADDWRdRr", "SUBWRdRr", "ANDWRdRr", "ORWRdRr",
                     "EORWRdRr"}
  PROVE  RankOfOp(op) = 1
BY DEF RankOfOp, Twice, Once, ByteOps, Atomic8, WordAccesses

\* expandAtomic adds instructions that are none of the pseudos.
LEMMA AtomicLower ==
  ASSUME NEW r \in Nat, NEW body, Lower(body, r)
  PROVE  Lower(Atomic(body), r)
<1>1. /\ Rank(MI("INRdA", "A", NoReg, P_ADDR)) <= r /\ Rank(MI("BCLRs", NoReg, NoReg, 7)) <= r
      /\ Rank(MI("OUTARr", NoReg, "A", P_ADDR)) <= r
  BY RankOfMI, NativeOps
<1>2. /\ Lower(<<MI("INRdA", "A", NoReg, P_ADDR), MI("BCLRs", NoReg, NoReg, 7)>>, r)
      /\ Lower(<<MI("OUTARr", NoReg, "A", P_ADDR)>>, r)
  BY <1>1, OneLower, TwoLower
<1>. QED
  BY <1>2, ConcatLower DEF Atomic

\* expandAtomicArithmeticOp lowers the rank.
LEMMA AtomicArithmeticLower ==
  ASSUME NEW p, p.op \in DOMAIN AtomicOps
  PROVE  Lower(AtomicArithmetic(p), Rank(p) - 1) /\ Rank(p) \in {1, 2}
<1> DEFINE r == IF p.op \in Atomic8 THEN 0 ELSE 1
           a == MI(IF p.op \in Atomic8 THEN "LDRdPtr" ELSE "LDWRdPtr", p.d, p.s, 0)
           b == MI(AtomicOps[p.op], p.d, p.s, 0)
           c == MI(IF p.op \in Atomic8 THEN "STPtrRr" ELSE "STWPtrRr", p.s, p.d, 0)
<1>1. Rank(a) <= r /\ Rank(c) <= r
  BY RankOfMI, NativeOps, InnerOps
<1>2. Rank(b) <= r
  <2>1. IF p.op \in Atomic8
          THEN AtomicOps[p.op] \in {"ADDRdRr", "SUBRdRr", "ANDRdRr", "ORRdRr", "EORRdRr"}
          ELSE AtomicOps[p.op] \in {"ADDWRdRr", "SUBWRdRr", "ANDWRdRr", "ORWRdRr", "EORWRdRr"}
    BY DEF AtomicOps, Atomic8
  <2>2. Rank(b) = RankOfOp(AtomicOps[p.op])
    BY RankOfMI
  <2>. QED
    BY <2>1, <2>2, NativeOps, InnerOps
<1>3. r = Rank(p) - 1 /\ Rank(p) \in {1, 2}
  BY DEF Rank, Twice, Once, AtomicOps, Atomic8, WordAccesses
<1>4. AtomicArithmetic(p) = Atomic(<<a, b, c>>)
  BY DEF AtomicArithmetic
<1>5. r \in Nat
  OBVIOUS
<1> HIDE DEF a, b, c, r
<1>. QED
  BY <1>1, <1>2, <1>3, <1>4, <1>5, ThreeLower, AtomicLower

\* Which expand<> a pseudo has.
LEMMA ExpansionByKind ==
  ASSUME NEW p
  PROVE  /\ p.op \in DOMAIN ByteOps => Expansion(p) = ByteWise(p)
         /\ p.op \in WordAccesses => Expansion(p) = Access(p)
         /\ p.op \in DOMAIN AtomicMoves =>
              Expansion(p) = Atomic(<<MI(AtomicMoves[p.op], p.d, p.s, 0)>>)
         /\ p.op \in DOMAIN AtomicOps => Expansion(p) = AtomicArithmetic(p)
         /\ p.op = "AtomicFence" => Expansion(p) = << >>
         /\ p.op = "PUSHWRr" => Expansion(p) = <<MI("PHAstk", NoReg, p.s, 0)>>
         /\ p.op = "POPWRd" => Expansion(p) = <<MI("POPRd", HiReg[p.d], NoReg, 0),
                                                MI("POPRd", LoReg[p.d], NoReg, 0)>>
         /\ p.op = "SPWRITE" => Expansion(p) = SPWrite(p)
         /\ Rank(p) = 0 => Expansion(p) = <<p>>
<1>1. /\ p.op \in DOMAIN ByteOps =>
           p.op \notin WordAccesses \cup DOMAIN AtomicMoves \cup DOMAIN AtomicOps
      /\ p.op \in WordAccesses => p.op \notin DOMAIN AtomicMoves \cup DOMAIN AtomicOps
      /\ p.op \in DOMAIN AtomicMoves => p.op \notin DOMAIN AtomicOps
  BY DEF ByteOps, WordAccesses, AtomicMoves, AtomicOps
<1>2. p.op \in {"AtomicFence", "PUSHWRr", "POPWRd", "SPWRITE"} =>
        p.op \notin DOMAIN ByteOps \cup WordAccesses \cup DOMAIN AtomicMoves \cup DOMAIN AtomicOps
  BY DEF ByteOps, WordAccesses, AtomicMoves, AtomicOps
<1>3. Rank(p) = 0 =>
        p.op \notin DOMAIN ByteOps \cup WordAccesses \cup DOMAIN AtomicMoves \cup DOMAIN AtomicOps
                      \cup {"AtomicFence", "PUSHWRr", "POPWRd", "SPWRITE"}
  BY DEF Rank, Once, Twice, AtomicMoves, AtomicOps, Atomic8
<1>4. ASSUME p.op \in DOMAIN ByteOps PROVE Expansion(p) = ByteWise(p)
  BY <1>1, <1>2, <1>4 DEF Expansion
<1>5. ASSUME p.op \in WordAccesses PROVE Expansion(p) = Access(p)
  BY <1>1, <1>2, <1>5 DEF Expansion
<1>6. ASSUME p.op \in DOMAIN AtomicMoves
      PROVE  Expansion(p) = Atomic(<<MI(AtomicMoves[p.op], p.d, p.s, 0)>>)
  BY <1>1, <1>2, <1>6 DEF Expansion
<1>7. ASSUME p.op \in DOMAIN AtomicOps PROVE Expansion(p) = AtomicArithmetic(p)
  BY <1>1, <1>2, <1>7 DEF Expansion
<1>8. p.op = "AtomicFence" => Expansion(p) = << >>
  BY <1>2 DEF Expansion
<1>9. p.op = "PUSHWRr" => Expansion(p) = <<MI("PHAstk", NoReg, p.s, 0)>>
  BY <1>2 DEF Expansion
<1>10. p.op = "POPWRd" =>
         Expansion(p) = <<MI("POPRd", HiReg[p.d], NoReg, 0), MI("POPRd", LoReg[p.d], NoReg, 0)>>
  BY <1>2 DEF Expansion
<1>11. p.op = "SPWRITE" => Expansion(p) = SPWrite(p)
  BY <1>2 DEF Expansion
<1>12. Rank(p) = 0 => Expansion(p) = <<p>>
  BY <1>3 DEF Expansion
<1>. QED
  BY <1>4, <1>5, <1>6, <1>7, <1>8, <1>9, <1>10, <1>11, <1>12

\* The expansions of loads and stores are instructions of bytes.
LEMMA AccessLower ==
  ASSUME NEW p
  PROVE  Lower(Access(p), 0)
<1>1. ASSUME NEW op \in {"LDRdPtr", "LDDRdPtrQ"} PROVE Lower(LoadDisplaced(p, op), 0)
  <2> DEFINE tmp == scavengeMainRegs(p)
             lo == MI(op, IF p.d = p.s THEN tmp ELSE LoReg[p.d], p.s, p.k)
             hi == MI("LDDRdPtrQ", IF p.d = p.s THEN tmp ELSE HiReg[p.d], p.s, p.k + 1)
             push == MI("PHAstk", NoReg, tmp, 0)
             move == MI("MOVRdRr", HiReg[p.d], tmp, 0)
             pop == MI("POPRd", LoReg[p.d], NoReg, 0)
  <2>1. Rank(lo) <= 0 /\ Rank(hi) <= 0 /\ Rank(push) <= 0 /\ Rank(move) <= 0 /\ Rank(pop) <= 0
    BY RankOfMI, NativeOps
  <2>2. LoadDisplaced(p, op) = IF p.d # p.s THEN <<lo, hi>> ELSE <<lo, push, hi, move, pop>>
    BY DEF LoadDisplaced
  <2>. HIDE DEF lo, hi, push, move, pop
  <2>. QED
    BY <2>1, <2>2, TwoLower, FiveLower
<1>2. ASSUME NEW op \in {"LDRdPtrPi", "LDRdPtrPd"} PROVE Lower(LoadMoving(p, op), 0)
  <2> DEFINE lo == MI(op, LoReg[p.d], p.s, 0)
             hi == MI(op, HiReg[p.d], p.s, 0)
  <2>1. Rank(lo) <= 0 /\ Rank(hi) <= 0
    BY RankOfMI, NativeOps
  <2>2. LoadMoving(p, op) = IF op = "LDRdPtrPd" THEN <<hi, lo>> ELSE <<lo, hi>>
    BY DEF LoadMoving
  <2>. HIDE DEF lo, hi
  <2>. QED
    BY <2>1, <2>2, TwoLower
<1>3. ASSUME NEW op \in {"STPtrPiRr", "STPtrPdRr"} PROVE Lower(StoreMoving(p, op), 0)
  <2> DEFINE lo == MI(op, p.d, LoReg[p.s], 0)
             hi == MI(op, p.d, HiReg[p.s], 0)
  <2>1. Rank(lo) <= 0 /\ Rank(hi) <= 0
    BY RankOfMI, NativeOps
  <2>2. StoreMoving(p, op) = IF op = "STPtrPdRr" THEN <<hi, lo>> ELSE <<lo, hi>>
    BY DEF StoreMoving
  <2>. HIDE DEF lo, hi
  <2>. QED
    BY <2>1, <2>2, TwoLower
<1>4. ASSUME NEW op \in {"STPtrRr", "STDPtrQRr"} PROVE Lower(StoreDisplaced(p, op), 0)
  <2> DEFINE lo == MI(op, p.d, LoReg[p.s], p.k)
             hi == MI("STDPtrQRr", p.d, HiReg[p.s], p.k + 1)
  <2>1. Rank(lo) <= 0 /\ Rank(hi) <= 0
    BY RankOfMI, NativeOps
  <2>2. StoreDisplaced(p, op) = <<lo, hi>>
    BY DEF StoreDisplaced
  <2>. HIDE DEF lo, hi
  <2>. QED
    BY <2>1, <2>2, TwoLower
<1>5. ASSUME NEW op \in {"LDSRdK", "INRdA"} PROVE Lower(LoadDirect(p, op), 0)
  <2> DEFINE lo == MI(op, LoReg[p.d], NoReg, p.k)
             hi == MI(op, HiReg[p.d], NoReg, p.k + 1)
  <2>1. Rank(lo) <= 0 /\ Rank(hi) <= 0
    BY RankOfMI, NativeOps
  <2>2. LoadDirect(p, op) = <<lo, hi>>
    BY DEF LoadDirect
  <2>. HIDE DEF lo, hi
  <2>. QED
    BY <2>1, <2>2, TwoLower
<1>6. ASSUME NEW op \in {"STSKRr", "OUTARr"} PROVE Lower(StoreDirect(p, op), 0)
  <2> DEFINE lo == MI(op, NoReg, LoReg[p.s], p.k)
             hi == MI(op, NoReg, HiReg[p.s], p.k + 1)
  <2>1. Rank(lo) <= 0 /\ Rank(hi) <= 0
    BY RankOfMI, NativeOps
  <2>2. StoreDirect(p, op) = <<hi, lo>>
    BY DEF StoreDirect
  <2>. HIDE DEF lo, hi
  <2>. QED
    BY <2>1, <2>2, TwoLower
<1>. QED
  BY <1>1, <1>2, <1>3, <1>4, <1>5, <1>6 DEF Access

\* So is that of SPWRITE.
LEMMA SPWriteLower ==
  ASSUME NEW p
  PROVE  Lower(SPWrite(p), 0)
<1> DEFINE a == MI("INRdA", "A", NoReg, P_ADDR)
           b == MI("BCLRs", NoReg, NoReg, 7)
           c == MI("OUTARr", NoReg, HiReg[p.s], SPH)
           d == MI("OUTARr", NoReg, "A", P_ADDR)
           e == MI("OUTARr", NoReg, LoReg[p.s], SPL)
<1>1. Rank(a) <= 0 /\ Rank(b) <= 0 /\ Rank(c) <= 0 /\ Rank(d) <= 0 /\ Rank(e) <= 0
  BY RankOfMI, NativeOps
<1>2. SPWrite(p) = <<a, b, c, d, e>>
  BY DEF SPWrite
<1>. HIDE DEF a, b, c, d, e
<1>. QED
  BY <1>1, <1>2, FiveLower

\* expandMI makes instructions that need a round less.
LEMMA ExpansionLowers ==
  ASSUME NEW p
  PROVE  /\ Rank(p) \in {0, 1, 2}
         /\ Rank(p) = 0 => Expansion(p) = <<p>>
         /\ Rank(p) # 0 => Lower(Expansion(p), Rank(p) - 1)
<1>1. Rank(p) \in {0, 1, 2}
  BY DEF Rank
<1>2. ASSUME p.op \in DOMAIN ByteOps PROVE Lower(Expansion(p), Rank(p) - 1)
  <2>1. Rank(p) - 1 = 0
    BY <1>2 DEF Rank, Once, Twice, ByteOps
  <2>. QED
    BY <1>2, <2>1, ExpansionByKind, ByteWiseLower
<1>3. ASSUME p.op \in WordAccesses PROVE Lower(Expansion(p), Rank(p) - 1)
  <2>1. Rank(p) - 1 = 0
    BY <1>3 DEF Rank, Once, Twice, WordAccesses
  <2>. QED
    BY <1>3, <2>1, ExpansionByKind, AccessLower
<1>4. ASSUME p.op \in DOMAIN AtomicMoves PROVE Lower(Expansion(p), Rank(p) - 1)
  <2> DEFINE q == MI(AtomicMoves[p.op], p.d, p.s, 0)
  <2>1. /\ p.op \in {"AtomicLoad8", "AtomicStore8"} =>
             Rank(p) = 1 /\ AtomicMoves[p.op] \in {"LDRdPtr", "STPtrRr"}
        /\ p.op \notin {"AtomicLoad8", "AtomicStore8"} =>
             Rank(p) = 2 /\ AtomicMoves[p.op] \in {"LDWRdPtr", "STWPtrRr"}
    BY <1>4 DEF Rank, Once, Twice, AtomicMoves
  <2>2. Rank(q) <= Rank(p) - 1 /\ Rank(p) - 1 \in Nat
    BY <2>1, RankOfMI, NativeOps, InnerOps
  <2>3. Expansion(p) = Atomic(<<q>>)
    BY <1>4, ExpansionByKind
  <2>. HIDE DEF q
  <2>. QED
    BY <2>2, <2>3, OneLower, AtomicLower
<1>5. ASSUME p.op \in DOMAIN AtomicOps PROVE Lower(Expansion(p), Rank(p) - 1)
  BY <1>5, ExpansionByKind, AtomicArithmeticLower
<1>6. ASSUME p.op \in {"AtomicFence", "PUSHWRr", "POPWRd", "SPWRITE"}
      PROVE  Lower(Expansion(p), Rank(p) - 1)
  <2>1. Rank(p) - 1 = 0
    BY <1>6 DEF Rank, Once, Twice
  <2>2. CASE p.op = "AtomicFence"
    BY <2>1, <2>2, ExpansionByKind, EmptyLower
  <2>3. CASE p.op = "PUSHWRr"
    <3>1. Rank(MI("PHAstk", NoReg, p.s, 0)) <= 0
      BY RankOfMI, NativeOps
    <3>. QED
      BY <2>1, <2>3, <3>1, ExpansionByKind, OneLower
  <2>4. CASE p.op = "POPWRd"
    <3>1. /\ Rank(MI("POPRd", HiReg[p.d], NoReg, 0)) <= 0
          /\ Rank(MI("POPRd", LoReg[p.d], NoReg, 0)) <= 0
      BY RankOfMI, NativeOps
    <3>. QED
      BY <2>1, <2>4, <3>1, ExpansionByKind, TwoLower
  <2>5. CASE p.op = "SPWRITE"
    BY <2>1, <2>5, ExpansionByKind, SPWriteLower
  <2>. QED
    BY <1>6, <2>2, <2>3, <2>4, <2>5
<1>7. Rank(p) # 0 => p.op \in DOMAIN ByteOps \cup WordAccesses \cup DOMAIN AtomicMoves
                       \cup DOMAIN AtomicOps \cup {"AtomicFence", "PUSHWRr", "POPWRd", "SPWRITE"}
  BY DEF Rank, Once, Twice, AtomicMoves, AtomicOps, Atomic8
<1>. QED
  BY <1>1, <1>2, <1>3, <1>4, <1>5, <1>6, <1>7, ExpansionByKind

\* An instruction is a pseudo if expandMI replaces it.
LEMMA PseudosHaveRank ==
  ASSUME NEW p
  PROVE  IsPseudo(p) <=> Rank(p) # 0
<1>1. ASSUME Rank(p) # 0, Expansion(p) = <<p>> PROVE FALSE
  <2>1. Lower(<<p>>, Rank(p) - 1) /\ Rank(p) \in {0, 1, 2}
    BY <1>1, ExpansionLowers
  <2>2. Rank(<<p>>[1]) <= Rank(p) - 1 /\ <<p>>[1] = p
    <3>1. 1 \in 1..Len(<<p>>)
      BY OneFacts
    <3>. QED
      BY <2>1, <3>1, OneFacts DEF Lower
  <2>. QED
    BY <2>1, <2>2
<1>. QED
  BY <1>1, ExpansionLowers DEF IsPseudo

\* Every expansion is a sequence of instructions.
LEMMA ExpansionIsSeq ==
  ASSUME NEW p
  PROVE  IsSeq(Expansion(p)) /\ Len(Expansion(p)) \in Nat
BY ExpansionLowers, OneFacts DEF Lower

Splice(d, x, e) == SubSeq(d, 1, x - 1) \o e \o SubSeq(d, x + 1, Len(d))

\* The part of a sequence before, and after, a position.
LEMMA SliceFacts ==
  ASSUME NEW d, IsSeq(d), NEW x \in 1..(Len(d) + 1), NEW y \in 0..Len(d), x <= y + 1
  PROVE  /\ Len(d) \in Nat
         /\ IsSeq(SubSeq(d, x, y)) /\ Len(SubSeq(d, x, y)) = y - x + 1
         /\ \A k \in 1..(y - x + 1) : SubSeq(d, x, y)[k] = d[x + k - 1]
<1> DEFINE T == {d[k] : k \in DOMAIN d}
<1>1. d \in Seq(T)
  BY DEF IsSeq
<1>. HIDE DEF T
<1>2. Len(d) \in Nat
  BY <1>1
<1>3. SubSeq(d, x, y) \in Seq(T) /\ Len(SubSeq(d, x, y)) = y - x + 1
      /\ \A k \in 1..(y - x + 1) : SubSeq(d, x, y)[k] = d[x + k - 1]
  BY <1>1, <1>2
<1>. QED
  BY <1>2, <1>3, SeqFacts

\* What becomes of the code when e replaces its x-th instruction.
LEMMA SpliceFacts ==
  ASSUME NEW d, NEW e, IsSeq(d), IsSeq(e), NEW x \in 1..Len(d)
  PROVE  /\ IsSeq(Splice(d, x, e)) /\ Len(Splice(d, x, e)) = Len(d) + Len(e) - 1
         /\ \A k \in 1..(x - 1) : Splice(d, x, e)[k] = d[k]
         /\ \A k \in 1..Len(e) : Splice(d, x, e)[x - 1 + k] = e[k]
         /\ \A k \in (x + 1)..Len(d) : Splice(d, x, e)[k + Len(e) - 1] = d[k]
<1> DEFINE a == SubSeq(d, 1, x - 1)
           b == SubSeq(d, x + 1, Len(d))
           ae == a \o e
<1>1. Len(d) \in Nat /\ Len(e) \in Nat
  BY DEF IsSeq
<1>2. IsSeq(a) /\ Len(a) = x - 1 /\ \A k \in 1..(x - 1) : a[k] = d[k]
  <2>1. /\ IsSeq(a) /\ Len(a) = (x - 1) - 1 + 1
        /\ \A k \in 1..((x - 1) - 1 + 1) : a[k] = d[1 + k - 1]
    BY <1>1, SliceFacts
  <2>. HIDE DEF a
  <2>. QED
    BY <2>1
<1>3. IsSeq(b) /\ Len(b) = Len(d) - x /\ \A k \in 1..(Len(d) - x) : b[k] = d[x + k]
  <2>1. /\ IsSeq(b) /\ Len(b) = Len(d) - (x + 1) + 1
        /\ \A k \in 1..(Len(d) - (x + 1) + 1) : b[k] = d[(x + 1) + k - 1]
    BY <1>1, SliceFacts
  <2>. HIDE DEF b
  <2>2. Len(d) - (x + 1) + 1 = Len(d) - x /\ \A k \in 1..(Len(d) - x) : (x + 1) + k - 1 = x + k
    BY <1>1
  <2>. QED
    BY <2>1, <2>2
<1>. HIDE DEF a, b
<1>4. /\ IsSeq(ae) /\ Len(ae) = x - 1 + Len(e)
      /\ \A k \in 1..(x - 1) : ae[k] = d[k]
      /\ \A k \in 1..Len(e) : ae[x - 1 + k] = e[k]
  <2>1. /\ IsSeq(a \o e) /\ Len(a \o e) = Len(a) + Len(e)
        /\ \A k \in 1..Len(a) : (a \o e)[k] = a[k]
        /\ \A k \in 1..Len(e) : (a \o e)[Len(a) + k] = e[k]
    BY <1>2, Concat
  <2>. QED
    BY <1>2, <2>1
<1>. HIDE DEF ae
<1>5. /\ IsSeq(ae \o b) /\ Len(ae \o b) = (x - 1 + Len(e)) + (Len(d) - x)
      /\ \A k \in 1..(x - 1 + Len(e)) : (ae \o b)[k] = ae[k]
      /\ \A k \in 1..(Len(d) - x) : (ae \o b)[(x - 1 + Len(e)) + k] = d[x + k]
  <2>1. /\ IsSeq(ae \o b) /\ Len(ae \o b) = Len(ae) + Len(b)
        /\ \A k \in 1..Len(ae) : (ae \o b)[k] = ae[k]
        /\ \A k \in 1..Len(b) : (ae \o b)[Len(ae) + k] = b[k]
    <3>1. IsSeq(ae) /\ IsSeq(b)
      BY <1>3, <1>4
    <3>. QED
      BY <3>1, Concat
  <2>. QED
    BY <1>3, <1>4, <2>1
<1>6. Splice(d, x, e) = ae \o b
  BY DEF Splice, ae, a, b
<1> DEFINE r == ae \o b
<1>. HIDE DEF r
<1>7. Splice(d, x, e) = r
  BY <1>6 DEF r
<1>8. /\ IsSeq(r) /\ Len(r) = (x - 1 + Len(e)) + (Len(d) - x)
      /\ \A k \in 1..(x - 1 + Len(e)) : r[k] = ae[k]
      /\ \A k \in 1..(Len(d) - x) : r[(x - 1 + Len(e)) + k] = d[x + k]
  BY <1>5 DEF r
<1>9. \A k \in 1..(x - 1) : r[k] = d[k]
  <2>1. \A k \in 1..(x - 1) : k \in 1..(x - 1 + Len(e))
    BY <1>1
  <2>. QED
    BY <1>4, <1>8, <2>1
<1>10. \A k \in 1..Len(e) : r[x - 1 + k] = e[k]
  <2>1. \A k \in 1..Len(e) : x - 1 + k \in 1..(x - 1 + Len(e))
    BY <1>1
  <2>. QED
    BY <1>4, <1>8, <2>1
<1>11. \A k \in (x + 1)..Len(d) : r[k + Len(e) - 1] = d[k]
  <2>1. ASSUME NEW k \in (x + 1)..Len(d) PROVE r[k + Len(e) - 1] = d[k]
    <3>1. k - x \in 1..(Len(d) - x) /\ (x - 1 + Len(e)) + (k - x) = k + Len(e) - 1 /\ x + (k - x) = k
      BY <1>1
    <3>. QED
      BY <1>8, <3>1
  <2>. QED
    BY <2>1
<1>12. Len(r) = Len(d) + Len(e) - 1
  BY <1>1, <1>8
<1>. QED
  BY <1>7, <1>8, <1>9, <1>10, <1>11, <1>12

----------------------------------------------------------------------------
(***************************************************************************)
(* The pass: each round lowers the ranks, so three are enough.             *)
(***************************************************************************)
\* In round r, behind the iterator nothing has rank 2 - r any more.
Settling ==
  /\ \A k \in 1..(at - 1) : Rank(code[k]) = 0 \/ Rank(code[k]) < 2 - round
  /\ \A k \in at..Len(code) : Rank(code[k]) <= 2 - round
  /\ modified => round < 2
  /\ ~modified => \A k \in 1..(at - 1) : Rank(code[k]) = 0

PassInv ==
  /\ IsSeq(code) /\ at \in 1..(Len(code) + 1) /\ round \in 0..2 /\ modified \in BOOLEAN
  /\ phase \in {"expand", "run", "done"}
  /\ phase = "expand" => Settling
  /\ phase # "expand" => \A k \in 1..Len(code) : Rank(code[k]) = 0

\* What is left when the block runs, and that the limit is never reached.
Settled == phase # "assert" /\ (phase = "run" => \A k \in 1..Len(code) : ~IsPseudo(code[k]))

\* The pass starts with a block of rank two at most.
LEMMA PassInvInit == ASSUME Init PROVE PassInv
<1>1. IsSeq(program) /\ Len(program) \in Nat
  <2>1. program \in Seq({program[k] : k \in DOMAIN program})
    BY ExpandAssumption DEF Init
  <2>. QED
    BY <2>1, SeqFacts
<1>2. \A k \in 1..Len(code) : Rank(code[k]) <= 2 - 0
  BY ExpansionLowers
<1>3. code = program /\ at = 1 /\ round = 0 /\ modified = FALSE /\ phase = "expand"
  BY DEF Init
<1>4. Settling
  BY <1>1, <1>2, <1>3 DEF Settling
<1>5. IsSeq(code) /\ at \in 1..(Len(code) + 1) /\ round \in 0..2
  BY <1>1, <1>3
<1>6. modified \in BOOLEAN /\ phase \in {"expand", "run", "done"}
  BY <1>3
<1>. QED
  BY <1>3, <1>4, <1>5, <1>6 DEF PassInv

\* expandMI keeps the ranks, and what is behind it is lower.
LEMMA PassInvExpand ==
  ASSUME PassInv, ExpandMI
  PROVE  PassInv'
<1> DEFINE p == code[at]
           e == Expansion(p)
<1>1. /\ phase = "expand" /\ at \in 1..Len(code) /\ Len(code) \in Nat /\ IsSeq(code) /\ Settling
      /\ round \in 0..2 /\ modified \in BOOLEAN
  BY SeqFacts DEF PassInv, ExpandMI, IsSeq
<1>2. IsSeq(e) /\ Len(e) \in Nat
  BY ExpansionIsSeq
<1>3. code' = Splice(code, at, e) /\ at' = at + Len(code') - Len(code) + 1
  BY DEF ExpandMI, Splice
<1>4. phase' = phase /\ round' = round /\ modified' = (modified \/ IsPseudo(p))
  BY DEF ExpandMI
<1>5. /\ Rank(p) \in {0, 1, 2} /\ Rank(p) <= 2 - round
      /\ Rank(p) = 0 => e = <<p>>
      /\ Rank(p) # 0 => \A k \in 1..Len(e) : Rank(e[k]) <= Rank(p) - 1
      /\ IsPseudo(p) <=> Rank(p) # 0
      /\ \A k \in 1..Len(e) : Rank(e[k]) \in {0, 1, 2}
  BY <1>1, ExpansionLowers, PseudosHaveRank DEF Settling, Lower
<1>6. Rank(p) = 0 => Len(e) = 1 /\ e[1] = p
  BY <1>5, OneFacts
<1>. HIDE DEF e, p
<1>7. /\ IsSeq(code') /\ Len(code') = Len(code) + Len(e) - 1
      /\ \A k \in 1..(at - 1) : code'[k] = code[k]
      /\ \A k \in 1..Len(e) : code'[at - 1 + k] = e[k]
      /\ \A k \in (at + 1)..Len(code) : code'[k + Len(e) - 1] = code[k]
  <2>1. at \in 1..Len(code) /\ IsSeq(code) /\ IsSeq(e)
    BY <1>1, <1>2
  <2>2. /\ IsSeq(Splice(code, at, e)) /\ Len(Splice(code, at, e)) = Len(code) + Len(e) - 1
        /\ \A k \in 1..(at - 1) : Splice(code, at, e)[k] = code[k]
        /\ \A k \in 1..Len(e) : Splice(code, at, e)[at - 1 + k] = e[k]
        /\ \A k \in (at + 1)..Len(code) : Splice(code, at, e)[k + Len(e) - 1] = code[k]
    BY <2>1, SpliceFacts
  <2>. QED
    BY <1>3, <2>2
<1>8. at' = at + Len(e) /\ at' \in 1..(Len(code') + 1)
  BY <1>1, <1>2, <1>3, <1>7
<1>9. ASSUME NEW k \in 1..(at' - 1)
      PROVE  /\ Rank(code'[k]) = 0 \/ Rank(code'[k]) < 2 - round
             /\ ~modified' => Rank(code'[k]) = 0
  <2>1. CASE k < at
    BY <1>1, <1>4, <1>7, <2>1 DEF Settling
  <2>2. CASE k >= at
    <3> DEFINE j == k - (at - 1)
    <3>1. j \in 1..Len(e) /\ at - 1 + j = k
      BY <1>1, <1>2, <1>8, <2>2
    <3>. HIDE DEF j
    <3>2. code'[k] = e[j] /\ Rank(e[j]) \in {0, 1, 2}
      BY <1>5, <1>7, <3>1
    <3>3. CASE Rank(p) = 0
      <4>1. Rank(e[j]) = 0
        <5>1. Len(e) = 1 /\ e[1] = p
          BY <1>6, <3>3
        <5>2. j = 1
          BY <3>1, <5>1
        <5>. QED
          BY <3>3, <5>1, <5>2
      <4>. QED
        BY <3>2, <4>1
    <3>4. CASE Rank(p) # 0
      <4>1. Rank(e[j]) <= Rank(p) - 1 /\ modified'
        BY <1>4, <1>5, <3>1, <3>4
      <4>. QED
        BY <1>1, <1>5, <3>2, <4>1
    <3>. QED
      BY <3>3, <3>4
  <2>. QED
    BY <1>1, <1>8, <2>1, <2>2
<1>10. ASSUME NEW k \in at'..Len(code') PROVE Rank(code'[k]) <= 2 - round
  <2> DEFINE j == k - Len(e) + 1
  <2>1. j \in (at + 1)..Len(code) /\ j + Len(e) - 1 = k
    BY <1>1, <1>2, <1>7, <1>8
  <2>. HIDE DEF j
  <2>2. code'[k] = code[j]
    BY <1>7, <2>1
  <2>3. j \in at..Len(code)
    BY <1>1, <2>1
  <2>4. Rank(code[j]) <= 2 - round
    BY <1>1, <2>3 DEF Settling
  <2>. QED
    BY <2>2, <2>4
<1>11. modified' => round < 2
  BY <1>1, <1>4, <1>5 DEF Settling
<1>12. Settling'
  BY <1>4, <1>9, <1>10, <1>11 DEF Settling
<1>. QED
  BY <1>1, <1>4, <1>5, <1>7, <1>8, <1>12 DEF PassInv

\* So does every step.
LEMMA PassInvStep ==
  ASSUME PassInv, [Next]_vars
  PROVE  PassInv'
<1>0. Len(code) \in Nat
  BY SeqFacts DEF PassInv, IsSeq
<1>1. CASE ExpandMI
  BY <1>1, PassInvExpand
<1>2. CASE NextRound
  <2>1. /\ at = Len(code) + 1 /\ round < 2 /\ Settling /\ phase = "expand"
    BY <1>0, <1>2 DEF NextRound, PassInv, Settling
  <2>2. /\ round' = round + 1 /\ at' = 1 /\ code' = code /\ phase' = "expand" /\ modified' = FALSE
    BY <1>2, <2>1 DEF NextRound, PassInv
  <2>3. ASSUME NEW k \in 1..Len(code) PROVE Rank(code[k]) <= 2 - round'
    <3>1. Rank(code[k]) = 0 \/ Rank(code[k]) < 2 - round
      BY <1>0, <2>1 DEF Settling
    <3>. QED
      BY <2>1, <2>2, <3>1, ExpansionLowers DEF PassInv
  <2>4. round' \in 0..2
    BY <2>1, <2>2 DEF PassInv
  <2>5. Settling'
    BY <1>0, <2>2, <2>3 DEF Settling
  <2>6. at' \in 1..(Len(code') + 1) /\ IsSeq(code')
    BY <1>0, <2>2 DEF PassInv
  <2>7. modified' \in BOOLEAN /\ phase' = "expand"
    BY <2>2
  <2>. QED
    BY <2>4, <2>5, <2>6, <2>7 DEF PassInv
<1>3. CASE StartRun
  BY <1>0, <1>3 DEF StartRun, PassInv, Settling
<1>4. CASE Step
  BY <1>0, <1>4 DEF Step, PassInv
<1>5. CASE Halt
  BY <1>5 DEF Halt, pass, PassInv
<1>6. CASE Interrupt
  BY <1>6 DEF Interrupt, Interruptible, pass, PassInv, Settling
<1>7. CASE DeviceTick
  BY <1>7 DEF DeviceTick, pass, PassInv, Settling
<1>8. CASE Stopped \/ UNCHANGED vars
  BY <1>8 DEF Stopped, vars, pass, PassInv, Settling
<1>. QED
  BY <1>1, <1>2, <1>3, <1>4, <1>5, <1>6, <1>7, <1>8 DEF Next, Run

\* "pseudo expand limit reached" is never asserted: expandMBB ends within three
\* rounds, and no pseudo is left in the block that runs.
THEOREM PassSettles == Spec => []Settled
<1>1. Init => PassInv
  BY PassInvInit
<1>2. PassInv /\ [Next]_vars => PassInv'
  BY PassInvStep
<1>3. PassInv => Settled
  BY PseudosHaveRank DEF PassInv, Settled
<1>. QED
  BY <1>1, <1>2, <1>3, PTL DEF Spec

----------------------------------------------------------------------------
(***************************************************************************)
(* The instructions an expansion is made of, whatever their order.         *)
(***************************************************************************)
Members(c) == {c[k] : k \in 1..Len(c)}

TwoLoads(p, lo, hi, s, k, l) == {MI(lo, LoReg[p.d], s, k), MI(hi, HiReg[p.d], s, l)}
TwoStores(p, lo, hi, d, k, l) == {MI(lo, d, LoReg[p.s], k), MI(hi, d, HiReg[p.s], l)}

AccessParts(p) ==
  CASE p.op = "LDWRdPtr" -> TwoLoads(p, "LDRdPtr", "LDDRdPtrQ", p.s, p.k, p.k + 1)
    [] p.op = "LDDWRdPtrQ" -> TwoLoads(p, "LDDRdPtrQ", "LDDRdPtrQ", p.s, p.k, p.k + 1)
    [] p.op = "LDWRdPtrPi" -> TwoLoads(p, "LDRdPtrPi", "LDRdPtrPi", p.s, 0, 0)
    [] p.op = "LDWRdPtrPd" -> TwoLoads(p, "LDRdPtrPd", "LDRdPtrPd", p.s, 0, 0)
    [] p.op = "LDSWRdK" -> TwoLoads(p, "LDSRdK", "LDSRdK", NoReg, p.k, p.k + 1)
    [] p.op = "INWRdA" -> TwoLoads(p, "INRdA", "INRdA", NoReg, p.k, p.k + 1)
    [] p.op = "STSWKRr" -> TwoStores(p, "STSKRr", "STSKRr", NoReg, p.k, p.k + 1)
    [] p.op = "OUTWARr" -> TwoStores(p, "OUTARr", "OUTARr", NoReg, p.k, p.k + 1)
    [] p.op = "STWPtrRr" -> TwoStores(p, "STPtrRr", "STDPtrQRr", p.d, p.k, p.k + 1)
    [] p.op = "STDWPtrQRr" -> TwoStores(p, "STDPtrQRr", "STDPtrQRr", p.d, p.k, p.k + 1)
    [] p.op = "STWPtrPiRr" -> TwoStores(p, "STPtrPiRr", "STPtrPiRr", p.d, 0, 0)
    [] OTHER -> TwoStores(p, "STPtrPdRr", "STPtrPdRr", p.d, 0, 0)

AtomicParts ==
  {MI("INRdA", "A", NoReg, P_ADDR), MI("BCLRs", NoReg, NoReg, 7), MI("OUTARr", NoReg, "A", P_ADDR)}

ArithmeticParts(p) ==
  {MI(IF p.op \in Atomic8 THEN "LDRdPtr" ELSE "LDWRdPtr", p.d, p.s, 0),
   MI(AtomicOps[p.op], p.d, p.s, 0),
   MI(IF p.op \in Atomic8 THEN "STPtrRr" ELSE "STWPtrRr", p.s, p.d, 0)}

SPWriteParts(p) ==
  AtomicParts \cup {MI("OUTARr", NoReg, HiReg[p.s], SPH), MI("OUTARr", NoReg, LoReg[p.s], SPL)}

LEMMA NoMembers == Members(<< >>) = {}
BY EmptyFacts DEF Members

LEMMA OneMember ==
  ASSUME NEW a
  PROVE  Members(<<a>>) = {a}
<1>1. 1..1 = {1}
  OBVIOUS
<1>. QED
  BY <1>1, OneFacts DEF Members

LEMMA TwoMembers ==
  ASSUME NEW a, NEW b
  PROVE  Members(<<a, b>>) = {a, b}
<1>1. 1..2 = {1, 2}
  OBVIOUS
<1>. QED
  BY <1>1, TwoFacts DEF Members

LEMMA ThreeMembers ==
  ASSUME NEW a, NEW b, NEW c
  PROVE  Members(<<a, b, c>>) = {a, b, c}
<1>1. 1..3 = {1, 2, 3}
  OBVIOUS
<1>. QED
  BY <1>1, ThreeFacts DEF Members

LEMMA FiveMembers ==
  ASSUME NEW a, NEW b, NEW c, NEW d, NEW e
  PROVE  Members(<<a, b, c, d, e>>) = {a, b, c, d, e}
<1>1. 1..5 = {1, 2, 3, 4, 5}
  OBVIOUS
<1>. QED
  BY <1>1, FiveFacts DEF Members

LEMMA ConcatMembers ==
  ASSUME NEW c, NEW d, IsSeq(c), IsSeq(d)
  PROVE  Members(c \o d) \subseteq Members(c) \cup Members(d)
<1>1. Len(c) \in Nat /\ Len(d) \in Nat /\ Len(c \o d) = Len(c) + Len(d)
  BY Concat DEF IsSeq
<1>2. ASSUME NEW k \in 1..(Len(c) + Len(d)) PROVE (c \o d)[k] \in Members(c) \cup Members(d)
  <2>1. CASE k <= Len(c)
    BY <1>1, <2>1, Concat DEF Members
  <2>2. CASE k > Len(c)
    <3>1. k - Len(c) \in 1..Len(d) /\ k = Len(c) + (k - Len(c))
      BY <1>1, <2>2
    <3>. QED
      BY <3>1, Concat DEF Members
  <2>. QED
    BY <1>1, <2>1, <2>2
<1>. QED
  BY <1>1, <1>2 DEF Members

\* The instructions of expandArith, expandLogic and expandLogicImm.
LEMMA ByteWiseMembers ==
  ASSUME NEW p
  PROVE  Members(ByteWise(p)) \subseteq {LoHalf(p), HiHalf(p)}
<1>1. \A q : IsSeq(Needed(q)) /\ Members(Needed(q)) \subseteq {q}
  BY EmptyFacts, OneFacts, NoMembers, OneMember DEF Needed
<1>. QED
  BY <1>1, ConcatMembers DEF ByteWise

\* The instructions of expandAtomic.
LEMMA AtomicMembers ==
  ASSUME NEW body, IsSeq(body)
  PROVE  Members(Atomic(body)) \subseteq AtomicParts \cup Members(body)
<1> DEFINE a == MI("INRdA", "A", NoReg, P_ADDR)
           b == MI("BCLRs", NoReg, NoReg, 7)
           c == MI("OUTARr", NoReg, "A", P_ADDR)
<1>1. Atomic(body) = (<<a, b>> \o body) \o <<c>> /\ AtomicParts = {a, b, c}
  BY DEF Atomic, AtomicParts
<1>. HIDE DEF a, b, c
<1>2. IsSeq(<<a, b>> \o body) /\ Members(<<a, b>> \o body) \subseteq {a, b} \cup Members(body)
  <2>1. IsSeq(<<a, b>>) /\ Members(<<a, b>>) = {a, b}
    BY TwoFacts, TwoMembers
  <2>2. IsSeq(<<a, b>> \o body)
    BY <2>1, Concat
  <2>3. Members(<<a, b>> \o body) \subseteq Members(<<a, b>>) \cup Members(body)
    BY <2>1, ConcatMembers
  <2>. QED
    BY <2>1, <2>2, <2>3
<1>3. Members((<<a, b>> \o body) \o <<c>>) \subseteq Members(<<a, b>> \o body) \cup {c}
  <2>1. IsSeq(<<c>>) /\ Members(<<c>>) = {c}
    BY OneFacts, OneMember
  <2>. QED
    BY <1>2, <2>1, ConcatMembers
<1>. QED
  BY <1>1, <1>2, <1>3

\* The instructions of loads and stores.
LEMMA AccessMembers ==
  ASSUME NEW p, p.op \in WordAccesses, p.op \in {"LDWRdPtr", "LDDWRdPtrQ"} => p.d # p.s
  PROVE  Members(Access(p)) \subseteq AccessParts(p)
<1>1. ASSUME NEW a, NEW b PROVE Members(<<a, b>>) = {a, b}
  BY TwoMembers
<1>2. CASE p.op = "LDWRdPtr"
  BY <1>1, <1>2 DEF Access, AccessParts, LoadDisplaced, TwoLoads
<1>3. CASE p.op = "LDDWRdPtrQ"
  BY <1>1, <1>3 DEF Access, AccessParts, LoadDisplaced, TwoLoads
<1>4. CASE p.op = "LDWRdPtrPi"
  BY <1>1, <1>4 DEF Access, AccessParts, LoadMoving, TwoLoads
<1>5. CASE p.op = "LDWRdPtrPd"
  BY <1>1, <1>5 DEF Access, AccessParts, LoadMoving, TwoLoads
<1>6. CASE p.op = "LDSWRdK"
  BY <1>1, <1>6 DEF Access, AccessParts, LoadDirect, TwoLoads
<1>7. CASE p.op = "INWRdA"
  BY <1>1, <1>7 DEF Access, AccessParts, LoadDirect, TwoLoads
<1>8. CASE p.op = "STSWKRr"
  BY <1>1, <1>8 DEF Access, AccessParts, StoreDirect, TwoStores
<1>9. CASE p.op = "OUTWARr"
  BY <1>1, <1>9 DEF Access, AccessParts, StoreDirect, TwoStores
<1>10. CASE p.op = "STWPtrRr"
  BY <1>1, <1>10 DEF Access, AccessParts, StoreDisplaced, TwoStores
<1>11. CASE p.op = "STDWPtrQRr"
  BY <1>1, <1>11 DEF Access, AccessParts, StoreDisplaced, TwoStores
<1>12. CASE p.op = "STWPtrPiRr"
  BY <1>1, <1>12 DEF Access, AccessParts, StoreMoving, TwoStores
<1>13. CASE p.op = "STWPtrPdRr"
  BY <1>1, <1>13 DEF Access, AccessParts, StoreMoving, TwoStores
<1>. QED
  BY <1>2, <1>3, <1>4, <1>5, <1>6, <1>7, <1>8, <1>9, <1>10, <1>11, <1>12, <1>13 DEF WordAccesses

\* What expandMI makes of each kind of pseudo.
LEMMA ExpansionParts ==
  ASSUME NEW p, NEW q \in Members(Expansion(p)),
         p.op \in {"LDWRdPtr", "LDDWRdPtrQ"} => p.d # p.s
  PROVE  /\ p.op \in DOMAIN ByteOps => q \in {LoHalf(p), HiHalf(p)}
         /\ p.op \in WordAccesses => q \in AccessParts(p)
         /\ p.op \in DOMAIN AtomicMoves =>
              q \in AtomicParts \cup {MI(AtomicMoves[p.op], p.d, p.s, 0)}
         /\ p.op \in DOMAIN AtomicOps => q \in AtomicParts \cup ArithmeticParts(p)
         /\ p.op # "AtomicFence"
         /\ p.op = "PUSHWRr" => q = MI("PHAstk", NoReg, p.s, 0)
         /\ p.op = "POPWRd" =>
              q \in {MI("POPRd", HiReg[p.d], NoReg, 0), MI("POPRd", LoReg[p.d], NoReg, 0)}
         /\ p.op = "SPWRITE" => q \in SPWriteParts(p)
         /\ Rank(p) = 0 => q = p
<1>1. ASSUME p.op \in DOMAIN ByteOps PROVE q \in {LoHalf(p), HiHalf(p)}
  BY <1>1, ExpansionByKind, ByteWiseMembers
<1>2. ASSUME p.op \in WordAccesses PROVE q \in AccessParts(p)
  BY <1>2, ExpansionByKind, AccessMembers
<1>3. ASSUME p.op \in DOMAIN AtomicMoves
      PROVE  q \in AtomicParts \cup {MI(AtomicMoves[p.op], p.d, p.s, 0)}
  <2> DEFINE r == MI(AtomicMoves[p.op], p.d, p.s, 0)
  <2>1. Expansion(p) = Atomic(<<r>>)
    BY <1>3, ExpansionByKind
  <2>. HIDE DEF r
  <2>2. IsSeq(<<r>>) /\ Members(<<r>>) = {r}
    BY OneFacts, OneMember
  <2>3. q \in AtomicParts \cup {r}
    BY <2>1, <2>2, AtomicMembers
  <2>. QED
    BY <2>3 DEF r
<1>4. ASSUME p.op \in DOMAIN AtomicOps PROVE q \in AtomicParts \cup ArithmeticParts(p)
  <2> DEFINE a == MI(IF p.op \in Atomic8 THEN "LDRdPtr" ELSE "LDWRdPtr", p.d, p.s, 0)
             b == MI(AtomicOps[p.op], p.d, p.s, 0)
             c == MI(IF p.op \in Atomic8 THEN "STPtrRr" ELSE "STWPtrRr", p.s, p.d, 0)
  <2>1. Expansion(p) = Atomic(<<a, b, c>>) /\ ArithmeticParts(p) = {a, b, c}
    BY <1>4, ExpansionByKind DEF AtomicArithmetic, ArithmeticParts
  <2>. HIDE DEF a, b, c
  <2>2. IsSeq(<<a, b, c>>)
    BY ThreeFacts
  <2>3. Members(<<a, b, c>>) = {a, b, c}
    BY ThreeMembers
  <2>. QED
    BY <2>1, <2>2, <2>3, AtomicMembers
<1>5. p.op # "AtomicFence"
  BY ExpansionByKind, NoMembers
<1>6. ASSUME p.op = "PUSHWRr" PROVE q = MI("PHAstk", NoReg, p.s, 0)
  BY <1>6, ExpansionByKind, OneMember
<1>7. ASSUME p.op = "POPWRd"
      PROVE  q \in {MI("POPRd", HiReg[p.d], NoReg, 0), MI("POPRd", LoReg[p.d], NoReg, 0)}
  BY <1>7, ExpansionByKind, TwoMembers
<1>8. ASSUME p.op = "SPWRITE" PROVE q \in SPWriteParts(p)
  <2> DEFINE a == MI("INRdA", "A", NoReg, P_ADDR)
             b == MI("BCLRs", NoReg, NoReg, 7)
             c == MI("OUTARr", NoReg, HiReg[p.s], SPH)
             d == MI("OUTARr", NoReg, "A", P_ADDR)
             e == MI("OUTARr", NoReg, LoReg[p.s], SPL)
  <2>1. Expansion(p) = <<a, b, c, d, e>> /\ SPWriteParts(p) = {a, b, d} \cup {c, e}
    BY <1>8, ExpansionByKind DEF SPWrite, SPWriteParts, AtomicParts
  <2>. HIDE DEF a, b, c, d, e
  <2>2. Members(<<a, b, c, d, e>>) = {a, b, c, d, e}
    BY FiveMembers
  <2>. QED
    BY <2>1, <2>2
<1>9. ASSUME Rank(p) = 0 PROVE q = p
  BY <1>9, ExpansionByKind, OneMember
<1>. QED
  BY <1>1, <1>2, <1>3, <1>4, <1>5, <1>6, <1>7, <1>8, <1>9

----------------------------------------------------------------------------
(***************************************************************************)
(* Registers the block does not change are kept by every instruction.      *)
(***************************************************************************)
LEMMA HalfRegisters ==
  /\ \A r \in WordRegs : LoReg[r] \in ByteRegs /\ HiReg[r] \in ByteRegs /\ LoReg[r] # HiReg[r]
  /\ \A r, t \in WordRegs : r # t => /\ LoReg[r] # LoReg[t] /\ LoReg[r] # HiReg[t]
                                     /\ HiReg[r] # HiReg[t] /\ HiReg[r] # LoReg[t]
  /\ \A r, t \in WordRegs : r # LoReg[t] /\ r # HiReg[t]
BY DEF WordRegs, LoReg, HiReg, ByteRegs

\* None of the operations in an expansion needs more than its operands.
LEMMA PartOps ==
  ASSUME NEW op \in {"INRdA", "OUTARr", "BCLRs", "LDRdPtr", "LDDRdPtrQ", "LDRdPtrPi", "LDRdPtrPd",
                     "STPtrRr", "STDPtrQRr", "STPtrPiRr", "STPtrPdRr", "LDSRdK", "STSKRr",
                     "PHAstk", "POPRd", "LDIRdK"} \cup DOMAIN ByteKind \cup DOMAIN AccumulatorKind,
         NEW d, NEW s, NEW k
  PROVE  /\ ~IsPseudo(MI(op, d, s, k)) /\ op \in ByteInstrs
         /\ ~UsesScratch(MI(op, d, s, k))
<1>1. op \notin Once \cup Twice
  BY DEF Twice, Once, ByteOps, Atomic8, WordAccesses, ByteKind, AccumulatorKind
<1>2. Rank(MI(op, d, s, k)) = 0
  BY <1>1, RankOfMI DEF RankOfOp
<1>3. op \in ByteInstrs
  BY DEF ByteInstrs, Loads, Stores
<1>4. op \notin DOMAIN AtomicOps \cup DOMAIN AtomicMoves \cup {"SPWRITE"}
  BY DEF AtomicOps, AtomicMoves, ByteKind, AccumulatorKind
<1>. QED
  BY <1>2, <1>3, <1>4, PseudosHaveRank, RankOfMI DEF UsesScratch

\* The opcodes of an atomic read-modify-write.
LEMMA InnerPartOps ==
  ASSUME NEW op \in {"LDWRdPtr", "STWPtrRr", "ADDWRdRr", "SUBWRdRr", "ANDWRdRr", "ORWRdRr",
                     "EORWRdRr"},
         NEW d, NEW s, NEW k
  PROVE  /\ IsPseudo(MI(op, d, s, k)) /\ ~UsesScratch(MI(op, d, s, k))
         /\ op \notin MovesSource \cup MovesDest
<1>1. Rank(MI(op, d, s, k)) = 1
  BY RankOfMI, InnerOps
<1>2. op \notin DOMAIN AtomicOps \cup DOMAIN AtomicMoves \cup {"SPWRITE"}
  BY DEF AtomicOps, AtomicMoves
<1>. QED
  BY <1>1, <1>2, PseudosHaveRank, RankOfMI DEF UsesScratch, MovesSource, MovesDest

ResultOps ==
  {"LDRdPtr", "LDDRdPtrQ", "LDRdPtrPi", "LDRdPtrPd", "LDSRdK", "INRdA", "POPRd", "LDIRdK"}
    \cup DOMAIN ByteKind

\* An instruction with a result in a part of d, through the pointer s.
LEMMA ResultKeeps ==
  ASSUME NEW op \in ResultOps, NEW d \in WordRegs, NEW h \in PartsOf(d), NEW s, NEW k,
         op \in MovesSource => s \in WordRegs
  PROVE  /\ Fits(MI(op, h, s, k))
         /\ \A r \in WordRegs : r # d /\ (op \in MovesSource => r # s) => Keeps(MI(op, h, s, k), r)
<1>1. /\ MI(op, h, s, k).op = op /\ MI(op, h, s, k).d = h /\ MI(op, h, s, k).s = s
      /\ ~IsPseudo(MI(op, h, s, k)) /\ op \in ByteInstrs /\ ~UsesScratch(MI(op, h, s, k))
  <2>1. /\ ~IsPseudo(MI(op, h, s, k)) /\ op \in ByteInstrs /\ ~UsesScratch(MI(op, h, s, k))
    BY PartOps DEF ResultOps
  <2>. QED
    BY <2>1, RankOfMI
<1>2. /\ op \notin MovesDest /\ op \notin OnAccumulator
      /\ op \notin {"LDWRdPtr", "LDDWRdPtrQ", "AtomicLoad16"} \cup (DOMAIN AtomicOps \ Atomic8)
  BY DEF ResultOps, MovesDest, OnAccumulator, AtomicOps, Atomic8, ByteKind, AccumulatorKind
<1>3. \A r \in WordRegs : r # d => h \notin PartsOf(r)
  BY HalfRegisters DEF PartsOf
<1>. QED
  BY <1>1, <1>2, <1>3 DEF Fits, Keeps

\* An instruction without a result, through the pointer d.
LEMMA StoreKeeps ==
  ASSUME NEW op \in {"STPtrRr", "STDPtrQRr", "STPtrPiRr", "STPtrPdRr", "STSKRr", "OUTARr", "BCLRs",
                     "PHAstk", "CPRdRr", "CPCRdRr"},
         NEW d, NEW s, NEW k, op \in MovesDest => d \in WordRegs
  PROVE  /\ Fits(MI(op, d, s, k))
         /\ \A r \in WordRegs : (op \in MovesDest => r # d) => Keeps(MI(op, d, s, k), r)
<1>1. op \in {"CPRdRr", "CPCRdRr"} => op \in DOMAIN ByteKind
  BY DEF ByteKind
<1>2. /\ MI(op, d, s, k).op = op /\ MI(op, d, s, k).d = d /\ MI(op, d, s, k).s = s
      /\ ~IsPseudo(MI(op, d, s, k)) /\ op \in ByteInstrs /\ ~UsesScratch(MI(op, d, s, k))
  <2>1. /\ ~IsPseudo(MI(op, d, s, k)) /\ op \in ByteInstrs /\ ~UsesScratch(MI(op, d, s, k))
    BY <1>1, PartOps
  <2>. QED
    BY <2>1, RankOfMI
<1>3. /\ op \notin MovesSource /\ op \in NoResult /\ op \notin OnAccumulator
      /\ op \notin {"LDWRdPtr", "LDDWRdPtrQ", "AtomicLoad16"} \cup (DOMAIN AtomicOps \ Atomic8)
  BY DEF MovesSource, NoResult, MovesDest, OnAccumulator, AccumulatorKind, AtomicOps, Atomic8
<1>. QED
  BY <1>2, <1>3 DEF Fits, Keeps

\* q fits, and keeps what p keeps.
Follows(q, p) == Fits(q) /\ \A r \in WordRegs : Keeps(p, r) => Keeps(q, r)

\* AND and OR immediate are built for a half of d and act on A.
LEMMA AccumulatorFollows ==
  ASSUME NEW p, p.op \in {"ANDIWRdK", "ORIWRdK"}, Fits(p), NEW q \in {LoHalf(p), HiHalf(p)}
  PROVE  Follows(q, p)
<1>1. PICK op, s, k :
        /\ op \in DOMAIN AccumulatorKind
        /\ q = MI(op, LoReg[p.d], s, k) \/ q = MI(op, HiReg[p.d], s, k)
  BY DEF LoHalf, HiHalf, Half, ByteOps, AccumulatorKind
<1>2. q.op = op /\ q.d \in {LoReg[p.d], HiReg[p.d]} /\ ~IsPseudo(q) /\ op \in ByteInstrs
      /\ ~UsesScratch(q)
  BY <1>1, PartOps, RankOfMI
<1>3. /\ op \notin NoResult \cup MovesSource \cup MovesDest
      /\ op \notin {"LDWRdPtr", "LDDWRdPtrQ", "AtomicLoad16"} \cup (DOMAIN AtomicOps \ Atomic8)
      /\ p.op \in OnAccumulator /\ p.op \notin NoResult
  BY <1>1 DEF AccumulatorKind, NoResult, MovesSource, MovesDest, AtomicOps, OnAccumulator
<1>4. IsPseudo(p)
  BY PseudosHaveRank DEF Rank, Once, ByteOps
<1>5. p.d \in WordRegs
  BY <1>3, <1>4 DEF Fits
<1>6. ASSUME NEW r \in WordRegs, Keeps(p, r) PROVE Keeps(q, r)
  <2>1. r # p.d /\ r # "A"
    BY <1>3, <1>6 DEF Keeps, PartsOf
  <2>2. q.d \notin PartsOf(r)
    BY <1>2, <1>5, <2>1, HalfRegisters DEF PartsOf
  <2>. QED
    BY <1>2, <1>3, <2>1, <2>2 DEF Keeps
<1>. QED
  BY <1>2, <1>3, <1>6 DEF Follows, Fits

\* Byte instructions for halves touch no other register than their pseudo.
LEMMA HalvesFollow ==
  ASSUME NEW p, p.op \in DOMAIN ByteOps, Fits(p), NEW q \in {LoHalf(p), HiHalf(p)}
  PROVE  Follows(q, p)
<1> SUFFICES ASSUME p.op \notin {"ANDIWRdK", "ORIWRdK"} PROVE Follows(q, p)
  BY AccumulatorFollows
<1>1. /\ ByteOps[p.op][1] \in DOMAIN ByteKind \cup {"LDIRdK"}
      /\ ByteOps[p.op][2] \in DOMAIN ByteKind \cup {"LDIRdK"}
  BY DEF ByteOps, ByteKind
<1>2. IsPseudo(p)
  BY PseudosHaveRank DEF Rank, Once
<1>3. PICK op, s, k : \/ op = ByteOps[p.op][1] /\ q = MI(op, LoReg[p.d], s, k)
                      \/ op = ByteOps[p.op][2] /\ q = MI(op, HiReg[p.d], s, k)
  BY DEF LoHalf, HiHalf, Half
<1>4. CASE p.op \in NoResult
  <2>1. op \in {"CPRdRr", "CPCRdRr"}
    BY <1>3, <1>4 DEF ByteOps, NoResult, MovesDest
  <2>2. op \notin MovesDest
    BY <2>1 DEF MovesDest
  <2>. QED
    BY <1>3, <2>1, <2>2, StoreKeeps DEF Follows
<1>5. CASE p.op \notin NoResult
  <2>1. p.d \in WordRegs /\ op \notin MovesSource
    BY <1>1, <1>2, <1>3, <1>5 DEF Fits, MovesSource, ByteKind
  <2>2. \A r \in WordRegs : Keeps(p, r) => r # p.d
    BY <1>5 DEF Keeps, PartsOf
  <2>3. op \in ResultOps /\ \E h \in PartsOf(p.d) : q = MI(op, h, s, k)
    BY <1>1, <1>3 DEF ResultOps, PartsOf
  <2>4. PICK h \in PartsOf(p.d) : q = MI(op, h, s, k)
    BY <2>3
  <2>5. /\ Fits(MI(op, h, s, k))
        /\ \A r \in WordRegs : r # p.d /\ (op \in MovesSource => r # s) => Keeps(MI(op, h, s, k), r)
    BY <2>1, <2>3, ResultKeeps
  <2>. QED
    BY <2>1, <2>2, <2>4, <2>5 DEF Follows
<1>. QED
  BY <1>4, <1>5

\* Nor do those of loads and stores.
LEMMA AccessFollows ==
  ASSUME NEW p, p.op \in WordAccesses, Fits(p), NEW q \in AccessParts(p)
  PROVE  Follows(q, p)
<1>1. IsPseudo(p)
  BY PseudosHaveRank DEF Rank, Once
<1>2. CASE p.op \in {"LDWRdPtr", "LDDWRdPtrQ", "LDWRdPtrPi", "LDWRdPtrPd", "LDSWRdK", "INWRdA"}
  <2>1. p.d \in WordRegs /\ \A r \in WordRegs : Keeps(p, r) => r # p.d
    BY <1>1, <1>2 DEF Fits, Keeps, PartsOf, NoResult, MovesDest
  <2>2. p.op \in MovesSource => p.s \in WordRegs /\ \A r \in WordRegs : Keeps(p, r) => r # p.s
    BY DEF Fits, Keeps
  <2>3. PICK op, h, s, k :
          /\ op \in {"LDRdPtr", "LDDRdPtrQ", "LDRdPtrPi", "LDRdPtrPd", "LDSRdK", "INRdA"}
          /\ h \in PartsOf(p.d) /\ q = MI(op, h, s, k)
          /\ (op \in MovesSource => p.op \in MovesSource /\ s = p.s)
    BY <1>2 DEF AccessParts, TwoLoads, MovesSource, PartsOf
  <2>4. op \in ResultOps /\ (op \in MovesSource => s \in WordRegs)
    BY <2>2, <2>3 DEF ResultOps
  <2>5. /\ Fits(MI(op, h, s, k))
        /\ \A r \in WordRegs : r # p.d /\ (op \in MovesSource => r # s) => Keeps(MI(op, h, s, k), r)
    BY <2>1, <2>3, <2>4, ResultKeeps
  <2>. QED
    BY <2>1, <2>2, <2>3, <2>5 DEF Follows
<1>3. CASE p.op \in {"STSWKRr", "OUTWARr", "STWPtrRr", "STDWPtrQRr", "STWPtrPiRr", "STWPtrPdRr"}
  <2>1. p.op \in MovesDest => p.d \in WordRegs /\ \A r \in WordRegs : Keeps(p, r) => r # p.d
    BY DEF Fits, Keeps
  <2>2. PICK op, d, s, k :
          /\ op \in {"STPtrRr", "STDPtrQRr", "STPtrPiRr", "STPtrPdRr", "STSKRr", "OUTARr"}
          /\ q = MI(op, d, s, k)
          /\ (op \in MovesDest => p.op \in MovesDest /\ d = p.d)
    BY <1>3 DEF AccessParts, TwoStores, MovesDest
  <2>. QED
    BY <2>1, <2>2, StoreKeeps DEF Follows
<1>. QED
  BY <1>2, <1>3 DEF WordAccesses

\* Those around an atomic operation touch A at most.
LEMMA AtomicPartsFollow ==
  ASSUME NEW p, UsesScratch(p), NEW q \in AtomicParts
  PROVE  Follows(q, p)
<1>1. \A r \in WordRegs : Keeps(p, r) => r # "A"
  BY DEF Keeps
<1>2. CASE q = MI("INRdA", "A", NoReg, P_ADDR)
  <2>1. "A" \in WordRegs /\ "A" \in PartsOf("A") /\ "INRdA" \in ResultOps \ MovesSource
    BY DEF WordRegs, PartsOf, ResultOps, MovesSource
  <2>2. Fits(q) /\ \A r \in WordRegs : r # "A" => Keeps(q, r)
    BY <1>2, <2>1, ResultKeeps
  <2>. QED
    BY <1>1, <2>2 DEF Follows
<1>3. CASE q = MI("BCLRs", NoReg, NoReg, 7) \/ q = MI("OUTARr", NoReg, "A", P_ADDR)
  <2>1. "BCLRs" \notin MovesDest /\ "OUTARr" \notin MovesDest
    BY DEF MovesDest
  <2>. QED
    BY <1>3, <2>1, StoreKeeps DEF Follows
<1>. QED
  BY <1>2, <1>3 DEF AtomicParts

\* The loads, stores and operations between the atomic parts.
LEMMA InnerFollows ==
  ASSUME NEW p, UsesScratch(p), Fits(p), p.op # "SPWRITE",
         NEW q, \/ p.op \in DOMAIN AtomicMoves /\ q = MI(AtomicMoves[p.op], p.d, p.s, 0)
                \/ p.op \in DOMAIN AtomicOps /\ q \in ArithmeticParts(p)
  PROVE  Follows(q, p)
<1>1. IsPseudo(p)
  BY PseudosHaveRank DEF Rank, Once, Twice, UsesScratch, AtomicMoves, AtomicOps, Atomic8
<1>2. CASE p.op \in {"AtomicStore8", "AtomicStore16"}
  <2>1. p.op \notin DOMAIN AtomicOps /\ p.s \in WordRegs
    BY <1>1, <1>2 DEF Fits, NoResult, AtomicOps
  <2>2. \/ q = MI("STPtrRr", p.d, p.s, 0) \/ q = MI("STWPtrRr", p.d, p.s, 0)
    BY <1>2, <2>1 DEF AtomicMoves
  <2>3. CASE q = MI("STPtrRr", p.d, p.s, 0)
    BY <2>3, StoreKeeps DEF Follows, MovesDest
  <2>4. CASE q = MI("STWPtrRr", p.d, p.s, 0)
    BY <2>1, <2>4, InnerPartOps, RankOfMI
    DEF Follows, Fits, Keeps, NoResult, AtomicOps
  <2>. QED
    BY <2>2, <2>3, <2>4
<1>3. CASE p.op \notin {"AtomicStore8", "AtomicStore16"}
  <2>1. p.op \in {"AtomicLoad8", "AtomicLoad16"} \cup DOMAIN AtomicOps /\ p.op \notin NoResult
    BY <1>3 DEF AtomicMoves, NoResult, MovesDest, AtomicOps
  <2>2. p.d \in WordRegs /\ \A r \in WordRegs : Keeps(p, r) => r # p.d
    BY <1>1, <2>1 DEF Fits, Keeps, PartsOf
  <2>3. PICK op, d, s :
          /\ q = MI(op, d, s, 0)
          /\ \/ op = "LDRdPtr" /\ d = p.d
             \/ op = "LDWRdPtr" /\ d = p.d /\ s = p.s /\ p.op \notin Atomic8 \cup {"AtomicLoad8"}
             \/ op \in {"ADDRdRr", "SUBRdRr", "ANDRdRr", "ORRdRr", "EORRdRr"} /\ d = p.d
             \/ op \in {"ADDWRdRr", "SUBWRdRr", "ANDWRdRr", "ORWRdRr", "EORWRdRr"} /\ d = p.d
             \/ op \in {"STPtrRr", "STWPtrRr"} /\ s = p.d
    BY <2>1 DEF AtomicMoves, AtomicOps, ArithmeticParts, Atomic8
  <2>4. CASE op = "LDRdPtr" \/ op \in {"ADDRdRr", "SUBRdRr", "ANDRdRr", "ORRdRr", "EORRdRr"}
    <3>1. op \in ResultOps /\ op \notin MovesSource /\ d = p.d /\ d \in PartsOf(d)
      BY <2>3, <2>4 DEF PartsOf, ResultOps, ByteKind, MovesSource
    <3>. QED
      BY <2>2, <2>3, <3>1, ResultKeeps DEF Follows
  <2>5. CASE op = "LDWRdPtr"
    <3>1. p.op = "AtomicLoad16" \/ p.op \in DOMAIN AtomicOps \ Atomic8
      BY <2>1, <2>3, <2>5 DEF Atomic8, AtomicMoves, AtomicOps
    <3>2. s = p.s /\ d = p.d /\ p.d # p.s
      BY <2>3, <2>5, <3>1 DEF Fits
    <3>. QED
      BY <2>2, <2>3, <2>5, <3>2, InnerPartOps, RankOfMI, HalfRegisters
      DEF Follows, Fits, Keeps, PartsOf, NoResult, MovesDest
  <2>6. CASE op \in {"ADDWRdRr", "SUBWRdRr", "ANDWRdRr", "ORWRdRr", "EORWRdRr"}
    <3>1. op \notin NoResult
          /\ op \notin {"LDWRdPtr", "LDDWRdPtrQ", "AtomicLoad16"} \cup (DOMAIN AtomicOps \ Atomic8)
      BY <2>6 DEF NoResult, MovesDest, AtomicOps
    <3>2. d = p.d
      BY <2>3, <2>6
    <3>. QED
      BY <2>2, <2>3, <2>6, <3>1, <3>2, InnerPartOps, RankOfMI, HalfRegisters DEF Follows, Fits, Keeps, PartsOf
  <2>7. CASE op = "STPtrRr"
    BY <2>3, <2>7, StoreKeeps DEF Follows, MovesDest
  <2>8. CASE op = "STWPtrRr"
    <3>1. s = p.d
      BY <2>3, <2>8
    <3>. QED
      BY <2>2, <2>3, <2>8, <3>1, InnerPartOps, RankOfMI DEF Follows, Fits, Keeps, NoResult, AtomicOps
  <2>. QED
    BY <2>3, <2>4, <2>5, <2>6, <2>7, <2>8
<1>. QED
  BY <1>2, <1>3

\* An expansion fits and keeps every register its pseudo keeps.
LEMMA ExpansionFollows ==
  ASSUME NEW p, Fits(p), NEW q \in Members(Expansion(p))
  PROVE  Follows(q, p)
<1>1. p.op \in {"LDWRdPtr", "LDDWRdPtrQ"} => p.d # p.s
  BY DEF Fits
<1>2. CASE p.op \in DOMAIN ByteOps
  BY <1>1, <1>2, ExpansionParts, HalvesFollow
<1>3. CASE p.op \in WordAccesses
  BY <1>1, <1>3, ExpansionParts, AccessFollows
<1>4. CASE p.op \in DOMAIN AtomicMoves \cup DOMAIN AtomicOps
  <2>1. UsesScratch(p) /\ p.op # "SPWRITE"
    BY <1>4 DEF UsesScratch, AtomicMoves, AtomicOps
  <2>2. \/ q \in AtomicParts
        \/ p.op \in DOMAIN AtomicMoves /\ q = MI(AtomicMoves[p.op], p.d, p.s, 0)
        \/ p.op \in DOMAIN AtomicOps /\ q \in ArithmeticParts(p)
    BY <1>1, <1>4, ExpansionParts
  <2>. QED
    BY <2>1, <2>2, AtomicPartsFollow, InnerFollows
<1>5. CASE p.op = "PUSHWRr"
  <2>1. q = MI("PHAstk", NoReg, p.s, 0) /\ "PHAstk" \notin MovesDest
    BY <1>1, <1>5, ExpansionParts DEF MovesDest
  <2>. QED
    BY <2>1, StoreKeeps DEF Follows
<1>6. CASE p.op = "POPWRd"
  <2>1. \E h \in PartsOf(p.d) : q = MI("POPRd", h, NoReg, 0)
    BY <1>1, <1>6, ExpansionParts DEF PartsOf
  <2>2. "POPRd" \in ResultOps \ MovesSource
    BY DEF ResultOps, MovesSource
  <2>3. p.d \in WordRegs /\ \A r \in WordRegs : Keeps(p, r) => r # p.d
    <3>1. IsPseudo(p) /\ p.op \notin NoResult
      BY <1>6, PseudosHaveRank DEF Rank, Once, NoResult, MovesDest
    <3>. QED
      BY <3>1 DEF Fits, Keeps, PartsOf
  <2>4. Fits(q) /\ \A r \in WordRegs : r # p.d => Keeps(q, r)
    BY <2>1, <2>2, <2>3, ResultKeeps
  <2>. QED
    BY <2>3, <2>4 DEF Follows
<1>7. CASE p.op = "SPWRITE"
  <2>1. UsesScratch(p) /\ "OUTARr" \notin MovesDest
    BY <1>7 DEF UsesScratch, MovesDest
  <2>2. \/ q \in AtomicParts
        \/ q = MI("OUTARr", NoReg, HiReg[p.s], SPH) \/ q = MI("OUTARr", NoReg, LoReg[p.s], SPL)
    BY <1>1, <1>7, ExpansionParts DEF SPWriteParts
  <2>3. CASE q \in AtomicParts
    BY <2>1, <2>3, AtomicPartsFollow
  <2>4. CASE q = MI("OUTARr", NoReg, HiReg[p.s], SPH) \/ q = MI("OUTARr", NoReg, LoReg[p.s], SPL)
    BY <2>1, <2>4, StoreKeeps DEF Follows
  <2>. QED
    BY <2>2, <2>3, <2>4
<1>8. CASE Rank(p) = 0
  BY <1>1, <1>8, ExpansionParts DEF Follows
<1>9. p.op # "AtomicFence"
  BY <1>1, ExpansionParts
<1>10. Rank(p) # 0 => p.op \in DOMAIN ByteOps \cup WordAccesses \cup DOMAIN AtomicMoves
                        \cup DOMAIN AtomicOps \cup {"AtomicFence", "PUSHWRr", "POPWRd", "SPWRITE"}
  BY DEF Rank, Once, Twice, AtomicMoves, AtomicOps, Atomic8
<1>. QED
  BY <1>2, <1>3, <1>4, <1>5, <1>6, <1>7, <1>8, <1>9, <1>10

----------------------------------------------------------------------------
\* The fields of a machine, whatever they hold.
Shaped(x) ==
  /\ DOMAIN x = {"reg", "P", "sp", "mem", "dev", "temp", "shadow"}
  /\ DOMAIN x.reg = ByteRegs /\ DOMAIN x.P = {"c", "z", "s", "i"}

\* The machines have the fields the instructions use.
LEMMA MachinesShaped == ASSUME NEW x \in Machines PROVE Shaped(x)
BY DEF Machines, Flags, Shaped

\* SetByte changes one half of one register.
LEMMA SetByteFacts ==
  ASSUME NEW x, Shaped(x), NEW r, NEW b
  PROVE  /\ Shaped(SetByte(x, r, b))
         /\ \A h \in ByteRegs : h # Encoded(r) => SetByte(x, r, b).reg[h] = x.reg[h]
         /\ SetByte(x, r, b).sp = x.sp /\ SetByte(x, r, b).P = x.P
         /\ SetByte(x, r, b).mem = x.mem /\ SetByte(x, r, b).dev = x.dev
         /\ SetByte(x, r, b).temp = x.temp /\ SetByte(x, r, b).shadow = x.shadow
BY DEF Shaped, SetByte

\* SetWord changes one register.
LEMMA SetWordFacts ==
  ASSUME NEW x, Shaped(x), NEW r, NEW w
  PROVE  /\ Shaped(SetWord(x, r, w))
         /\ \A h \in ByteRegs : h # LoReg[r] /\ h # HiReg[r] => SetWord(x, r, w).reg[h] = x.reg[h]
         /\ SetWord(x, r, w).sp = x.sp /\ SetWord(x, r, w).P = x.P
         /\ SetWord(x, r, w).mem = x.mem /\ SetWord(x, r, w).dev = x.dev
         /\ SetWord(x, r, w).temp = x.temp /\ SetWord(x, r, w).shadow = x.shadow
BY DEF Shaped, SetWord

\* A store changes one byte, or the device.
LEMMA StoreFacts ==
  ASSUME NEW x, Shaped(x), NEW a, NEW b
  PROVE  /\ Shaped(Store(x, a, b))
         /\ Store(x, a, b).reg = x.reg /\ Store(x, a, b).sp = x.sp /\ Store(x, a, b).P = x.P
         /\ Store(x, a, b).shadow = x.shadow
         /\ a # Dev => Store(x, a, b).dev = x.dev
         /\ a # Dev + 1 => Store(x, a, b).temp = x.temp
         /\ \A c : c # a => Store(x, a, b).mem[c] = x.mem[c]
BY DEF Shaped, Store

\* A load changes one half of one register.
LEMMA LoadFacts ==
  ASSUME NEW x, Shaped(x), NEW a, NEW r
  PROVE  /\ Shaped(Load(x, a, r))
         /\ \A h \in ByteRegs : h # Encoded(r) => Load(x, a, r).reg[h] = x.reg[h]
         /\ Load(x, a, r).sp = x.sp /\ Load(x, a, r).P = x.P
         /\ Load(x, a, r).mem = x.mem /\ Load(x, a, r).dev = x.dev
         /\ Load(x, a, r).shadow = x.shadow
<1>1. CASE a = Dev
  <2> DEFINE y == SetByte(x, r, Lo(x.dev))
  <2>1. Load(x, a, r) = [y EXCEPT !.temp = Hi(x.dev)]
    BY <1>1 DEF Load
  <2>. HIDE DEF y
  <2>2. /\ Shaped(y) /\ \A h \in ByteRegs : h # Encoded(r) => y.reg[h] = x.reg[h]
        /\ y.sp = x.sp /\ y.P = x.P /\ y.mem = x.mem /\ y.dev = x.dev /\ y.shadow = x.shadow
    BY SetByteFacts DEF y
  <2>. QED
    BY <2>1, <2>2 DEF Shaped
<1>2. CASE a # Dev
  BY <1>2, SetByteFacts DEF Load
<1>. QED
  BY <1>1, <1>2

\* The effect of an instruction, by its kind.
LEMMA EffectByKind ==
  ASSUME NEW q, NEW x
  PROVE  /\ q.op \in DOMAIN ByteKind => Effect(q, x) = Alu(q, x)
         /\ q.op \in DOMAIN AccumulatorKind => Effect(q, x) = AluAccumulator(q, x)
         /\ q.op = "LDIRdK" => Effect(q, x) = SetByte(x, q.d, q.k)
         /\ q.op = "MOVRdRr" => Effect(q, x) = SetByte(x, q.d, x.reg[Encoded(q.s)])
         /\ q.op \in Loads => Effect(q, x) = LoadIndirect(q, x)
         /\ q.op \in Stores => Effect(q, x) = StoreIndirect(q, x)
         /\ q.op = "LDSRdK" => Effect(q, x) = Load(x, q.k, q.d)
         /\ q.op = "STSKRr" => Effect(q, x) = Store(x, q.k, x.reg[Encoded(q.s)])
         /\ q.op = "INRdA" => Effect(q, x) = In(x, SixBits(q.k), q.d)
         /\ q.op = "OUTARr" => Effect(q, x) = Out(x, SixBits(q.k), x.reg[Encoded(q.s)])
         /\ q.op = "BCLRs" => Effect(q, x) = [x EXCEPT !.P.i = 0]
         /\ q.op = "PHAstk" => Effect(q, x) = Push(x, q.s)
         /\ q.op = "POPRd" => Effect(q, x) = Pop(x, q.d)
<1>1. \A op \in DOMAIN ByteKind \cup DOMAIN AccumulatorKind :
        op \notin Loads \cup Stores \cup {"LDIRdK", "MOVRdRr", "LDSRdK", "STSKRr", "INRdA", "OUTARr",
                                          "BCLRs", "PHAstk", "POPRd"}
  BY DEF ByteKind, AccumulatorKind, Loads, Stores
<1>2. \A op \in Loads \cup Stores :
        op \notin {"LDIRdK", "MOVRdRr", "LDSRdK", "STSKRr", "INRdA", "OUTARr", "BCLRs", "PHAstk",
                   "POPRd"}
  BY DEF Loads, Stores
<1>3. \A op \in Loads : op \notin Stores
  BY DEF Loads, Stores
<1>4. ASSUME q.op \in DOMAIN ByteKind PROVE Effect(q, x) = Alu(q, x)
  <2>1. q.op \notin DOMAIN AccumulatorKind
    BY <1>4 DEF ByteKind, AccumulatorKind
  <2>. QED
    BY <1>1, <1>4, <2>1 DEF Effect
<1>0. ASSUME q.op \in DOMAIN AccumulatorKind PROVE Effect(q, x) = AluAccumulator(q, x)
  <2>1. q.op \notin DOMAIN ByteKind
    BY <1>0 DEF ByteKind, AccumulatorKind
  <2>. QED
    BY <1>0, <1>1, <2>1 DEF Effect
<1>5. ASSUME q.op \in Loads PROVE Effect(q, x) = LoadIndirect(q, x)
  BY <1>1, <1>2, <1>3, <1>5 DEF Effect
<1>6. ASSUME q.op \in Stores PROVE Effect(q, x) = StoreIndirect(q, x)
  BY <1>1, <1>2, <1>3, <1>6 DEF Effect
<1>. DEFINE others == {"LDIRdK", "MOVRdRr", "LDSRdK", "STSKRr", "INRdA", "OUTARr", "BCLRs", "PHAstk",
                       "POPRd"}
<1>7. q.op \in others => q.op \notin DOMAIN ByteKind \cup DOMAIN AccumulatorKind \cup Loads \cup Stores
  BY <1>1, <1>2
<1>8. q.op = "LDIRdK" => Effect(q, x) = SetByte(x, q.d, q.k)
  BY <1>7 DEF Effect
<1>9. q.op = "MOVRdRr" => Effect(q, x) = SetByte(x, q.d, x.reg[Encoded(q.s)])
  BY <1>7 DEF Effect
<1>10. q.op = "LDSRdK" => Effect(q, x) = Load(x, q.k, q.d)
  BY <1>7 DEF Effect
<1>11. q.op = "STSKRr" => Effect(q, x) = Store(x, q.k, x.reg[Encoded(q.s)])
  BY <1>7 DEF Effect
<1>12. q.op = "INRdA" => Effect(q, x) = In(x, SixBits(q.k), q.d)
  BY <1>7 DEF Effect
<1>13. q.op = "OUTARr" => Effect(q, x) = Out(x, SixBits(q.k), x.reg[Encoded(q.s)])
  BY <1>7 DEF Effect
<1>14. q.op = "BCLRs" => Effect(q, x) = [x EXCEPT !.P.i = 0]
  BY <1>7 DEF Effect
<1>15. q.op = "PHAstk" => Effect(q, x) = Push(x, q.s)
  BY <1>7 DEF Effect
<1>16. q.op = "POPRd" => Effect(q, x) = Pop(x, q.d)
  BY <1>7 DEF Effect
<1>. QED
  BY <1>0, <1>4, <1>5, <1>6, <1>8, <1>9, <1>10, <1>11, <1>12, <1>13, <1>14, <1>15, <1>16

\* y is a machine, with the registers of x except what q changes.
KeepsIn(q, x, y) ==
  Shaped(y) /\ \A r \in WordRegs : Keeps(q, r) =>
                 y.reg[LoReg[r]] = x.reg[LoReg[r]] /\ y.reg[HiReg[r]] = x.reg[HiReg[r]]

\* A part of another pair is encoded as a part of that pair.
LEMMA EncodedApart ==
  ASSUME NEW q, q.op \notin NoResult, NEW r \in WordRegs, Keeps(q, r)
  PROVE  LoReg[r] # Encoded(q.d) /\ HiReg[r] # Encoded(q.d)
<1>1. q.d # r /\ q.d # LoReg[r] /\ q.d # HiReg[r]
  BY DEF Keeps, PartsOf
<1>. QED
  BY <1>1, HalfRegisters DEF Encoded

\* The register an instruction keeps is not its destination.
LEMMA ResultKept ==
  ASSUME NEW q, q.op \notin NoResult, NEW x, NEW y, Shaped(y),
         \A h \in ByteRegs : h # Encoded(q.d) => y.reg[h] = x.reg[h]
  PROVE  KeepsIn(q, x, y)
BY EncodedApart, HalfRegisters DEF KeepsIn

\* Arithmetic and logic change the destination and the flags alone.
LEMMA AluKeeps ==
  ASSUME NEW q, q.op \in DOMAIN ByteKind, NEW x, Shaped(x)
  PROVE  /\ KeepsIn(q, x, Alu(q, x)) /\ Alu(q, x).sp = x.sp /\ Alu(q, x).mem = x.mem
         /\ Alu(q, x).dev = x.dev /\ Alu(q, x).temp = x.temp /\ Alu(q, x).shadow = x.shadow
<1> DEFINE a == x.reg[Encoded(q.d)]
           b == IF q.op \in ByImmediate THEN q.k ELSE x.reg[Encoded(q.s)]
           P == Status(ByteKind[q.op], a, b, x.P, ByteSize)
           after == [x EXCEPT !.P = P]
           v == Result(ByteKind[q.op], a, b, x.P.c, ByteSize).val
<1>1. Alu(q, x) = IF q.op \in Compares THEN after ELSE SetByte(after, q.d, v)
  BY DEF Alu
<1>2. DOMAIN P = {"c", "z", "s", "i"}
  BY DEF Shaped, Status
<1>. HIDE DEF P, v
<1>3. /\ Shaped(after) /\ after.reg = x.reg /\ after.sp = x.sp /\ after.mem = x.mem
      /\ after.dev = x.dev /\ after.temp = x.temp /\ after.shadow = x.shadow
  BY <1>2 DEF Shaped
<1>. HIDE DEF after
<1>4. CASE q.op \in Compares
  <2>1. Alu(q, x) = after
    BY <1>1, <1>4
  <2>. QED
    BY <1>3, <2>1 DEF KeepsIn
<1>5. CASE q.op \notin Compares
  <2>1. q.op \notin NoResult
    BY <1>5 DEF ByteKind, Compares, NoResult, MovesDest
  <2> DEFINE y == SetByte(after, q.d, v)
  <2>2. /\ Shaped(y) /\ \A h \in ByteRegs : h # Encoded(q.d) => y.reg[h] = x.reg[h]
        /\ y.sp = x.sp /\ y.mem = x.mem
        /\ y.dev = x.dev /\ y.temp = x.temp /\ y.shadow = x.shadow
    BY <1>3, SetByteFacts
  <2>3. Alu(q, x) = y
    BY <1>1, <1>5
  <2>. HIDE DEF y
  <2>. QED
    BY <2>1, <2>2, <2>3, ResultKept
<1>. QED
  BY <1>4, <1>5

\* AND and OR immediate change A and the flags alone.
LEMMA AccumulatorKeeps ==
  ASSUME NEW q, q.op \in DOMAIN AccumulatorKind, NEW x, Shaped(x)
  PROVE  /\ KeepsIn(q, x, AluAccumulator(q, x)) /\ AluAccumulator(q, x).sp = x.sp
         /\ AluAccumulator(q, x).mem = x.mem /\ AluAccumulator(q, x).dev = x.dev
<1> DEFINE a == WordOf(x, "A")
           P == Status(AccumulatorKind[q.op], a, q.k, x.P, WordSize)
           after == [x EXCEPT !.P = P]
           v == Result(AccumulatorKind[q.op], a, q.k, x.P.c, WordSize).val
           y == SetWord(after, "A", v)
<1>1. AluAccumulator(q, x) = y
  BY DEF AluAccumulator
<1>2. DOMAIN P = {"c", "z", "s", "i"}
  BY DEF Shaped, Status
<1>. HIDE DEF P, v
<1>3. /\ Shaped(after) /\ after.reg = x.reg /\ after.sp = x.sp /\ after.mem = x.mem
      /\ after.dev = x.dev
  BY <1>2 DEF Shaped
<1>. HIDE DEF after
<1>4. /\ Shaped(y) /\ \A h \in ByteRegs : h # LoReg["A"] /\ h # HiReg["A"] => y.reg[h] = x.reg[h]
      /\ y.sp = x.sp /\ y.mem = x.mem /\ y.dev = x.dev
  BY <1>3, SetWordFacts
<1>. HIDE DEF y
<1>5. \A r \in WordRegs : Keeps(q, r) => r # "A"
  BY DEF Keeps, OnAccumulator
<1>6. "A" \in WordRegs
  BY DEF WordRegs
<1>. QED
  BY <1>1, <1>4, <1>5, <1>6, HalfRegisters DEF KeepsIn

\* Everything but the registers, and what a load may change.
SameBut(x, y) == y.sp = x.sp /\ y.P = x.P /\ y.mem = x.mem /\ y.dev = x.dev /\ y.shadow = x.shadow

\* Only the instructions that move their pointer change it.
LEMMA PointerMoves ==
  ASSUME NEW q, NEW ptr, PointerAfter(q, ptr) # ptr
  PROVE  q.op \in (MovesSource \cap Loads) \cup (MovesDest \cap Stores)
BY DEF PointerAfter, MovesSource, MovesDest, Loads, Stores

\* A load through a pointer.
LEMMA LoadIndirectKeeps ==
  ASSUME NEW q, q.op \in Loads, Fits(q), NEW x, Shaped(x)
  PROVE  KeepsIn(q, x, LoadIndirect(q, x)) /\ SameBut(x, LoadIndirect(q, x))
<1> DEFINE ptr == WordOf(x, q.s)
           y == IF PointerAfter(q, ptr) = ptr THEN x ELSE SetWord(x, q.s, PointerAfter(q, ptr))
           z == Load(y, Address(q, ptr), q.d)
<1>1. LoadIndirect(q, x) = z
  BY DEF LoadIndirect
<1>2. q.op \notin NoResult /\ q.op \notin Stores
  BY DEF Loads, Stores, NoResult, MovesDest
<1>3. Shaped(y) /\ SameBut(x, y)
  BY SetWordFacts DEF SameBut
<1>4. ASSUME NEW r \in WordRegs, Keeps(q, r)
      PROVE  y.reg[LoReg[r]] = x.reg[LoReg[r]] /\ y.reg[HiReg[r]] = x.reg[HiReg[r]]
  <2>1. CASE PointerAfter(q, ptr) = ptr
    BY <2>1
  <2>2. CASE PointerAfter(q, ptr) # ptr
    <3>1. q.op \in MovesSource
      BY <1>2, <2>2, PointerMoves
    <3>2. q.s \in WordRegs /\ q.s # r
      BY <1>4, <3>1 DEF Fits, Keeps
    <3>3. /\ LoReg[r] \in ByteRegs /\ LoReg[r] # LoReg[q.s] /\ LoReg[r] # HiReg[q.s]
          /\ HiReg[r] \in ByteRegs /\ HiReg[r] # LoReg[q.s] /\ HiReg[r] # HiReg[q.s]
      BY <3>2, HalfRegisters
    <3>4. y = SetWord(x, q.s, PointerAfter(q, ptr))
      BY <2>2
    <3>. HIDE DEF y, ptr
    <3>. QED
      BY <3>3, <3>4, SetWordFacts
  <2>. QED
    BY <2>1, <2>2
<1>. HIDE DEF y, ptr
<1>5. /\ Shaped(z) /\ SameBut(y, z)
      /\ \A h \in ByteRegs : h # Encoded(q.d) => z.reg[h] = y.reg[h]
  BY <1>3, LoadFacts DEF SameBut
<1>. HIDE DEF z
<1>6. SameBut(x, z)
  BY <1>3, <1>5 DEF SameBut
<1>7. KeepsIn(q, x, z)
  BY <1>2, <1>4, <1>5, EncodedApart, HalfRegisters DEF KeepsIn
<1>. QED
  BY <1>1, <1>6, <1>7

\* A store through a pointer.
LEMMA StoreIndirectKeeps ==
  ASSUME NEW q, q.op \in Stores, Fits(q), NEW x, Shaped(x)
  PROVE  /\ KeepsIn(q, x, StoreIndirect(q, x))
         /\ StoreIndirect(q, x).sp = x.sp /\ StoreIndirect(q, x).P = x.P
         /\ StoreIndirect(q, x).shadow = x.shadow
         /\ Address(q, WordOf(x, q.d)) # Dev => StoreIndirect(q, x).dev = x.dev
         /\ Address(q, WordOf(x, q.d)) # Dev + 1 => StoreIndirect(q, x).temp = x.temp
         /\ \A c : c # Address(q, WordOf(x, q.d)) => StoreIndirect(q, x).mem[c] = x.mem[c]
<1> DEFINE ptr == WordOf(x, q.d)
           a == Address(q, ptr)
           y == Store(x, a, x.reg[Encoded(q.s)])
           z == SetWord(y, q.d, PointerAfter(q, ptr))
<1>1. StoreIndirect(q, x) = IF PointerAfter(q, ptr) = ptr THEN y ELSE z
  BY DEF StoreIndirect
<1>2. q.op \notin Loads
  BY DEF Loads, Stores
<1>3. PointerAfter(q, ptr) # ptr => q.op \in MovesDest
  BY <1>2, PointerMoves
<1>. HIDE DEF ptr, a
<1>4. /\ Shaped(y) /\ y.reg = x.reg /\ y.sp = x.sp /\ y.P = x.P /\ y.shadow = x.shadow
      /\ a # Dev => y.dev = x.dev
      /\ a # Dev + 1 => y.temp = x.temp
      /\ \A c : c # a => y.mem[c] = x.mem[c]
  BY StoreFacts
<1>. HIDE DEF y
<1>5. /\ Shaped(z) /\ z.sp = y.sp /\ z.P = y.P /\ z.mem = y.mem /\ z.dev = y.dev /\ z.temp = y.temp
      /\ z.shadow = y.shadow
      /\ \A h \in ByteRegs : h # LoReg[q.d] /\ h # HiReg[q.d] => z.reg[h] = y.reg[h]
  BY <1>4, SetWordFacts
<1>. HIDE DEF z
<1>6. KeepsIn(q, x, y)
  BY <1>4 DEF KeepsIn
<1>7. PointerAfter(q, ptr) # ptr => KeepsIn(q, x, z)
  <2>1. ASSUME PointerAfter(q, ptr) # ptr, NEW r \in WordRegs, Keeps(q, r)
        PROVE  z.reg[LoReg[r]] = x.reg[LoReg[r]] /\ z.reg[HiReg[r]] = x.reg[HiReg[r]]
    <3>1. q.d \in WordRegs /\ q.d # r
      BY <1>3, <2>1 DEF Fits, Keeps
    <3>2. /\ LoReg[r] \in ByteRegs /\ LoReg[r] # LoReg[q.d] /\ LoReg[r] # HiReg[q.d]
          /\ HiReg[r] \in ByteRegs /\ HiReg[r] # LoReg[q.d] /\ HiReg[r] # HiReg[q.d]
      BY <3>1, HalfRegisters
    <3>. QED
      BY <1>4, <1>5, <3>2
  <2>. QED
    BY <1>5, <2>1 DEF KeepsIn
<1>8. CASE PointerAfter(q, ptr) = ptr
  <2>1. StoreIndirect(q, x) = y
    BY <1>1, <1>8
  <2>. QED
    BY <1>4, <1>6, <2>1 DEF a, ptr
<1>9. CASE PointerAfter(q, ptr) # ptr
  <2>1. StoreIndirect(q, x) = z
    BY <1>1, <1>9
  <2>. QED
    BY <1>4, <1>5, <1>7, <1>9, <2>1 DEF a, ptr
<1>. QED
  BY <1>8, <1>9

\* Reading a port.
LEMMA InKeeps ==
  ASSUME NEW x, Shaped(x), NEW port, NEW r
  PROVE  /\ Shaped(In(x, port, r)) /\ SameBut(x, In(x, port, r))
         /\ \A h \in ByteRegs : h # Encoded(r) => In(x, port, r).reg[h] = x.reg[h]
BY SetByteFacts, LoadFacts DEF In, SameBut

\* Writing a port.
LEMMA OutFacts ==
  ASSUME NEW x, Shaped(x), NEW port, NEW b
  PROVE  /\ Shaped(Out(x, port, b)) /\ Out(x, port, b).reg = x.reg
         /\ port \notin {SPL, SPH} => Out(x, port, b).sp = x.sp
         /\ port = SPL => Out(x, port, b).sp = Pair(b, Hi(x.sp)) /\ Out(x, port, b).P = x.P
         /\ port = SPH => Out(x, port, b).sp = Pair(Lo(x.sp), b) /\ Out(x, port, b).P = x.P
         /\ port = P_ADDR => Out(x, port, b).shadow = (x.P.i = 0)
         /\ port \in {SPL, SPH, P_ADDR} => /\ Out(x, port, b).mem = x.mem
                                           /\ Out(x, port, b).dev = x.dev
                                           /\ Out(x, port, b).temp = x.temp
         /\ port \notin {SPL, SPH, P_ADDR} => Out(x, port, b) = Store(x, port, b)
<1>1. CASE port = SPL
  BY <1>1 DEF Out, Shaped, SPL, SPH, P_ADDR
<1>2. CASE port = SPH
  BY <1>2 DEF Out, Shaped, SPL, SPH, P_ADDR
<1>3. CASE port = P_ADDR
  <2> DEFINE P == StatusOf(b)
             held == x.P.i = 0
             y == [x EXCEPT !.P = P, !.shadow = held]
  <2>1. Out(x, port, b) = y
    BY <1>3 DEF Out, SPL, SPH, P_ADDR
  <2>2. DOMAIN P = {"c", "z", "s", "i"}
    BY DEF StatusOf
  <2>3. 63 # 61 /\ 63 # 62
    OBVIOUS
  <2>. HIDE DEF P, held
  <2>4. /\ Shaped(y) /\ y.reg = x.reg /\ y.sp = x.sp /\ y.mem = x.mem /\ y.dev = x.dev
        /\ y.temp = x.temp
    BY <2>2 DEF Shaped
  <2>5. y.shadow = held
    BY DEF Shaped
  <2>. HIDE DEF y
  <2>6. Out(x, port, b).shadow = (x.P.i = 0)
    BY <2>1, <2>5 DEF held
  <2>. QED
    BY <1>3, <2>1, <2>3, <2>4, <2>6 DEF SPL, SPH, P_ADDR
<1>4. CASE port \notin {SPL, SPH, P_ADDR}
  BY <1>4, StoreFacts DEF Out
<1>. QED
  BY <1>1, <1>2, <1>3, <1>4

\* What an instruction keeps, whatever the machine.
LEMMA EffectKeeps ==
  ASSUME NEW q, Fits(q), ~IsPseudo(q), NEW x, Shaped(x)
  PROVE  /\ KeepsIn(q, x, Effect(q, x))
         /\ q.op \notin {"OUTARr", "PHAstk", "POPRd"} => Effect(q, x).sp = x.sp
         /\ q.op \notin {"OUTARr", "PHAstk", "STSKRr"} \cup Stores =>
              Effect(q, x).mem = x.mem /\ Effect(q, x).dev = x.dev
<1> DEFINE y == Effect(q, x)
<1>1. q.op \in ByteInstrs
  BY DEF Fits
<1>2. CASE q.op \in DOMAIN ByteKind
  <2>1. y = Alu(q, x)
    BY <1>2, EffectByKind
  <2>. HIDE DEF y
  <2>. QED
    BY <1>2, <2>1, AluKeeps DEF y
<1>12. CASE q.op \in DOMAIN AccumulatorKind
  <2>1. y = AluAccumulator(q, x)
    BY <1>12, EffectByKind
  <2>. HIDE DEF y
  <2>. QED
    BY <1>12, <2>1, AccumulatorKeeps DEF y
<1>3. CASE q.op \in {"LDIRdK", "MOVRdRr"}
  <2>1. q.op \notin NoResult
    BY <1>3 DEF NoResult, MovesDest
  <2>2. \E v : y = SetByte(x, q.d, v)
    BY <1>3, EffectByKind
  <2>. HIDE DEF y
  <2>3. /\ Shaped(y) /\ y.sp = x.sp /\ y.mem = x.mem /\ y.dev = x.dev
        /\ \A h \in ByteRegs : h # Encoded(q.d) => y.reg[h] = x.reg[h]
    BY <2>2, SetByteFacts
  <2>. QED
    BY <2>1, <2>3, ResultKept DEF y
<1>4. CASE q.op \in Loads
  <2>1. y = LoadIndirect(q, x)
    BY <1>4, EffectByKind
  <2>. HIDE DEF y
  <2>. QED
    BY <1>4, <2>1, LoadIndirectKeeps DEF SameBut, y
<1>5. CASE q.op \in Stores
  <2>1. y = StoreIndirect(q, x)
    BY <1>5, EffectByKind
  <2>. HIDE DEF y
  <2>. QED
    BY <1>5, <2>1, StoreIndirectKeeps DEF y
<1>6. CASE q.op \in {"LDSRdK", "INRdA"}
  <2>1. q.op \notin NoResult
    BY <1>6 DEF NoResult, MovesDest
  <2>2. y = Load(x, q.k, q.d) \/ y = In(x, SixBits(q.k), q.d)
    BY <1>6, EffectByKind
  <2>. HIDE DEF y
  <2>3. /\ Shaped(y) /\ y.sp = x.sp /\ y.mem = x.mem /\ y.dev = x.dev
        /\ \A h \in ByteRegs : h # Encoded(q.d) => y.reg[h] = x.reg[h]
    <3>1. CASE y = Load(x, q.k, q.d)
      BY <3>1, LoadFacts
    <3>2. CASE y = In(x, SixBits(q.k), q.d)
      BY <3>2, InKeeps DEF SameBut
    <3>. QED
      BY <2>2, <3>1, <3>2
  <2>. QED
    BY <2>1, <2>3, ResultKept DEF y
<1>7. CASE q.op = "STSKRr"
  <2>1. y = Store(x, q.k, x.reg[Encoded(q.s)])
    BY <1>7, EffectByKind
  <2>. HIDE DEF y
  <2>2. Shaped(y) /\ y.reg = x.reg /\ y.sp = x.sp
    BY <2>1, StoreFacts
  <2>. QED
    BY <1>7, <2>2 DEF KeepsIn, y
<1>8. CASE q.op = "OUTARr"
  <2>1. y = Out(x, SixBits(q.k), x.reg[Encoded(q.s)])
    BY <1>8, EffectByKind
  <2>. HIDE DEF y
  <2>2. Shaped(y) /\ y.reg = x.reg
    BY <2>1, OutFacts
  <2>. QED
    BY <1>8, <2>2 DEF KeepsIn, y
<1>9. CASE q.op = "BCLRs"
  <2>1. y = [x EXCEPT !.P.i = 0]
    BY <1>9, EffectByKind
  <2>. HIDE DEF y
  <2>2. Shaped(y) /\ y.reg = x.reg /\ y.sp = x.sp /\ y.mem = x.mem /\ y.dev = x.dev
    BY <2>1 DEF Shaped
  <2>. QED
    BY <1>9, <2>2 DEF KeepsIn, y
<1>10. CASE q.op = "PHAstk"
  <2> DEFINE a == Store(x, x.sp, x.reg[HiReg[q.s]])
             b == Store(a, x.sp - 1, x.reg[LoReg[q.s]])
  <2>1. y = [b EXCEPT !.sp = (@ - 2) % WordSize]
    BY <1>10, EffectByKind DEF Push
  <2>. HIDE DEF y
  <2>2. Shaped(a) /\ a.reg = x.reg
    BY StoreFacts
  <2>. HIDE DEF a
  <2>3. Shaped(b) /\ b.reg = x.reg
    BY <2>2, StoreFacts
  <2>. HIDE DEF b
  <2>4. Shaped(y) /\ y.reg = x.reg
    BY <2>1, <2>3 DEF Shaped
  <2>. QED
    BY <1>10, <2>4 DEF KeepsIn, y
<1>11. CASE q.op = "POPRd"
  <2> DEFINE a == Load(x, x.sp + 1, q.d)
  <2>1. y = [a EXCEPT !.sp = (@ + 1) % WordSize]
    BY <1>11, EffectByKind DEF Pop
  <2>. HIDE DEF y
  <2>2. /\ Shaped(a) /\ a.mem = x.mem /\ a.dev = x.dev
        /\ \A h \in ByteRegs : h # Encoded(q.d) => a.reg[h] = x.reg[h]
    BY LoadFacts
  <2>. HIDE DEF a
  <2>3. /\ Shaped(y) /\ y.mem = x.mem /\ y.dev = x.dev /\ y.reg = a.reg
    BY <2>1, <2>2 DEF Shaped
  <2>4. q.op \notin NoResult
    BY <1>11 DEF NoResult, MovesDest
  <2>. QED
    BY <1>11, <2>2, <2>3, <2>4, ResultKept DEF y
<1>. QED
  BY <1>1, <1>2, <1>3, <1>4, <1>5, <1>6, <1>7, <1>8, <1>9, <1>10, <1>11, <1>12
  DEF ByteInstrs

\* The machine an instruction starts on: no interrupt is held off any more.
Unshadowed(x) == [x EXCEPT !.shadow = FALSE]

\* The shadow of an instruction that enables interrupts ends.
LEMMA UnshadowedFacts ==
  ASSUME NEW x, Shaped(x)
  PROVE  /\ Shaped(Unshadowed(x)) /\ Unshadowed(x).reg = x.reg /\ Unshadowed(x).P = x.P
         /\ Unshadowed(x).sp = x.sp /\ Unshadowed(x).mem = x.mem /\ Unshadowed(x).dev = x.dev
         /\ Unshadowed(x).temp = x.temp /\ Unshadowed(x).shadow = FALSE
BY DEF Shaped, Unshadowed

\* What no instruction changes.
LEMMA ExecKeeps ==
  ASSUME NEW q, Fits(q), ~IsPseudo(q), NEW x, Shaped(x)
  PROVE  /\ KeepsIn(q, x, Exec(q, x))
         /\ q.op \notin {"OUTARr", "PHAstk", "POPRd"} => Exec(q, x).sp = x.sp
         /\ q.op \notin {"OUTARr", "PHAstk", "STSKRr"} \cup Stores =>
              Exec(q, x).mem = x.mem /\ Exec(q, x).dev = x.dev
<1> DEFINE u == Unshadowed(x)
<1>1. Exec(q, x) = Effect(q, u)
  BY DEF Exec, Unshadowed
<1>. HIDE DEF u
<1>2. Shaped(u) /\ u.reg = x.reg /\ u.sp = x.sp /\ u.mem = x.mem /\ u.dev = x.dev
  BY UnshadowedFacts DEF u
<1>3. /\ KeepsIn(q, u, Effect(q, u))
      /\ q.op \notin {"OUTARr", "PHAstk", "POPRd"} => Effect(q, u).sp = u.sp
      /\ q.op \notin {"OUTARr", "PHAstk", "STSKRr"} \cup Stores =>
           Effect(q, u).mem = u.mem /\ Effect(q, u).dev = u.dev
  BY <1>2, EffectKeeps
<1>. QED
  BY <1>1, <1>2, <1>3 DEF KeepsIn

----------------------------------------------------------------------------
(***************************************************************************)
(* The registers no instruction changes keep their words to the end.       *)
(***************************************************************************)
LEMMA CodeFacts ==
  ASSUME PassInv
  PROVE  /\ Len(code) \in Nat /\ at \in 1..(Len(code) + 1)
         /\ phase # "expand" => \A k \in 1..Len(code) : ~IsPseudo(code[k])
BY SeqFacts, PseudosHaveRank DEF PassInv, IsSeq

\* Where the instructions come from when one is expanded.
LEMMA EveryInstr ==
  ASSUME PassInv, ExpandMI, NEW k \in 1..Len(code')
  PROVE  \/ \E j \in 1..Len(code) : code'[k] = code[j]
         \/ code'[k] \in Members(Expansion(code[at]))
<1> DEFINE e == Expansion(code[at])
<1>1. at \in 1..Len(code) /\ Len(code) \in Nat /\ IsSeq(code)
  BY CodeFacts DEF PassInv, ExpandMI
<1>2. IsSeq(e) /\ Len(e) \in Nat
  BY ExpansionIsSeq
<1>3. code' = Splice(code, at, e)
  BY DEF ExpandMI, Splice
<1>. HIDE DEF e
<1>4. /\ Len(code') = Len(code) + Len(e) - 1
      /\ \A i \in 1..(at - 1) : code'[i] = code[i]
      /\ \A i \in 1..Len(e) : code'[at - 1 + i] = e[i]
      /\ \A i \in (at + 1)..Len(code) : code'[i + Len(e) - 1] = code[i]
  <2>1. /\ IsSeq(Splice(code, at, e)) /\ Len(Splice(code, at, e)) = Len(code) + Len(e) - 1
        /\ \A i \in 1..(at - 1) : Splice(code, at, e)[i] = code[i]
        /\ \A i \in 1..Len(e) : Splice(code, at, e)[at - 1 + i] = e[i]
        /\ \A i \in (at + 1)..Len(code) : Splice(code, at, e)[i + Len(e) - 1] = code[i]
    <3>1. at \in 1..Len(code) /\ IsSeq(code) /\ IsSeq(e)
      BY <1>1, <1>2
    <3>. QED
      BY <3>1, SpliceFacts
  <2>. QED
    BY <1>3, <2>1
<1>5. CASE k < at
  BY <1>1, <1>4, <1>5
<1>6. CASE k >= at /\ k < at + Len(e)
  <2> DEFINE i == k - (at - 1)
  <2>1. i \in 1..Len(e) /\ at - 1 + i = k
    BY <1>1, <1>2, <1>6
  <2>. HIDE DEF i
  <2>2. code'[k] = e[i]
    BY <1>4, <2>1
  <2>. QED
    BY <2>1, <2>2 DEF Members, e
<1>7. CASE k >= at + Len(e)
  <2> DEFINE i == k - Len(e) + 1
  <2>1. i \in (at + 1)..Len(code) /\ i + Len(e) - 1 = k
    BY <1>1, <1>2, <1>4, <1>7
  <2>. HIDE DEF i
  <2>2. code'[k] = code[i]
    BY <1>4, <2>1
  <2>. QED
    BY <1>1, <2>1, <2>2
<1>. QED
  BY <1>1, <1>2, <1>5, <1>6, <1>7

CodeInv ==
  /\ program \in Programs
  /\ \A k \in 1..Len(code) : Fits(code[k]) /\ \A r \in Steady : Keeps(code[k], r)

KeptInv ==
  phase \in {"run", "done"} =>
    Shaped(m) /\ \A r \in Steady : /\ m.reg[LoReg[r]] = start.reg[LoReg[r]]
                                   /\ m.reg[HiReg[r]] = start.reg[HiReg[r]]

\* The words of registers no instruction of the block changes.
SteadyKept == phase \in {"run", "done"} => \A r \in Steady : WordOf(m, r) = WordOf(start, r)

\* The programs whose instructions fit.
AllFit == \A p \in Programs : \A k \in 1..Len(p) : Fits(p[k])

\* The programs fit.
LEMMA CodeInvInit == ASSUME AllFit, Init PROVE CodeInv
BY DEF AllFit, Init, CodeInv, Steady, SteadyIn

\* Their expansions fit, round after round.
LEMMA CodeInvStep == ASSUME PassInv, CodeInv, [Next]_vars PROVE CodeInv'
<1>1. CASE ExpandMI
  <2>1. program' = program /\ Steady' = Steady /\ at \in 1..Len(code)
    BY <1>1, CodeFacts DEF ExpandMI, Steady, SteadyIn
  <2>2. ASSUME NEW k \in 1..Len(code')
        PROVE  Fits(code'[k]) /\ \A r \in Steady : Keeps(code'[k], r)
    <3>1. CASE \E j \in 1..Len(code) : code'[k] = code[j]
      BY <3>1 DEF CodeInv
    <3>2. CASE code'[k] \in Members(Expansion(code[at]))
      <4>1. Follows(code'[k], code[at])
        BY <2>1, <3>2, ExpansionFollows DEF CodeInv
      <4>2. \A r \in Steady : r \in WordRegs /\ Keeps(code[at], r)
        BY <2>1 DEF CodeInv, Steady, SteadyIn
      <4>. QED
        BY <4>1, <4>2 DEF Follows
    <3>. QED
      BY <1>1, <3>1, <3>2, EveryInstr
  <2>. QED
    BY <2>1, <2>2 DEF CodeInv
<1>2. CASE ~ExpandMI
  <2>1. code' = code /\ program' = program
    BY <1>2 DEF Next, Run, NextRound, StartRun, Step, Halt, Interrupt, DeviceTick, Stopped, pass, vars
  <2>. QED
    BY <2>1 DEF CodeInv, Steady, SteadyIn
<1>. QED
  BY <1>1, <1>2

\* What an interrupt changes.
LEMMA InterruptFacts ==
  ASSUME Shaped(m), Interrupt
  PROVE  /\ Shaped(m') /\ m'.reg = m.reg /\ m'.sp = m.sp /\ m'.P = m.P /\ m'.temp = m.temp
         /\ m'.shadow = m.shadow
<1>1. PICK w \in HandlerWords :
        m' = PutWord(IF m.sp \in Cells THEN [m EXCEPT !.mem[m.sp] = 0] ELSE m, Shared, w)
  BY DEF Interrupt
<1> DEFINE x == IF m.sp \in Cells THEN [m EXCEPT !.mem[m.sp] = 0] ELSE m
<1>2. /\ Shaped(x) /\ x.reg = m.reg /\ x.sp = m.sp /\ x.P = m.P /\ x.temp = m.temp
      /\ x.shadow = m.shadow
  BY DEF Shaped
<1>3. m' = PutWord(x, Shared, w)
  BY <1>1
<1>. HIDE DEF x
<1>. QED
  BY <1>2, <1>3 DEF PutWord, Shaped

\* What a new device word changes.
LEMMA DeviceTickFacts ==
  ASSUME Shaped(m), DeviceTick
  PROVE  /\ Shaped(m') /\ m'.reg = m.reg /\ m'.sp = m.sp /\ m'.P = m.P /\ m'.temp = m.temp
         /\ m'.shadow = m.shadow /\ m'.mem = m.mem
BY DEF DeviceTick, Shaped

\* No step of the machine changes a steady register.
LEMMA KeptInvStep ==
  ASSUME PassInv, CodeInv, KeptInv, [Next]_vars
  PROVE  KeptInv'
<1>1. program' = program /\ Steady' = Steady
  BY DEF Next, Run, ExpandMI, NextRound, StartRun, Step, Halt, Interrupt, DeviceTick, Stopped, pass,
         vars, Steady, SteadyIn
<1>2. CASE ExpandMI \/ NextRound
  BY <1>2 DEF ExpandMI, NextRound, KeptInv
<1>3. CASE StartRun
  <2>1. PICK m0 \in Starts(program) : m' = m0 /\ start' = m0
    BY <1>3 DEF StartRun
  <2>2. Shaped(m')
    BY <2>1, MachinesShaped, ExpandAssumption DEF CodeInv
  <2>. QED
    BY <2>1, <2>2 DEF KeptInv
<1>4. CASE Step
  <2>1. /\ phase = "run" /\ phase' = "run" /\ at \in 1..Len(code) /\ m' = Exec(code[at], m)
        /\ start' = start
    BY <1>4, CodeFacts DEF Step
  <2>2. Fits(code[at]) /\ ~IsPseudo(code[at]) /\ \A r \in Steady : r \in WordRegs /\ Keeps(code[at], r)
    BY <2>1, CodeFacts DEF CodeInv, Steady, SteadyIn
  <2>3. KeepsIn(code[at], m, m')
    BY <2>1, <2>2, ExecKeeps DEF KeptInv
  <2>. QED
    BY <1>1, <2>1, <2>2, <2>3 DEF KeptInv, KeepsIn
<1>5. CASE Halt \/ Stopped \/ UNCHANGED vars
  <2>1. m' = m /\ start' = start /\ (phase' \in {"run", "done"} => phase \in {"run", "done"})
    BY <1>5 DEF Halt, Stopped, vars, machine, pass
  <2>. QED
    BY <1>1, <2>1 DEF KeptInv
<1>6. CASE Interrupt
  <2>1. phase = "run" /\ start' = start
    BY <1>6 DEF Interrupt, Interruptible
  <2>. QED
    BY <1>1, <1>6, <2>1, InterruptFacts DEF KeptInv
<1>7. CASE DeviceTick
  <2>1. phase = "run" /\ start' = start
    BY <1>7 DEF DeviceTick
  <2>. QED
    BY <1>1, <1>7, <2>1, DeviceTickFacts DEF KeptInv
<1>. QED
  BY <1>2, <1>3, <1>4, <1>5, <1>6, <1>7 DEF Next, Run

\* For every block, a word in a register that no instruction of it changes
\* is there until the end, interrupts and scratch registers or not.
THEOREM RegistersKept == ASSUME AllFit PROVE Spec => []SteadyKept
<1> DEFINE Inv == PassInv /\ CodeInv /\ KeptInv
<1>1. Init => Inv
  BY PassInvInit, CodeInvInit DEF Init, KeptInv
<1>2. Inv /\ [Next]_vars => Inv'
  BY PassInvStep, CodeInvStep, KeptInvStep
<1>3. Inv => SteadyKept
  BY DEF KeptInv, SteadyKept, WordOf
<1>. HIDE DEF Inv
<1>. QED
  BY <1>1, <1>2, <1>3, PTL DEF Spec

----------------------------------------------------------------------------
(***************************************************************************)
(* Where the instructions go when one of them is expanded: those before    *)
(* it stay, those after it move, and instructions that were next to each   *)
(* other are torn apart by no expansion but their own.                     *)
(***************************************************************************)
Grown == Len(Expansion(code[at])) - 1
Place(k) == IF k < at \/ ~IsPseudo(code[at]) THEN k ELSE k + Grown

\* expandMI moves the instructions behind the pseudo.
LEMMA Places ==
  ASSUME PassInv, ExpandMI
  PROVE  /\ at \in 1..Len(code) /\ Len(code) \in Nat /\ Grown \in Int /\ Grown + 1 \in Nat
         /\ ~IsPseudo(code[at]) => Grown = 0
         /\ Len(code') = Len(code) + Grown
         /\ \A k \in 1..Len(code) : k # at \/ ~IsPseudo(code[at]) =>
              Place(k) \in 1..Len(code') /\ code'[Place(k)] = code[k]
         /\ \A k \in 1..(Grown + 1) : code'[at - 1 + k] = Expansion(code[at])[k]
<1> DEFINE p == code[at]
           e == Expansion(p)
<1>1. at \in 1..Len(code) /\ Len(code) \in Nat /\ IsSeq(code)
  BY CodeFacts DEF PassInv, ExpandMI
<1>2. IsSeq(e) /\ Len(e) \in Nat
  BY ExpansionIsSeq
<1>3. code' = Splice(code, at, e)
  BY DEF ExpandMI, Splice
<1>4. ~IsPseudo(p) => Len(e) = 1 /\ e[1] = p
  BY OneFacts DEF IsPseudo
<1>5. Grown = Len(e) - 1
  BY DEF Grown
<1>. HIDE DEF e, p
<1>6. /\ Len(code') = Len(code) + Len(e) - 1
      /\ \A k \in 1..(at - 1) : code'[k] = code[k]
      /\ \A k \in 1..Len(e) : code'[at - 1 + k] = e[k]
      /\ \A k \in (at + 1)..Len(code) : code'[k + Len(e) - 1] = code[k]
  <2>1. at \in 1..Len(code) /\ IsSeq(code) /\ IsSeq(e)
    BY <1>1, <1>2
  <2>2. /\ IsSeq(Splice(code, at, e)) /\ Len(Splice(code, at, e)) = Len(code) + Len(e) - 1
        /\ \A k \in 1..(at - 1) : Splice(code, at, e)[k] = code[k]
        /\ \A k \in 1..Len(e) : Splice(code, at, e)[at - 1 + k] = e[k]
        /\ \A k \in (at + 1)..Len(code) : Splice(code, at, e)[k + Len(e) - 1] = code[k]
    BY <2>1, SpliceFacts
  <2>. QED
    BY <1>3, <2>2
<1>7. ASSUME NEW k \in 1..Len(code), k # at \/ ~IsPseudo(p)
      PROVE  Place(k) \in 1..Len(code') /\ code'[Place(k)] = code[k]
  <2>1. CASE k < at
    <3>1. Place(k) = k
      BY <2>1 DEF Place
    <3>. QED
      BY <1>1, <1>2, <1>6, <2>1, <3>1
  <2>2. CASE k = at
    <3>1. ~IsPseudo(p) /\ Len(e) = 1 /\ e[1] = p
      BY <1>4, <1>7, <2>2
    <3>2. Place(k) = at
      BY <2>2, <3>1 DEF Place, p
    <3>3. code'[at - 1 + 1] = e[1] /\ at - 1 + 1 = at
      BY <1>1, <1>6, <3>1
    <3>. QED
      BY <1>1, <1>6, <2>2, <3>1, <3>2, <3>3 DEF p
  <2>3. CASE k > at
    <3>1. Place(k) = k + Len(e) - 1
      <4>1. CASE IsPseudo(p)
        BY <1>1, <1>2, <1>5, <2>3, <4>1 DEF Place, p
      <4>2. CASE ~IsPseudo(p)
        <5>1. Place(k) = k
          BY <4>2 DEF Place, p
        <5>2. Len(e) = 1
          BY <1>4, <4>2
        <5>. QED
          BY <5>1, <5>2
      <4>. QED
        BY <4>1, <4>2
    <3>2. k \in (at + 1)..Len(code)
      BY <1>1, <2>3
    <3>3. code'[k + Len(e) - 1] = code[k]
      BY <1>6, <3>2
    <3>. QED
      BY <1>1, <1>2, <1>6, <3>1, <3>2, <3>3
  <2>. QED
    BY <1>1, <2>1, <2>2, <2>3
<1>8. Grown \in Int /\ Grown + 1 = Len(e) /\ Len(code') = Len(code) + Grown
  BY <1>1, <1>2, <1>5, <1>6
<1>9. ~IsPseudo(p) => Grown = 0
  BY <1>4, <1>8
<1>10. \A k \in 1..(Grown + 1) : code'[at - 1 + k] = e[k]
  BY <1>6, <1>8
<1>11. Grown + 1 \in Nat
  BY <1>2, <1>8
<1>. QED
  BY <1>1, <1>7, <1>8, <1>9, <1>10, <1>11 DEF e, p

\* Each instruction was there before or comes from the expansion.
LEMMA PlacedOrMade ==
  ASSUME PassInv, ExpandMI, NEW k \in 1..Len(code')
  PROVE  \/ \E j \in 1..Len(code) : k = Place(j) /\ (j # at \/ ~IsPseudo(code[at]))
         \/ /\ IsPseudo(code[at])
            /\ \E j \in 1..(Grown + 1) : k = at - 1 + j /\ code'[k] = Expansion(code[at])[j]
<1>1. /\ at \in 1..Len(code) /\ Len(code) \in Nat /\ Grown \in Int /\ Grown + 1 \in Nat
      /\ ~IsPseudo(code[at]) => Grown = 0
      /\ Len(code') = Len(code) + Grown
      /\ \A j \in 1..(Grown + 1) : code'[at - 1 + j] = Expansion(code[at])[j]
  BY Places
<1>2. CASE ~IsPseudo(code[at])
  <2>1. k \in 1..Len(code) /\ Place(k) = k
    BY <1>1, <1>2 DEF Place
  <2>. QED
    BY <1>2, <2>1
<1>3. CASE IsPseudo(code[at]) /\ k < at
  <2>1. k \in 1..Len(code) /\ Place(k) = k /\ k # at
    BY <1>1, <1>3 DEF Place
  <2>. QED
    BY <2>1
<1>4. CASE IsPseudo(code[at]) /\ k >= at /\ k <= at + Grown
  <2> DEFINE j == k - at + 1
  <2>1. j \in 1..(Grown + 1) /\ k = at - 1 + j
    BY <1>1, <1>4
  <2>. HIDE DEF j
  <2>. QED
    BY <1>1, <1>4, <2>1
<1>5. CASE IsPseudo(code[at]) /\ k > at + Grown
  <2> DEFINE j == k - Grown
  <2>1. j \in 1..Len(code) /\ j > at /\ j + Grown = k
    BY <1>1, <1>5
  <2>2. Place(j) = k
    BY <1>1, <1>5, <2>1 DEF Place
  <2>. HIDE DEF j
  <2>. QED
    BY <1>1, <2>1, <2>2
<1>. QED
  BY <1>1, <1>2, <1>3, <1>4, <1>5

\* Neighbours that are no pseudos stay neighbours.
LEMMA Together ==
  ASSUME PassInv, ExpandMI, NEW b \in Nat, NEW n \in Nat, n > 0, b + n <= Len(code),
         \A j \in 1..n : ~IsPseudo(code[b + j])
  PROVE  \E c \in Nat : /\ c + n <= Len(code')
                        /\ \A j \in 1..n : c + j = Place(b + j) /\ code'[c + j] = code[b + j]
<1>1. /\ at \in 1..Len(code) /\ Len(code) \in Nat /\ Grown \in Int /\ Grown + 1 \in Nat
      /\ ~IsPseudo(code[at]) => Grown = 0
      /\ Len(code') = Len(code) + Grown
      /\ \A k \in 1..Len(code) : k # at \/ ~IsPseudo(code[at]) =>
           Place(k) \in 1..Len(code') /\ code'[Place(k)] = code[k]
  BY Places
<1>2. ASSUME NEW j \in 1..n PROVE b + j \in 1..Len(code) /\ (b + j # at \/ ~IsPseudo(code[at]))
  <2>1. ~IsPseudo(code[b + j])
    OBVIOUS
  <2>2. b + j \in 1..Len(code)
    BY <1>1
  <2>3. b + j = at => ~IsPseudo(code[at])
    BY <2>1
  <2>. QED
    BY <2>2, <2>3
<1>3. IsPseudo(code[at]) => at <= b \/ at > b + n
  <2>1. ASSUME IsPseudo(code[at]), at > b, at <= b + n PROVE FALSE
    <3>1. at - b \in 1..n /\ b + (at - b) = at
      BY <1>1, <2>1
    <3>. QED
      BY <2>1, <3>1
  <2>. QED
    BY <1>1, <2>1
<1> DEFINE c == IF IsPseudo(code[at]) /\ at <= b THEN b + Grown ELSE b
<1>4. ASSUME NEW j \in 1..n PROVE Place(b + j) = c + j
  <2>1. CASE ~IsPseudo(code[at])
    BY <2>1 DEF Place
  <2>2. CASE IsPseudo(code[at]) /\ at <= b
    BY <1>1, <2>2 DEF Place
  <2>3. CASE IsPseudo(code[at]) /\ at > b + n
    BY <1>1, <2>3 DEF Place
  <2>. QED
    BY <1>3, <2>1, <2>2, <2>3
<1>5. c \in Nat
  BY <1>1
<1>. HIDE DEF c
<1>6. ASSUME NEW j \in 1..n PROVE c + j \in 1..Len(code') /\ code'[c + j] = code[b + j]
  BY <1>1, <1>2, <1>4
<1>7. c + n <= Len(code')
  <2>1. n \in 1..n
    OBVIOUS
  <2>2. c + n \in 1..Len(code')
    BY <1>6, <2>1
  <2>. QED
    BY <1>1, <1>5, <2>2
<1>. QED
  BY <1>4, <1>5, <1>6, <1>7

----------------------------------------------------------------------------
(***************************************************************************)
(* The stack pointer: the two bytes of a write are only written one after  *)
(* the other, with interrupts off or held off in between.                  *)
(***************************************************************************)
ToStack(q) == q.op = "OUTARr" /\ SixBits(q.k) \in StackPorts

\* The registers whose words SPWRITE takes.
SPSources == {program[k].s : k \in {j \in 1..Len(program) : program[j].op = "SPWRITE"}}

\* The expansion of SPWRITE, behind b.
SPBlock(c, b, s) ==
  /\ b + 5 <= Len(c)
  /\ c[b + 1] = MI("INRdA", "A", NoReg, P_ADDR) /\ c[b + 2] = MI("BCLRs", NoReg, NoReg, 7)
  /\ c[b + 3] = MI("OUTARr", NoReg, HiReg[s], SPH)
  /\ c[b + 4] = MI("OUTARr", NoReg, "A", P_ADDR)
  /\ c[b + 5] = MI("OUTARr", NoReg, LoReg[s], SPL)

StackQuiet(q) ==
  /\ q.op \notin Stacked
  /\ q.op = "OUTWARr" => SixBits(q.k) \notin StackPorts /\ SixBits(q.k + 1) \notin StackPorts
  /\ q.op = "SPWRITE" => q.s \in SPSources

StackCode ==
  \A k \in 1..Len(code) :
    /\ StackQuiet(code[k])
    /\ ToStack(code[k]) => \E b \in Nat, s \in SPSources : SPBlock(code, b, s) /\ k \in (b + 1)..(b + 5)

LEMMA Ports == /\ SixBits(SPL) = SPL /\ SixBits(SPH) = SPH /\ SixBits(P_ADDR) = P_ADDR
               /\ SPL # SPH /\ SPL # P_ADDR /\ SPH # P_ADDR
BY DEF SixBits, SPL, SPH, P_ADDR

\* A byte instruction that is no write to a port, and none of the stack.
LEMMA QuietOps ==
  ASSUME NEW op, op \notin Stacked, op \notin {"OUTWARr", "SPWRITE", "OUTARr"}, NEW d, NEW s, NEW k
  PROVE  StackQuiet(MI(op, d, s, k)) /\ ~ToStack(MI(op, d, s, k))
BY RankOfMI DEF StackQuiet, ToStack

\* Instructions away from the stack pointer.
LEMMA QuietOuts ==
  ASSUME NEW d, NEW s, NEW k
  PROVE  /\ StackQuiet(MI("OUTARr", d, s, k))
         /\ ToStack(MI("OUTARr", d, s, k)) => SixBits(k) \in StackPorts
BY RankOfMI DEF StackQuiet, ToStack, Stacked

\* expandAtomic does not write the stack pointer.
LEMMA QuietAtomicParts ==
  ASSUME NEW q \in AtomicParts
  PROVE  StackQuiet(q) /\ ~ToStack(q)
<1>1. P_ADDR \notin StackPorts /\ SixBits(P_ADDR) = P_ADDR
  BY Ports DEF StackPorts
<1>2. CASE q = MI("OUTARr", NoReg, "A", P_ADDR)
  BY <1>1, <1>2, QuietOuts
<1>3. CASE q = MI("INRdA", "A", NoReg, P_ADDR)
  BY <1>3, QuietOps DEF Stacked
<1>4. CASE q = MI("BCLRs", NoReg, NoReg, 7)
  BY <1>4, QuietOps DEF Stacked
<1>. QED
  BY <1>2, <1>3, <1>4 DEF AtomicParts

\* No other expansion writes the stack pointer.
LEMMA ExpansionQuiet ==
  ASSUME NEW p, IsPseudo(p), Fits(p), StackQuiet(p), NEW q \in Members(Expansion(p))
  PROVE  StackQuiet(q) /\ (ToStack(q) => p.op = "SPWRITE")
<1>1. p.op \in {"LDWRdPtr", "LDDWRdPtrQ"} => p.d # p.s
  BY DEF Fits
<1>2. CASE p.op \in DOMAIN ByteOps
  <2>1. PICK op, d, s, k : q = MI(op, d, s, k) /\ (op = ByteOps[p.op][1] \/ op = ByteOps[p.op][2])
    BY <1>1, <1>2, ExpansionParts DEF LoHalf, HiHalf, Half
  <2>2. op \notin Stacked /\ op \notin {"OUTWARr", "SPWRITE", "OUTARr"}
    BY <1>2, <2>1 DEF ByteOps, Stacked
  <2>. QED
    BY <2>1, <2>2, QuietOps
<1>3. CASE p.op \in WordAccesses
  <2>1. q \in AccessParts(p)
    BY <1>1, <1>3, ExpansionParts
  <2>2. CASE p.op = "OUTWARr"
    <3>1. \E s : q = MI("OUTARr", NoReg, s, p.k) \/ q = MI("OUTARr", NoReg, s, p.k + 1)
      BY <2>1, <2>2 DEF AccessParts, TwoStores
    <3>2. SixBits(p.k) \notin StackPorts /\ SixBits(p.k + 1) \notin StackPorts
      BY <2>2 DEF StackQuiet
    <3>. QED
      BY <3>1, <3>2, QuietOuts
  <2>3. CASE p.op # "OUTWARr"
    <3>1. PICK op, d, s, k :
            /\ q = MI(op, d, s, k)
            /\ op \in {"LDRdPtr", "LDDRdPtrQ", "LDRdPtrPi", "LDRdPtrPd", "LDSRdK", "INRdA", "STSKRr",
                       "STPtrRr", "STDPtrQRr", "STPtrPiRr", "STPtrPdRr"}
      BY <1>3, <2>1, <2>3 DEF AccessParts, TwoLoads, TwoStores, WordAccesses
    <3>2. op \notin Stacked /\ op \notin {"OUTWARr", "SPWRITE", "OUTARr"}
      BY <3>1 DEF Stacked
    <3>. QED
      BY <3>1, <3>2, QuietOps
  <2>. QED
    BY <2>2, <2>3
<1>4. CASE p.op \in DOMAIN AtomicMoves \cup DOMAIN AtomicOps
  <2>1. \/ q \in AtomicParts
        \/ p.op \in DOMAIN AtomicMoves /\ q = MI(AtomicMoves[p.op], p.d, p.s, 0)
        \/ p.op \in DOMAIN AtomicOps /\ q \in ArithmeticParts(p)
    BY <1>1, <1>4, ExpansionParts
  <2>2. CASE q \notin AtomicParts
    <3>1. PICK op, d, s, k :
            /\ q = MI(op, d, s, k)
            /\ op \in {"LDRdPtr", "LDWRdPtr", "STPtrRr", "STWPtrRr", "ADDRdRr", "SUBRdRr", "ANDRdRr",
                       "ORRdRr", "EORRdRr", "ADDWRdRr", "SUBWRdRr", "ANDWRdRr", "ORWRdRr",
                       "EORWRdRr"}
      BY <2>1, <2>2 DEF AtomicMoves, AtomicOps, ArithmeticParts
    <3>2. op \notin Stacked /\ op \notin {"OUTWARr", "SPWRITE", "OUTARr"}
      BY <3>1 DEF Stacked
    <3>. QED
      BY <3>1, <3>2, QuietOps
  <2>. QED
    BY <2>2, QuietAtomicParts
<1>5. CASE p.op = "SPWRITE"
  <2>1. q \in SPWriteParts(p)
    BY <1>1, <1>5, ExpansionParts
  <2>. QED
    BY <1>5, <2>1, QuietAtomicParts, QuietOuts DEF SPWriteParts
<1>6. p.op \notin {"AtomicFence", "PUSHWRr", "POPWRd"}
  BY <1>1, ExpansionParts DEF StackQuiet, Stacked
<1>7. p.op \in DOMAIN ByteOps \cup WordAccesses \cup DOMAIN AtomicMoves
                 \cup DOMAIN AtomicOps \cup {"AtomicFence", "PUSHWRr", "POPWRd", "SPWRITE"}
  <2>1. Rank(p) # 0
    BY PseudosHaveRank
  <2>. QED
    BY <2>1 DEF Rank, Once, Twice, AtomicMoves, AtomicOps, Atomic8
<1>. QED
  BY <1>2, <1>3, <1>4, <1>5, <1>6, <1>7

\* SPWRITE becomes a block of its own.
LEMMA SPWriteMakesBlock ==
  ASSUME PassInv, ExpandMI, code[at].op = "SPWRITE"
  PROVE  /\ Grown = 4 /\ at - 1 \in Nat /\ SPBlock(code', at - 1, code[at].s)
<1> DEFINE s == code[at].s
           a == MI("INRdA", "A", NoReg, P_ADDR)
           b == MI("BCLRs", NoReg, NoReg, 7)
           c == MI("OUTARr", NoReg, HiReg[s], SPH)
           d == MI("OUTARr", NoReg, "A", P_ADDR)
           f == MI("OUTARr", NoReg, LoReg[s], SPL)
           e == Expansion(code[at])
<1>1. e = <<a, b, c, d, f>>
  BY ExpansionByKind DEF SPWrite
<1>2. /\ at \in 1..Len(code) /\ Len(code) \in Nat /\ Grown = Len(e) - 1
      /\ Len(code') = Len(code) + Grown
      /\ \A k \in 1..(Grown + 1) : code'[at - 1 + k] = e[k]
  BY Places DEF Grown
<1>3. SPBlock(code', at - 1, s) <=>
        /\ at - 1 + 5 <= Len(code')
        /\ code'[at - 1 + 1] = a /\ code'[at - 1 + 2] = b /\ code'[at - 1 + 3] = c
        /\ code'[at - 1 + 4] = d /\ code'[at - 1 + 5] = f
  BY DEF SPBlock
<1>. HIDE DEF a, b, c, d, f, e
<1>4. Len(e) = 5 /\ e[1] = a /\ e[2] = b /\ e[3] = c /\ e[4] = d /\ e[5] = f
  BY <1>1, FiveFacts
<1>5. Grown = 4
  BY <1>2, <1>4
<1>6. /\ code'[at - 1 + 1] = a /\ code'[at - 1 + 2] = b /\ code'[at - 1 + 3] = c
      /\ code'[at - 1 + 4] = d /\ code'[at - 1 + 5] = f
  BY <1>2, <1>4, <1>5
<1>7. at - 1 + 5 <= Len(code') /\ at - 1 \in Nat
  <2>1. at \in 1..Len(code) /\ Len(code) \in Nat /\ Len(code') = Len(code) + 4
    BY <1>2, <1>5
  <2>. QED
    BY <2>1
<1>. QED
  BY <1>3, <1>5, <1>6, <1>7

\* The five instructions of a block that is not torn apart.
LEMMA BlockMoves ==
  ASSUME PassInv, ExpandMI, NEW b \in Nat, NEW s, SPBlock(code, b, s)
  PROVE  \E c \in Nat : SPBlock(code', c, s) /\ \A j \in 1..5 : Place(b + j) = c + j
<1>1. ASSUME NEW j \in 1..5 PROVE ~IsPseudo(code[b + j])
  <2>1. j = 1 \/ j = 2 \/ j = 3 \/ j = 4 \/ j = 5
    OBVIOUS
  <2>2. code[b + j].op \in {"INRdA", "BCLRs", "OUTARr"}
    BY <2>1, RankOfMI DEF SPBlock
  <2>3. Rank(code[b + j]) = 0
    BY <2>2, NativeOps DEF Rank, RankOfOp
  <2>. QED
    BY <2>3, PseudosHaveRank
<1>2. b + 5 <= Len(code) /\ 5 \in Nat /\ 5 > 0
  BY DEF SPBlock
<1>3. PICK c \in Nat : /\ c + 5 <= Len(code')
                       /\ \A j \in 1..5 : c + j = Place(b + j) /\ code'[c + j] = code[b + j]
  BY <1>1, <1>2, Together
<1>4. /\ code'[c + 1] = code[b + 1] /\ code'[c + 2] = code[b + 2] /\ code'[c + 3] = code[b + 3]
      /\ code'[c + 4] = code[b + 4] /\ code'[c + 5] = code[b + 5]
  BY <1>3
<1>5. SPBlock(code', c, s)
  BY <1>3, <1>4 DEF SPBlock
<1>. QED
  BY <1>3, <1>5

\* The stack pointer is only written by SPWRITE at first.
LEMMA StackCodeInit ==
  ASSUME Init, WritesStackWhole(program)
  PROVE  StackCode
<1>1. ASSUME NEW k \in 1..Len(program) PROVE StackQuiet(program[k]) /\ ~ToStack(program[k])
  BY <1>1 DEF WritesStackWhole, StackQuiet, ToStack, SPSources
<1>. QED
  BY <1>1 DEF Init, StackCode

\* And then only by the whole block SPWRITE becomes.
LEMMA StackCodeStep ==
  ASSUME PassInv, CodeInv, StackCode, [Next]_vars
  PROVE  StackCode'
<1>1. program' = program /\ SPSources' = SPSources
  BY DEF Next, Run, ExpandMI, NextRound, StartRun, Step, Halt, Interrupt, DeviceTick, Stopped, pass,
         vars, SPSources
<1>2. CASE ExpandMI
  <2>1. at \in 1..Len(code)
    BY <1>2, Places
  <2>2. ASSUME NEW k \in 1..Len(code')
        PROVE  /\ StackQuiet(code'[k])
               /\ ToStack(code'[k]) =>
                    \E b \in Nat, s \in SPSources : SPBlock(code', b, s) /\ k \in (b + 1)..(b + 5)
    <3>1. ASSUME NEW j \in 1..Len(code), k = Place(j), j # at \/ ~IsPseudo(code[at])
          PROVE  /\ StackQuiet(code'[k])
                 /\ ToStack(code'[k]) =>
                      \E b \in Nat, s \in SPSources : SPBlock(code', b, s) /\ k \in (b + 1)..(b + 5)
      <4>1. code'[k] = code[j]
        BY <1>2, <3>1, Places
      <4>2. ASSUME ToStack(code[j])
            PROVE  \E b \in Nat, s \in SPSources : SPBlock(code', b, s) /\ k \in (b + 1)..(b + 5)
        <5>1. PICK b \in Nat, s \in SPSources : SPBlock(code, b, s) /\ j \in (b + 1)..(b + 5)
          BY <4>2 DEF StackCode
        <5>2. PICK c \in Nat : SPBlock(code', c, s) /\ \A i \in 1..5 : Place(b + i) = c + i
          BY <1>2, <5>1, BlockMoves
        <5>3. j - b \in 1..5 /\ b + (j - b) = j
          BY <5>1
        <5>4. k = c + (j - b)
          BY <3>1, <5>2, <5>3
        <5>5. k \in (c + 1)..(c + 5)
          BY <5>3, <5>4
        <5>. QED
          BY <5>2, <5>5
      <4>. QED
        BY <4>1, <4>2 DEF StackCode
    <3>2. ASSUME IsPseudo(code[at]), NEW j \in 1..(Grown + 1), k = at - 1 + j,
                 code'[k] = Expansion(code[at])[j]
          PROVE  /\ StackQuiet(code'[k])
                 /\ ToStack(code'[k]) =>
                      \E b \in Nat, s \in SPSources : SPBlock(code', b, s) /\ k \in (b + 1)..(b + 5)
      <4>1. j \in 1..Len(Expansion(code[at]))
        BY ExpansionIsSeq DEF Grown
      <4>2. code'[k] \in Members(Expansion(code[at]))
        BY <3>2, <4>1 DEF Members
      <4>3. Fits(code[at]) /\ StackQuiet(code[at])
        BY <2>1 DEF CodeInv, StackCode
      <4>4. StackQuiet(code'[k]) /\ (ToStack(code'[k]) => code[at].op = "SPWRITE")
        BY <3>2, <4>2, <4>3, ExpansionQuiet
      <4>5. ASSUME code[at].op = "SPWRITE"
            PROVE  \E b \in Nat, s \in SPSources : SPBlock(code', b, s) /\ k \in (b + 1)..(b + 5)
        <5>1. Grown = 4 /\ at - 1 \in Nat /\ SPBlock(code', at - 1, code[at].s)
          BY <1>2, <4>5, SPWriteMakesBlock
        <5>2. code[at].s \in SPSources
          BY <4>3, <4>5 DEF StackQuiet
        <5>3. k \in ((at - 1) + 1)..((at - 1) + 5)
          BY <3>2, <5>1
        <5>. QED
          BY <5>1, <5>2, <5>3
      <4>. QED
        BY <4>4, <4>5
    <3>. QED
      BY <1>2, <3>1, <3>2, PlacedOrMade
  <2>. QED
    BY <1>1, <2>2 DEF StackCode, StackQuiet
<1>3. CASE ~ExpandMI
  <2>1. code' = code
    BY <1>3 DEF Next, Run, NextRound, StartRun, Step, Halt, Interrupt, DeviceTick, Stopped, pass, vars
  <2>. QED
    BY <1>1, <2>1 DEF StackCode, StackQuiet
<1>. QED
  BY <1>2, <1>3

StartInv == phase \in {"run", "done"} => start \in Machines

\* The high byte of s has been written, the low byte not yet.
AtHalf(b, s) == SPBlock(code, b, s) /\ at \in {b + 4, b + 5}

HalfWritten(b, s) ==
  /\ \E w \in Word : m.sp = Pair(Lo(w), start.reg[HiReg[s]])
  /\ at = b + 4 => m.P.i = 0
  /\ at = b + 5 => m.shadow = TRUE

WholeSP == m.sp \in {start.sp} \cup Stored({"SPWRITE"})

StackInv ==
  phase = "run" =>
    /\ at > 1 /\ code[at - 1].op = "BCLRs" => m.P.i = 0
    /\ \A b \in Nat, s \in SPSources : AtHalf(b, s) => HalfWritten(b, s)
    /\ WholeSP \/ \E b \in Nat, s \in SPSources : AtHalf(b, s)

\* The machine before the program is one of its starts.
LEMMA StartInvStep == ASSUME CodeInv, StartInv, [Next]_vars PROVE StartInv'
BY ExpandAssumption DEF CodeInv, StartInv, Next, Run, ExpandMI, NextRound, StartRun, Step, Halt,
     Interrupt, Interruptible, DeviceTick, Stopped, pass, machine, vars

\* Writing a port, executed.
LEMMA ExecOut ==
  ASSUME NEW x, Shaped(x), NEW d, NEW s, NEW k
  PROVE  /\ Exec(MI("OUTARr", d, s, k), x) = Out(Unshadowed(x), SixBits(k), x.reg[Encoded(s)])
         /\ Shaped(Unshadowed(x)) /\ Unshadowed(x).sp = x.sp /\ Unshadowed(x).P = x.P
<1>1. MI("OUTARr", d, s, k).op = "OUTARr" /\ MI("OUTARr", d, s, k).k = k
      /\ MI("OUTARr", d, s, k).s = s
  BY RankOfMI
<1>2. Exec(MI("OUTARr", d, s, k), x) = Effect(MI("OUTARr", d, s, k), Unshadowed(x))
  BY DEF Exec, Unshadowed
<1>3. Effect(MI("OUTARr", d, s, k), Unshadowed(x))
        = Out(Unshadowed(x), SixBits(k), Unshadowed(x).reg[Encoded(s)])
  BY <1>1, EffectByKind
<1>. QED
  BY <1>2, <1>3, UnshadowedFacts

\* BCLR disables interrupts.
LEMMA ExecClear ==
  ASSUME NEW q, q.op = "BCLRs", NEW x, Shaped(x)
  PROVE  Exec(q, x).P.i = 0
<1> DEFINE u == Unshadowed(x)
<1>1. Exec(q, x) = [u EXCEPT !.P.i = 0]
  <2>1. Exec(q, x) = Effect(q, u)
    BY DEF Exec, Unshadowed
  <2>. HIDE DEF u
  <2>2. Effect(q, u) = [u EXCEPT !.P.i = 0]
    BY EffectByKind
  <2>. QED
    BY <2>1, <2>2
<1>2. Shaped(u)
  BY UnshadowedFacts
<1>. HIDE DEF u
<1>3. "P" \in DOMAIN u /\ "i" \in DOMAIN u.P
  BY <1>2 DEF Shaped
<1>4. [u EXCEPT !.P.i = 0].P.i = 0
  BY <1>3
<1>. QED
  BY <1>1, <1>4

\* The three writes to ports of a block.
LEMMA BlockWrites ==
  ASSUME NEW x, Shaped(x), NEW s \in WordRegs
  PROVE  LET high == Exec(MI("OUTARr", NoReg, HiReg[s], SPH), x)
             back == Exec(MI("OUTARr", NoReg, "A", P_ADDR), x)
             low  == Exec(MI("OUTARr", NoReg, LoReg[s], SPL), x)
         IN  /\ high.sp = Pair(Lo(x.sp), x.reg[HiReg[s]]) /\ high.P = x.P
             /\ back.sp = x.sp /\ back.shadow = (x.P.i = 0)
             /\ low.sp = Pair(x.reg[LoReg[s]], Hi(x.sp))
<1>1. Encoded(HiReg[s]) = HiReg[s] /\ Encoded(LoReg[s]) = LoReg[s]
  BY HalfRegisters DEF Encoded
<1> DEFINE u == Unshadowed(x)
<1>2. Shaped(u) /\ u.sp = x.sp /\ u.P = x.P
  BY ExecOut
<1>3. /\ Exec(MI("OUTARr", NoReg, HiReg[s], SPH), x) = Out(u, SPH, x.reg[HiReg[s]])
      /\ Exec(MI("OUTARr", NoReg, LoReg[s], SPL), x) = Out(u, SPL, x.reg[LoReg[s]])
      /\ Exec(MI("OUTARr", NoReg, "A", P_ADDR), x) = Out(u, P_ADDR, x.reg[Encoded("A")])
  BY <1>1, ExecOut, Ports
<1>. HIDE DEF u
<1>4. Out(u, SPH, x.reg[HiReg[s]]).sp = Pair(Lo(x.sp), x.reg[HiReg[s]])
      /\ Out(u, SPH, x.reg[HiReg[s]]).P = x.P
  BY <1>2, OutFacts
<1>5. Out(u, SPL, x.reg[LoReg[s]]).sp = Pair(x.reg[LoReg[s]], Hi(x.sp))
  BY <1>2, OutFacts
<1>6. Out(u, P_ADDR, x.reg[Encoded("A")]).sp = x.sp
  BY <1>2, OutFacts, Ports
<1>7. Out(u, P_ADDR, x.reg[Encoded("A")]).shadow = (x.P.i = 0)
  BY <1>2, OutFacts
<1>. QED
  BY <1>3, <1>4, <1>5, <1>6, <1>7

\* SPWRITE writes words the block keeps.
LEMMA SourcesSteady ==
  ASSUME WritesStackWhole(program)
  PROVE  /\ SPSources \subseteq Steady /\ Steady \subseteq WordRegs
         /\ \A s \in SPSources : WordOf(start, s) \in Stored({"SPWRITE"})
         /\ \A w \in Stored({"SPWRITE"}) : \E s \in SPSources : w = WordOf(start, s)
BY DEF WritesStackWhole, SPSources, Steady, SteadyIn, Stored

\* They are words.
LEMMA WordsOfStart ==
  ASSUME NEW x \in Machines, NEW r \in WordRegs
  PROVE  /\ x.reg[LoReg[r]] \in Byte /\ x.reg[HiReg[r]] \in Byte /\ WordOf(x, r) \in Word
         /\ x.sp \in Word
<1>1. x.reg \in [ByteRegs -> Byte] /\ x.sp \in Word
  BY DEF Machines
<1>2. x.reg[LoReg[r]] \in Byte /\ x.reg[HiReg[r]] \in Byte
  BY <1>1, HalfRegisters
<1>. QED
  BY <1>1, <1>2, PairIsWord DEF WordOf

\* A block is entered from its first instruction only, and two blocks do
\* not overlap where the stack pointer is half-written.
LEMMA BlockOps ==
  ASSUME NEW b \in Nat, NEW s, SPBlock(code, b, s)
  PROVE  /\ code[b + 2].op = "BCLRs" /\ ~ToStack(code[b + 1]) /\ ~ToStack(code[b + 2])
         /\ code[b + 3].op = "OUTARr" /\ code[b + 3].k = SPH
         /\ code[b + 4].op = "OUTARr" /\ code[b + 4].k = P_ADDR /\ ~ToStack(code[b + 4])
         /\ code[b + 5].op = "OUTARr" /\ code[b + 5].k = SPL /\ ToStack(code[b + 5])
<1>1. /\ code[b + 1].op = "INRdA" /\ code[b + 2].op = "BCLRs"
      /\ code[b + 3].op = "OUTARr" /\ code[b + 3].k = SPH
      /\ code[b + 4].op = "OUTARr" /\ code[b + 4].k = P_ADDR
      /\ code[b + 5].op = "OUTARr" /\ code[b + 5].k = SPL
  BY RankOfMI DEF SPBlock
<1>. QED
  BY <1>1, Ports DEF ToStack, StackPorts

\* At the start the stack pointer is whole.
LEMMA StackInvStart ==
  ASSUME StartRun
  PROVE  StackInv'
<1>1. PICK m0 \in Starts(program) : m' = m0 /\ start' = m0 /\ at' = 1
  BY DEF StartRun
<1>2. m'.sp = start'.sp
  BY <1>1
<1>3. ASSUME NEW b \in Nat PROVE 1 # b + 4 /\ 1 # b + 5
  OBVIOUS
<1>. QED
  BY <1>1, <1>2, <1>3 DEF StackInv, WholeSP, AtHalf

\* The properties of the next state follow from the machine keeping its
\* stack pointer, status and shadow, and the registers of the start.
LEMMA StackInvSame ==
  ASSUME StackInv, m'.sp = m.sp, m'.P = m.P, m'.shadow = m.shadow, start' = start,
         phase' = "run" => phase = "run",
         phase' = "run" => at' = at /\ code' = code /\ program' = program
  PROVE  StackInv'
BY DEF StackInv, WholeSP, AtHalf, HalfWritten, SPSources, SPBlock, Stored

\* One instruction of the expanded code.
LEMMA StackInvExec ==
  ASSUME PassInv, CodeInv, KeptInv, StartInv, StackCode, StackInv, WritesStackWhole(program), Step
  PROVE  StackInv'
<1>1. /\ phase = "run" /\ at \in 1..Len(code) /\ Len(code) \in Nat /\ at' = at + 1
      /\ m' = Exec(code[at], m) /\ start' = start /\ code' = code /\ program' = program
  BY CodeFacts DEF Step
<1>2. Shaped(m) /\ start \in Machines /\ Fits(code[at]) /\ ~IsPseudo(code[at])
  BY <1>1, CodeFacts DEF KeptInv, StartInv, CodeInv
<1>3. \A s \in SPSources :
        /\ s \in WordRegs /\ start.reg[LoReg[s]] \in Byte /\ start.reg[HiReg[s]] \in Byte
        /\ m.reg[LoReg[s]] = start.reg[LoReg[s]] /\ m.reg[HiReg[s]] = start.reg[HiReg[s]]
  BY <1>1, <1>2, SourcesSteady, WordsOfStart DEF KeptInv
<1>4. WholeSP => m.sp \in Word
  <2>1. \A s \in SPSources : WordOf(start, s) \in Word
    BY <1>2, <1>3, WordsOfStart
  <2>2. start.sp \in Word
    BY <1>2 DEF Machines
  <2>. QED
    BY <2>1, <2>2, SourcesSteady DEF WholeSP
<1>5. ~ToStack(code[at]) => m'.sp = m.sp
  <2>1. CASE code[at].op # "OUTARr"
    <3>1. code[at].op \notin {"PHAstk", "POPRd"}
      BY <1>1 DEF StackCode, StackQuiet, Stacked
    <3>. QED
      BY <1>1, <1>2, <2>1, <3>1, ExecKeeps
  <2>2. CASE code[at].op = "OUTARr"
    <3>1. m' = Out(Unshadowed(m), SixBits(code[at].k), Unshadowed(m).reg[Encoded(code[at].s)])
      BY <1>1, <2>2, EffectByKind DEF Exec, Unshadowed
    <3>2. Shaped(Unshadowed(m)) /\ Unshadowed(m).sp = m.sp
      BY <1>2, UnshadowedFacts
    <3>. QED
      BY <2>2, <3>1, <3>2, OutFacts DEF ToStack, StackPorts
  <2>. QED
    BY <2>1, <2>2
<1>6. at' > 1 /\ code'[at' - 1].op = "BCLRs" => m'.P.i = 0
  <2>1. at' - 1 = at
    BY <1>1
  <2>. QED
    BY <1>1, <1>2, <2>1, ExecClear
<1>7. ASSUME NEW b \in Nat, NEW s \in SPSources, SPBlock(code, b, s), at + 1 \in {b + 4, b + 5}
      PROVE  /\ \E w \in Word : m'.sp = Pair(Lo(w), start.reg[HiReg[s]])
             /\ at + 1 = b + 4 => m'.P.i = 0
             /\ at + 1 = b + 5 => m'.shadow = TRUE
  <2>1. CASE at + 1 = b + 4
    <3>1. at = b + 3 /\ at > 1 /\ at - 1 = b + 2
      BY <1>1, <2>1
    <3>2. code[at] = MI("OUTARr", NoReg, HiReg[s], SPH)
      BY <1>7, <3>1 DEF SPBlock
    <3>3. m.P.i = 0
      BY <1>1, <1>7, <3>1, BlockOps DEF StackInv
    <3>4. m.sp \in Word
      <4>1. ASSUME NEW c \in Nat, NEW t \in SPSources, AtHalf(c, t) PROVE FALSE
        <5>1. code[at].k = SPH /\ SPBlock(code, c, t) /\ (at = c + 4 \/ at = c + 5)
          BY <3>2, <4>1, RankOfMI DEF AtHalf
        <5>2. code[at].k = P_ADDR \/ code[at].k = SPL
          BY <5>1, BlockOps
        <5>. QED
          BY <5>1, <5>2, Ports
      <4>. QED
        BY <1>1, <1>4, <4>1 DEF StackInv
    <3>5. m'.sp = Pair(Lo(m.sp), start.reg[HiReg[s]]) /\ m'.P = m.P
      BY <1>1, <1>2, <1>3, <3>2, BlockWrites
    <3>. QED
      BY <2>1, <3>3, <3>4, <3>5
  <2>2. CASE at + 1 = b + 5
    <3>1. at = b + 4
      BY <1>1, <2>2
    <3>2. code[at] = MI("OUTARr", NoReg, "A", P_ADDR)
      BY <1>7, <3>1 DEF SPBlock
    <3>3. HalfWritten(b, s)
      BY <1>1, <1>7, <3>1 DEF StackInv, AtHalf
    <3>4. m.P.i = 0 /\ \E w \in Word : m.sp = Pair(Lo(w), start.reg[HiReg[s]])
      BY <3>1, <3>3 DEF HalfWritten
    <3>5. m'.sp = m.sp /\ m'.shadow = (m.P.i = 0)
      BY <1>1, <1>2, <1>3, <3>2, BlockWrites
    <3>6. m'.shadow = TRUE
      BY <3>4, <3>5
    <3>. QED
      BY <2>2, <3>4, <3>5, <3>6
  <2>. QED
    BY <1>7, <2>1, <2>2
<1>8. \/ m'.sp \in {start.sp} \cup Stored({"SPWRITE"})
      \/ \E b \in Nat, s \in SPSources : SPBlock(code, b, s) /\ at + 1 \in {b + 4, b + 5}
  <2>1. CASE ~ToStack(code[at]) /\ WholeSP
    BY <1>5, <2>1 DEF WholeSP
  <2>2. CASE ~ToStack(code[at]) /\ ~WholeSP
    <3>1. PICK b \in Nat, s \in SPSources : SPBlock(code, b, s) /\ at \in {b + 4, b + 5}
      BY <1>1, <2>2 DEF StackInv, AtHalf
    <3>2. at # b + 5
      BY <2>2, <3>1, BlockOps
    <3>3. at + 1 = b + 5
      BY <3>1, <3>2
    <3>. QED
      BY <3>1, <3>3
  <2>3. CASE ToStack(code[at])
    <3>1. PICK b \in Nat, s \in SPSources : SPBlock(code, b, s) /\ at \in (b + 1)..(b + 5)
      BY <1>1, <2>3 DEF StackCode
    <3>2. at # b + 1 /\ at # b + 2 /\ at # b + 4
      BY <2>3, <3>1, BlockOps
    <3>3. at = b + 3 \/ at = b + 5
      BY <3>1, <3>2
    <3>4. CASE at = b + 3
      <4>1. at + 1 = b + 4
        BY <3>4
      <4>. QED
        BY <3>1, <4>1
    <3>5. CASE at = b + 5
      <4>1. code[at] = MI("OUTARr", NoReg, LoReg[s], SPL)
        BY <3>1, <3>5 DEF SPBlock
      <4>2. HalfWritten(b, s)
        BY <1>1, <3>1, <3>5 DEF StackInv, AtHalf
      <4>3. PICK w \in Word : m.sp = Pair(Lo(w), start.reg[HiReg[s]])
        BY <4>2 DEF HalfWritten
      <4>4. Hi(m.sp) = start.reg[HiReg[s]]
        BY <1>3, <4>3, Halves, PairIsWord
      <4>5. m'.sp = Pair(start.reg[LoReg[s]], start.reg[HiReg[s]])
        BY <1>1, <1>2, <1>3, <4>1, <4>4, BlockWrites
      <4>. QED
        BY <4>5, SourcesSteady DEF WordOf
    <3>. QED
      BY <3>3, <3>4, <3>5
  <2>. QED
    BY <2>1, <2>2, <2>3
<1>9. \A b, s : SPBlock(code', b, s) <=> SPBlock(code, b, s)
  BY <1>1 DEF SPBlock
<1>10. SPSources' = SPSources /\ Stored({"SPWRITE"})' = Stored({"SPWRITE"})
  BY <1>1 DEF SPSources, Stored
<1>11. \A b \in Nat, s \in SPSources : AtHalf(b, s)' => HalfWritten(b, s)'
  BY <1>1, <1>7, <1>9 DEF AtHalf, HalfWritten
<1>12. WholeSP' \/ \E b \in Nat, s \in SPSources : AtHalf(b, s)'
  BY <1>1, <1>8, <1>9, <1>10 DEF WholeSP, AtHalf
<1>. QED
  BY <1>6, <1>10, <1>11, <1>12 DEF StackInv

\* No step makes it half written with interrupts on.
LEMMA StackInvStep ==
  ASSUME PassInv, CodeInv, KeptInv, StartInv, StackCode, StackInv, WritesStackWhole(program),
         [Next]_vars
  PROVE  StackInv'
<1>1. CASE ExpandMI \/ NextRound
  BY <1>1 DEF ExpandMI, NextRound, PassInv, StackInv
<1>2. CASE StartRun
  BY <1>2, StackInvStart
<1>3. CASE Step
  BY <1>3, StackInvExec
<1>4. CASE Halt
  BY <1>4 DEF Halt, StackInv
<1>5. CASE Stopped \/ UNCHANGED vars
  <2>1. /\ m' = m /\ start' = start /\ phase' = phase /\ at' = at /\ code' = code
        /\ program' = program
    BY <1>5 DEF Stopped, vars, machine, pass
  <2>. QED
    BY <2>1, StackInvSame
<1>6. CASE Interrupt
  <2>1. phase = "run" /\ start' = start /\ at' = at /\ code' = code /\ program' = program
    BY <1>6 DEF Interrupt, Interruptible, pass
  <2>2. m'.sp = m.sp /\ m'.P = m.P /\ m'.shadow = m.shadow
    BY <1>6, <2>1, InterruptFacts DEF KeptInv
  <2>. QED
    BY <2>1, <2>2, StackInvSame
<1>7. CASE DeviceTick
  <2>1. phase = "run" /\ start' = start /\ at' = at /\ code' = code /\ program' = program
    BY <1>7 DEF DeviceTick, pass
  <2>2. m'.sp = m.sp /\ m'.P = m.P /\ m'.shadow = m.shadow
    BY <1>7, <2>1, DeviceTickFacts DEF KeptInv
  <2>. QED
    BY <2>1, <2>2, StackInvSame
<1>. QED
  BY <1>1, <1>2, <1>3, <1>4, <1>5, <1>6, <1>7 DEF Next, Run

\* What the invariant is for.
LEMMA StackInvMeans ==
  ASSUME StackInv
  PROVE  StackPointerWhole
<1>1. SUFFICES ASSUME phase = "run", m.P.i = 1, ~m.shadow PROVE WholeSP
  BY <1>1 DEF StackPointerWhole, Interruptible, WholeSP
<1>2. ASSUME NEW b \in Nat, NEW s \in SPSources, AtHalf(b, s) PROVE FALSE
  <2>1. HalfWritten(b, s) /\ (at = b + 4 \/ at = b + 5)
    BY <1>1, <1>2 DEF StackInv, AtHalf
  <2>2. CASE at = b + 4
    BY <1>1, <2>1, <2>2 DEF HalfWritten
  <2>3. CASE at = b + 5
    <3>1. m.shadow = TRUE
      BY <2>1, <2>3 DEF HalfWritten
    <3>. QED
      BY <1>1, <3>1
  <2>. QED
    BY <2>1, <2>2, <2>3
<1>. QED
  BY <1>1, <1>2 DEF StackInv

\* The contract on every program.
StackPromise == AllFit /\ \A p \in Programs : WritesStackWhole(p)

\* SPWRITE, interrupted anywhere: when an interrupt can be taken, SP is the
\* stack pointer from before or one that a SPWRITE of the block writes.
THEOREM StackPointerSafe == ASSUME StackPromise PROVE Spec => []StackPointerWhole
<1> DEFINE Inv == /\ PassInv /\ CodeInv /\ KeptInv /\ StartInv /\ StackCode /\ StackInv
                  /\ WritesStackWhole(program)
<1>1. Init => Inv
  <2>1. Init => WritesStackWhole(program)
    BY DEF Init, StackPromise
  <2>2. Init => KeptInv /\ StartInv /\ StackInv
    BY DEF Init, KeptInv, StartInv, StackInv
  <2>. QED
    BY <2>1, <2>2, PassInvInit, CodeInvInit, StackCodeInit DEF StackPromise
<1>2. Inv /\ [Next]_vars => Inv'
  <2>1. ASSUME [Next]_vars PROVE program' = program
    BY <2>1 DEF Next, Run, ExpandMI, NextRound, StartRun, Step, Halt, Interrupt, DeviceTick, Stopped,
                pass, vars
  <2>2. ASSUME WritesStackWhole(program), [Next]_vars PROVE WritesStackWhole(program)'
    BY <2>1, <2>2 DEF WritesStackWhole, SteadyIn
  <2>. QED
    BY <2>2, PassInvStep, CodeInvStep, KeptInvStep, StartInvStep, StackCodeStep, StackInvStep
<1>3. Inv => StackPointerWhole
  BY StackInvMeans
<1>. HIDE DEF Inv
<1>. QED
  BY <1>1, <1>2, <1>3, PTL DEF Spec

----------------------------------------------------------------------------
(***************************************************************************)
(* The device: the high byte is in its temporary register when the low     *)
(* byte is written.                                                        *)
(***************************************************************************)
WordWrites == {"STSWKRr", "OUTWARr"}
ByteWrites == {"STSKRr", "OUTARr"}

ToDevice(q) == q.op \in ByteWrites /\ Port(q, q.k) \in DevicePorts

\* The registers whose words the device is given.
DevSources ==
  {program[k].s : k \in {j \in 1..Len(program) :
                           program[j].op \in WordWrites /\ HitsDevice(program[j])}}

\* The two writes of a word to the device, behind b.
DevBlock(c, b, s) ==
  /\ b + 2 <= Len(c)
  /\ c[b + 1].op \in ByteWrites /\ c[b + 1].s = HiReg[s] /\ Port(c[b + 1], c[b + 1].k) = Dev + 1
  /\ c[b + 2].op \in ByteWrites /\ c[b + 2].s = LoReg[s] /\ Port(c[b + 2], c[b + 2].k) = Dev

DeviceQuiet(q) ==
  /\ q.op \notin Stacked
  /\ q.op \in WordWrites => MissesDevice(q) \/ (HitsDevice(q) /\ q.s \in DevSources)

DeviceCode ==
  \A k \in 1..Len(code) :
    /\ DeviceQuiet(code[k])
    /\ ToDevice(code[k]) => \E b \in Nat, s \in DevSources : DevBlock(code, b, s) /\ k \in {b + 1, b + 2}

DeviceApart == DevicePorts \cap {SPL, SPH, P_ADDR} = {}

\* Instructions that write no address or port.
LEMMA DevQuietOps ==
  ASSUME NEW op, op \notin Stacked \cup WordWrites \cup ByteWrites, NEW d, NEW s, NEW k
  PROVE  DeviceQuiet(MI(op, d, s, k)) /\ ~ToDevice(MI(op, d, s, k))
BY RankOfMI DEF DeviceQuiet, ToDevice

\* Instructions that write another one.
LEMMA DevQuietOuts ==
  ASSUME NEW op \in ByteWrites, NEW d, NEW s, NEW k
  PROVE  /\ DeviceQuiet(MI(op, d, s, k))
         /\ op = "OUTARr" => Port(MI(op, d, s, k), k) = SixBits(k)
         /\ op = "STSKRr" => Port(MI(op, d, s, k), k) = k
         /\ ToDevice(MI(op, d, s, k)) => Port(MI(op, d, s, k), k) \in DevicePorts
BY RankOfMI DEF DeviceQuiet, ToDevice, Stacked, ByteWrites, WordWrites, Port

\* The ports of P and SP are not those of the device.
LEMMA DevQuietAtomicParts ==
  ASSUME DeviceApart, NEW q, NEW p, q \in AtomicParts \/ q \in SPWriteParts(p)
  PROVE  DeviceQuiet(q) /\ ~ToDevice(q)
<1>1. /\ P_ADDR \notin DevicePorts /\ SPL \notin DevicePorts /\ SPH \notin DevicePorts
      /\ SixBits(P_ADDR) = P_ADDR /\ SixBits(SPL) = SPL /\ SixBits(SPH) = SPH
  BY Ports DEF DeviceApart
<1>2. ASSUME NEW s, NEW k \in {SPL, SPH, P_ADDR}, q = MI("OUTARr", NoReg, s, k)
      PROVE  DeviceQuiet(q) /\ ~ToDevice(q)
  BY <1>1, <1>2, DevQuietOuts DEF ByteWrites
<1>3. CASE q = MI("INRdA", "A", NoReg, P_ADDR)
  BY <1>3, DevQuietOps DEF Stacked, ByteWrites, WordWrites
<1>4. CASE q = MI("BCLRs", NoReg, NoReg, 7)
  BY <1>4, DevQuietOps DEF Stacked, ByteWrites, WordWrites
<1>. QED
  BY <1>2, <1>3, <1>4 DEF AtomicParts, SPWriteParts

\* No other expansion writes to the device.
LEMMA ExpansionDevQuiet ==
  ASSUME DeviceApart, NEW p, IsPseudo(p), Fits(p), DeviceQuiet(p), NEW q \in Members(Expansion(p))
  PROVE  DeviceQuiet(q) /\ (ToDevice(q) => p.op \in WordWrites /\ HitsDevice(p))
<1>1. p.op \in {"LDWRdPtr", "LDDWRdPtrQ"} => p.d # p.s
  BY DEF Fits
<1>2. CASE p.op \in DOMAIN ByteOps
  <2>1. PICK op, d, s, k : q = MI(op, d, s, k) /\ (op = ByteOps[p.op][1] \/ op = ByteOps[p.op][2])
    BY <1>1, <1>2, ExpansionParts DEF LoHalf, HiHalf, Half
  <2>2. op \notin Stacked \cup WordWrites \cup ByteWrites
    BY <1>2, <2>1 DEF ByteOps, Stacked, WordWrites, ByteWrites
  <2>. QED
    BY <2>1, <2>2, DevQuietOps
<1>3. CASE p.op \in WordAccesses
  <2>1. q \in AccessParts(p)
    BY <1>1, <1>3, ExpansionParts
  <2>2. CASE p.op \in WordWrites
    <3>1. PICK op, s :
            /\ op \in ByteWrites
            /\ q = MI(op, NoReg, s, p.k) \/ q = MI(op, NoReg, s, p.k + 1)
            /\ op = "OUTARr" <=> p.op = "OUTWARr"
      BY <2>1, <2>2 DEF AccessParts, TwoStores, WordWrites, ByteWrites
    <3>2. MissesDevice(p) \/ HitsDevice(p)
      BY <2>2 DEF DeviceQuiet
    <3>3. \A k : Port(MI(op, NoReg, s, k), k) = Port(p, k)
      BY <2>2, <3>1, RankOfMI DEF Port, WordWrites, ByteWrites
    <3>. QED
      BY <2>2, <3>1, <3>2, <3>3, DevQuietOuts DEF MissesDevice
  <2>3. CASE p.op \notin WordWrites
    <3>1. PICK op, d, s, k :
            /\ q = MI(op, d, s, k)
            /\ op \in {"LDRdPtr", "LDDRdPtrQ", "LDRdPtrPi", "LDRdPtrPd", "LDSRdK", "INRdA",
                       "STPtrRr", "STDPtrQRr", "STPtrPiRr", "STPtrPdRr"}
      BY <1>3, <2>1, <2>3 DEF AccessParts, TwoLoads, TwoStores, WordAccesses, WordWrites
    <3>2. op \notin Stacked \cup WordWrites \cup ByteWrites
      BY <3>1 DEF Stacked, WordWrites, ByteWrites
    <3>. QED
      BY <3>1, <3>2, DevQuietOps
  <2>. QED
    BY <2>2, <2>3
<1>4. CASE p.op \in DOMAIN AtomicMoves \cup DOMAIN AtomicOps
  <2>1. \/ q \in AtomicParts
        \/ p.op \in DOMAIN AtomicMoves /\ q = MI(AtomicMoves[p.op], p.d, p.s, 0)
        \/ p.op \in DOMAIN AtomicOps /\ q \in ArithmeticParts(p)
    BY <1>1, <1>4, ExpansionParts
  <2>2. CASE q \notin AtomicParts
    <3>1. PICK op, d, s, k :
            /\ q = MI(op, d, s, k)
            /\ op \in {"LDRdPtr", "LDWRdPtr", "STPtrRr", "STWPtrRr", "ADDRdRr", "SUBRdRr", "ANDRdRr",
                       "ORRdRr", "EORRdRr", "ADDWRdRr", "SUBWRdRr", "ANDWRdRr", "ORWRdRr",
                       "EORWRdRr"}
      BY <2>1, <2>2 DEF AtomicMoves, AtomicOps, ArithmeticParts
    <3>2. op \notin Stacked \cup WordWrites \cup ByteWrites
      BY <3>1 DEF Stacked, WordWrites, ByteWrites
    <3>. QED
      BY <3>1, <3>2, DevQuietOps
  <2>. QED
    BY <2>2, DevQuietAtomicParts
<1>5. CASE p.op = "SPWRITE"
  <2>1. q \in SPWriteParts(p)
    BY <1>1, <1>5, ExpansionParts
  <2>. QED
    BY <2>1, DevQuietAtomicParts
<1>6. p.op \notin {"AtomicFence", "PUSHWRr", "POPWRd"}
  BY <1>1, ExpansionParts DEF DeviceQuiet, Stacked
<1>7. p.op \in DOMAIN ByteOps \cup WordAccesses \cup DOMAIN AtomicMoves
                 \cup DOMAIN AtomicOps \cup {"AtomicFence", "PUSHWRr", "POPWRd", "SPWRITE"}
  <2>1. Rank(p) # 0
    BY PseudosHaveRank
  <2>. QED
    BY <2>1 DEF Rank, Once, Twice, AtomicMoves, AtomicOps, Atomic8
<1>. QED
  BY <1>2, <1>3, <1>4, <1>5, <1>6, <1>7

\* A word written to the device becomes a block of its own.
LEMMA DevWriteMakesBlock ==
  ASSUME PassInv, ExpandMI, code[at].op \in WordWrites, HitsDevice(code[at])
  PROVE  /\ Grown = 1 /\ at - 1 \in Nat /\ DevBlock(code', at - 1, code[at].s)
<1> DEFINE p == code[at]
           op == IF p.op = "OUTWARr" THEN "OUTARr" ELSE "STSKRr"
           a == MI(op, NoReg, HiReg[p.s], p.k + 1)
           b == MI(op, NoReg, LoReg[p.s], p.k)
           e == Expansion(p)
<1>1. e = <<a, b>>
  <2>1. p.op \in WordAccesses
    BY DEF WordAccesses, WordWrites
  <2>2. Access(p) = <<a, b>>
    BY DEF Access, StoreDirect, WordWrites
  <2>. QED
    BY <2>1, <2>2, ExpansionByKind
<1>2. /\ at \in 1..Len(code) /\ Len(code) \in Nat /\ Grown = Len(e) - 1
      /\ Len(code') = Len(code) + Grown
      /\ \A k \in 1..(Grown + 1) : code'[at - 1 + k] = e[k]
  BY Places DEF Grown
<1>3. /\ a.op \in ByteWrites /\ a.s = HiReg[p.s] /\ Port(a, a.k) = Dev + 1
      /\ b.op \in ByteWrites /\ b.s = LoReg[p.s] /\ Port(b, b.k) = Dev
  BY RankOfMI DEF HitsDevice, Port, WordWrites, ByteWrites
<1>. HIDE DEF a, b, e, p, op
<1>4. Len(e) = 2 /\ e[1] = a /\ e[2] = b
  BY <1>1, TwoFacts
<1>5. Grown = 1
  BY <1>2, <1>4
<1>6. code'[at - 1 + 1] = a /\ code'[at - 1 + 2] = b
  BY <1>2, <1>4, <1>5
<1>7. at - 1 + 2 <= Len(code') /\ at - 1 \in Nat
  <2>1. at \in 1..Len(code) /\ Len(code) \in Nat /\ Len(code') = Len(code) + 1
    BY <1>2, <1>5
  <2>. QED
    BY <2>1
<1>. QED
  BY <1>3, <1>5, <1>6, <1>7 DEF DevBlock, p

\* The two instructions of a block that is not torn apart.
LEMMA DevBlockMoves ==
  ASSUME PassInv, ExpandMI, NEW b \in Nat, NEW s, DevBlock(code, b, s)
  PROVE  \E c \in Nat : DevBlock(code', c, s) /\ \A j \in 1..2 : Place(b + j) = c + j
<1>1. ASSUME NEW j \in 1..2 PROVE ~IsPseudo(code[b + j])
  <2>1. j = 1 \/ j = 2
    OBVIOUS
  <2>2. code[b + j].op \in {"STSKRr", "OUTARr"}
    BY <2>1 DEF DevBlock, ByteWrites
  <2>3. Rank(code[b + j]) = 0
    BY <2>2, NativeOps DEF Rank, RankOfOp
  <2>. QED
    BY <2>3, PseudosHaveRank
<1>2. b + 2 <= Len(code) /\ 2 \in Nat /\ 2 > 0
  BY DEF DevBlock
<1>3. PICK c \in Nat : /\ c + 2 <= Len(code')
                       /\ \A j \in 1..2 : c + j = Place(b + j) /\ code'[c + j] = code[b + j]
  BY <1>1, <1>2, Together
<1>4. code'[c + 1] = code[b + 1] /\ code'[c + 2] = code[b + 2]
  BY <1>3
<1>5. DevBlock(code', c, s)
  BY <1>3, <1>4 DEF DevBlock
<1>. QED
  BY <1>3, <1>5

\* The device is only written by STSW and OUTW at first.
LEMMA DeviceCodeInit ==
  ASSUME Init, WritesDeviceWhole(program)
  PROVE  DeviceCode
<1>1. ASSUME NEW k \in 1..Len(program) PROVE DeviceQuiet(program[k]) /\ ~ToDevice(program[k])
  <2>1. /\ program[k].op \notin Stacked
        /\ program[k].op \in ByteWrites => Port(program[k], program[k].k) \notin DevicePorts
        /\ program[k].op \in WordWrites => MissesDevice(program[k]) \/ HitsDevice(program[k])
    BY <1>1 DEF WritesDeviceWhole, WordWrites, ByteWrites
  <2>2. program[k].op \in WordWrites /\ HitsDevice(program[k]) => program[k].s \in DevSources
    BY <1>1 DEF DevSources
  <2>3. ~ToDevice(program[k])
    BY <2>1 DEF ToDevice
  <2>4. DeviceQuiet(program[k])
    BY <2>1, <2>2 DEF DeviceQuiet
  <2>. QED
    BY <2>3, <2>4
<1>. QED
  BY <1>1 DEF Init, DeviceCode

\* And then by the high byte, and the low byte right behind it.
LEMMA DeviceCodeStep ==
  ASSUME PassInv, CodeInv, DeviceCode, DeviceApart, [Next]_vars
  PROVE  DeviceCode'
<1>1. program' = program /\ DevSources' = DevSources
  BY DEF Next, Run, ExpandMI, NextRound, StartRun, Step, Halt, Interrupt, DeviceTick, Stopped, pass,
         vars, DevSources
<1>2. CASE ExpandMI
  <2>1. at \in 1..Len(code)
    BY <1>2, Places
  <2>2. ASSUME NEW k \in 1..Len(code')
        PROVE  /\ DeviceQuiet(code'[k])
               /\ ToDevice(code'[k]) =>
                    \E b \in Nat, s \in DevSources : DevBlock(code', b, s) /\ k \in {b + 1, b + 2}
    <3>1. ASSUME NEW j \in 1..Len(code), k = Place(j), j # at \/ ~IsPseudo(code[at])
          PROVE  /\ DeviceQuiet(code'[k])
                 /\ ToDevice(code'[k]) =>
                      \E b \in Nat, s \in DevSources : DevBlock(code', b, s) /\ k \in {b + 1, b + 2}
      <4>1. code'[k] = code[j]
        BY <1>2, <3>1, Places
      <4>2. ASSUME ToDevice(code[j])
            PROVE  \E b \in Nat, s \in DevSources : DevBlock(code', b, s) /\ k \in {b + 1, b + 2}
        <5>1. PICK b \in Nat, s \in DevSources : DevBlock(code, b, s) /\ (j = b + 1 \/ j = b + 2)
          BY <4>2 DEF DeviceCode
        <5>2. PICK c \in Nat : DevBlock(code', c, s) /\ \A i \in 1..2 : Place(b + i) = c + i
          BY <1>2, <5>1, DevBlockMoves
        <5>3. Place(b + 1) = c + 1 /\ Place(b + 2) = c + 2
          BY <5>2
        <5>4. k = c + 1 \/ k = c + 2
          BY <3>1, <5>1, <5>3
        <5>. QED
          BY <5>2, <5>4
      <4>. QED
        BY <4>1, <4>2 DEF DeviceCode
    <3>2. ASSUME IsPseudo(code[at]), NEW j \in 1..(Grown + 1), k = at - 1 + j,
                 code'[k] = Expansion(code[at])[j]
          PROVE  /\ DeviceQuiet(code'[k])
                 /\ ToDevice(code'[k]) =>
                      \E b \in Nat, s \in DevSources : DevBlock(code', b, s) /\ k \in {b + 1, b + 2}
      <4>1. j \in 1..Len(Expansion(code[at]))
        BY ExpansionIsSeq DEF Grown
      <4>2. code'[k] \in Members(Expansion(code[at]))
        BY <3>2, <4>1 DEF Members
      <4>3. Fits(code[at]) /\ DeviceQuiet(code[at])
        BY <2>1 DEF CodeInv, DeviceCode
      <4>4. /\ DeviceQuiet(code'[k])
            /\ ToDevice(code'[k]) => code[at].op \in WordWrites /\ HitsDevice(code[at])
        BY <3>2, <4>2, <4>3, ExpansionDevQuiet
      <4>5. ASSUME code[at].op \in WordWrites, HitsDevice(code[at])
            PROVE  \E b \in Nat, s \in DevSources : DevBlock(code', b, s) /\ k \in {b + 1, b + 2}
        <5>1. Grown = 1 /\ at - 1 \in Nat /\ DevBlock(code', at - 1, code[at].s)
          BY <1>2, <4>5, DevWriteMakesBlock
        <5>2. ~MissesDevice(code[at])
          BY <4>5 DEF HitsDevice, MissesDevice, DevicePorts
        <5>3. code[at].s \in DevSources
          BY <4>3, <4>5, <5>2 DEF DeviceQuiet
        <5>4. k = (at - 1) + 1 \/ k = (at - 1) + 2
          BY <2>1, <3>2, <5>1
        <5>. QED
          BY <5>1, <5>3, <5>4
      <4>. QED
        BY <4>4, <4>5
    <3>. QED
      BY <1>2, <3>1, <3>2, PlacedOrMade
  <2>. QED
    BY <1>1, <2>2 DEF DeviceCode, DeviceQuiet
<1>3. CASE ~ExpandMI
  <2>1. code' = code
    BY <1>3 DEF Next, Run, NextRound, StartRun, Step, Halt, Interrupt, DeviceTick, Stopped, pass, vars
  <2>. QED
    BY <1>1, <2>1 DEF DeviceCode, DeviceQuiet
<1>. QED
  BY <1>2, <1>3

\* The high byte of s is in the temporary register before the low byte is
\* written, and the device only has whole words.
DeviceInv ==
  phase \in {"run", "done"} =>
    /\ m.dev \in devWords \cup Stored(WordWrites)
    /\ phase = "run" => \A b \in Nat, s \in DevSources :
                          DevBlock(code, b, s) /\ at = b + 2 => m.temp = start.reg[HiReg[s]]

\* They write words the block keeps.
LEMMA DevSourcesSteady ==
  ASSUME WritesDeviceWhole(program)
  PROVE  /\ DevSources \subseteq Steady /\ Steady \subseteq WordRegs
         /\ \A s \in DevSources : WordOf(start, s) \in Stored(WordWrites)
<1>1. ASSUME NEW j \in 1..Len(program), program[j].op \in WordWrites, HitsDevice(program[j])
      PROVE  program[j].s \in Steady
  <2>1. ~MissesDevice(program[j])
    BY <1>1 DEF HitsDevice, MissesDevice, DevicePorts
  <2>. QED
    BY <1>1, <2>1 DEF WritesDeviceWhole, WordWrites, Steady
<1>2. Steady \subseteq WordRegs
  BY DEF Steady, SteadyIn
<1>. QED
  BY <1>1, <1>2 DEF DevSources, Stored

\* What a byte written to an address or a port does to the device.
LEMMA ExecByteWrite ==
  ASSUME NEW q, q.op \in ByteWrites, NEW x, Shaped(x), DeviceApart
  PROVE  /\ Port(q, q.k) = Dev + 1 => /\ Exec(q, x).dev = x.dev
                                      /\ Exec(q, x).temp = x.reg[Encoded(q.s)]
         /\ Port(q, q.k) = Dev => Exec(q, x).dev = Pair(x.reg[Encoded(q.s)], x.temp)
         /\ Port(q, q.k) \notin DevicePorts => Exec(q, x).dev = x.dev
<1> DEFINE u == Unshadowed(x)
           b == x.reg[Encoded(q.s)]
           a == Port(q, q.k)
<1>1. Shaped(u) /\ u.reg = x.reg /\ u.dev = x.dev /\ u.temp = x.temp
  BY UnshadowedFacts
<1>2. Exec(q, x) = Effect(q, u)
  BY DEF Exec, Unshadowed
<1>3. CASE q.op = "STSKRr"
  <2>1. Exec(q, x) = Store(u, a, b)
    BY <1>1, <1>2, <1>3, EffectByKind DEF Port
  <2>. HIDE DEF u, a, b
  <2>2. Exec(q, x).dev = IF a = Dev THEN Pair(b, u.temp) ELSE u.dev
    BY <1>1, <2>1 DEF Store, Shaped
  <2>3. a = Dev + 1 => Exec(q, x).temp = b
    BY <1>1, <2>1, MachineAssumption DEF Store, Shaped
  <2>. QED
    BY <1>1, <2>2, <2>3, MachineAssumption DEF a, b, DevicePorts
<1>4. CASE q.op = "OUTARr"
  <2>1. Exec(q, x) = Out(u, a, b)
    BY <1>1, <1>2, <1>4, EffectByKind DEF Port
  <2>. HIDE DEF u, a, b
  <2>2. a \in {SPL, SPH, P_ADDR} => Out(u, a, b).dev = u.dev /\ a \notin DevicePorts
    BY <1>1, OutFacts DEF DeviceApart
  <2>3. a \notin {SPL, SPH, P_ADDR} => Out(u, a, b) = Store(u, a, b)
    BY <1>1, OutFacts
  <2>4. Store(u, a, b).dev = IF a = Dev THEN Pair(b, u.temp) ELSE u.dev
    BY <1>1 DEF Store, Shaped
  <2>5. a = Dev + 1 => Store(u, a, b).temp = b
    BY <1>1, MachineAssumption DEF Store, Shaped
  <2>6. Dev \in DevicePorts /\ Dev + 1 \in DevicePorts /\ Dev # Dev + 1
    BY MachineAssumption DEF DevicePorts
  <2>. QED
    BY <1>1, <2>1, <2>2, <2>3, <2>4, <2>5, <2>6 DEF a, b
<1>. QED
  BY <1>3, <1>4 DEF ByteWrites

\* Only a write to the device changes it.
LEMMA DeviceUntouched ==
  ASSUME NEW q, Fits(q), ~IsPseudo(q), q.op \notin Stacked, ~ToDevice(q), DeviceApart,
         NEW x, Shaped(x), q.op \in Stores => Address(q, WordOf(x, q.d)) \in Cells
  PROVE  Exec(q, x).dev = x.dev
<1>1. CASE q.op \in ByteWrites
  BY <1>1, ExecByteWrite DEF ToDevice
<1>2. CASE q.op \in Stores
  <2> DEFINE u == Unshadowed(x)
  <2>1. Shaped(u) /\ u.reg = x.reg /\ u.dev = x.dev
    BY UnshadowedFacts
  <2>2. Exec(q, x) = StoreIndirect(q, u)
    BY <1>2, EffectByKind DEF Exec, Unshadowed
  <2>3. WordOf(u, q.d) = WordOf(x, q.d)
    BY <2>1 DEF WordOf
  <2>. HIDE DEF u
  <2>4. Address(q, WordOf(u, q.d)) # Dev
    BY <1>2, <2>3, MachineAssumption
  <2>. QED
    BY <1>2, <2>1, <2>2, <2>4, StoreIndirectKeeps
<1>3. CASE q.op \notin ByteWrites \cup Stores
  BY <1>3, ExecKeeps DEF ByteWrites, Stacked
<1>. QED
  BY <1>1, <1>2, <1>3

\* The high byte waits in the temporary register for the low one.
LEMMA DeviceInvExec ==
  ASSUME PassInv, CodeInv, KeptInv, StartInv, DeviceCode, DeviceInv, DeviceApart,
         WritesDeviceWhole(program), StoresInUse, Step
  PROVE  DeviceInv'
<1>1. /\ phase = "run" /\ phase' = "run" /\ at \in 1..Len(code) /\ Len(code) \in Nat
      /\ at' = at + 1 /\ at <= Len(code)
      /\ m' = Exec(code[at], m) /\ start' = start /\ code' = code /\ program' = program
      /\ devWords' = devWords
  BY CodeFacts DEF Step
<1>2. /\ Shaped(m) /\ Fits(code[at]) /\ ~IsPseudo(code[at]) /\ code[at].op \notin Stacked
      /\ code[at].op \in Stores => Address(code[at], WordOf(m, code[at].d)) \in Cells
  BY <1>1, CodeFacts DEF KeptInv, CodeInv, StoresInUse, DeviceCode, DeviceQuiet
<1>3. ASSUME NEW s \in DevSources
      PROVE  /\ Encoded(LoReg[s]) = LoReg[s] /\ Encoded(HiReg[s]) = HiReg[s]
             /\ m.reg[LoReg[s]] = start.reg[LoReg[s]] /\ m.reg[HiReg[s]] = start.reg[HiReg[s]]
  <2>1. s \in Steady /\ s \in WordRegs
    BY DevSourcesSteady
  <2>. QED
    BY <1>1, <2>1, HalfRegisters DEF KeptInv, Encoded
<1>4. m'.dev \in devWords \cup Stored(WordWrites)
  <2>1. CASE ~ToDevice(code[at])
    <3>1. m'.dev = m.dev
      BY <1>1, <1>2, <2>1, DeviceUntouched
    <3>. QED
      BY <1>1, <3>1 DEF DeviceInv
  <2>2. CASE ToDevice(code[at])
    <3>1. PICK b \in Nat, s \in DevSources : DevBlock(code, b, s) /\ (at = b + 1 \/ at = b + 2)
      BY <1>1, <2>2 DEF DeviceCode
    <3>2. CASE at = b + 1
      <4>1. code[at].op \in ByteWrites /\ Port(code[at], code[at].k) = Dev + 1
        BY <3>1, <3>2 DEF DevBlock
      <4>2. m'.dev = m.dev
        BY <1>1, <1>2, <4>1, ExecByteWrite
      <4>. QED
        BY <1>1, <4>2 DEF DeviceInv
    <3>3. CASE at = b + 2
      <4>1. /\ code[at].op \in ByteWrites /\ Port(code[at], code[at].k) = Dev
            /\ code[at].s = LoReg[s]
        BY <3>1, <3>3 DEF DevBlock
      <4>2. m'.dev = Pair(m.reg[Encoded(LoReg[s])], m.temp)
        BY <1>1, <1>2, <4>1, ExecByteWrite
      <4>3. m.temp = start.reg[HiReg[s]]
        BY <1>1, <3>1, <3>3 DEF DeviceInv
      <4>4. m'.dev = WordOf(start, s)
        BY <1>3, <4>2, <4>3 DEF WordOf
      <4>. QED
        BY <4>4, DevSourcesSteady
    <3>. QED
      BY <3>1, <3>2, <3>3
  <2>. QED
    BY <2>1, <2>2
<1>5. ASSUME NEW b \in Nat, NEW s \in DevSources, DevBlock(code, b, s), at + 1 = b + 2
      PROVE  m'.temp = start.reg[HiReg[s]]
  <2>1. at = b + 1
    BY <1>1, <1>5
  <2>2. /\ code[at].op \in ByteWrites /\ Port(code[at], code[at].k) = Dev + 1
        /\ code[at].s = HiReg[s]
    BY <1>5, <2>1 DEF DevBlock
  <2>3. m'.temp = m.reg[Encoded(HiReg[s])]
    BY <1>1, <1>2, <2>2, ExecByteWrite
  <2>. QED
    BY <1>3, <2>3
<1>6. DevSources' = DevSources /\ Stored(WordWrites)' = Stored(WordWrites)
  BY <1>1 DEF DevSources, Stored
<1>7. \A b, s : DevBlock(code', b, s) <=> DevBlock(code, b, s)
  BY <1>1 DEF DevBlock
<1>. QED
  BY <1>1, <1>4, <1>5, <1>6, <1>7 DEF DeviceInv

\* Steps that write no byte to the device.
LEMMA DeviceInvSame ==
  ASSUME DeviceInv, m'.temp = m.temp, m'.dev = m.dev \/ m'.dev \in devWords', start' = start,
         devWords \subseteq devWords', program' = program,
         phase' \in {"run", "done"} => phase \in {"run", "done"},
         phase' = "run" => phase = "run" /\ at' = at /\ code' = code
  PROVE  DeviceInv'
<1>1. DevSources' = DevSources /\ Stored(WordWrites)' = Stored(WordWrites)
  BY DEF DevSources, Stored
<1>2. phase' = "run" => \A b, s : DevBlock(code', b, s) <=> DevBlock(code, b, s)
  BY DEF DevBlock
<1>. QED
  BY <1>1, <1>2 DEF DeviceInv

\* The handler does not write the device.
LEMMA InterruptKeepsDevice ==
  ASSUME Shaped(m), Interrupt
  PROVE  m'.dev = m.dev
<1>1. PICK w \in HandlerWords :
        m' = PutWord(IF m.sp \in Cells THEN [m EXCEPT !.mem[m.sp] = 0] ELSE m, Shared, w)
  BY DEF Interrupt
<1> DEFINE x == IF m.sp \in Cells THEN [m EXCEPT !.mem[m.sp] = 0] ELSE m
<1>2. Shaped(x) /\ x.dev = m.dev
  BY DEF Shaped
<1>3. m' = PutWord(x, Shared, w)
  BY <1>1
<1>4. Shared # Dev
  BY ExpandAssumption, MachineAssumption
<1>. HIDE DEF x
<1>. QED
  BY <1>2, <1>3, <1>4 DEF PutWord, Shaped

\* No step gives the device half of a word.
LEMMA DeviceInvStep ==
  ASSUME PassInv, CodeInv, KeptInv, StartInv, DeviceCode, DeviceInv, DeviceApart,
         WritesDeviceWhole(program), StoresInUse, [Next]_vars
  PROVE  DeviceInv'
<1>1. CASE ExpandMI \/ NextRound
  BY <1>1 DEF ExpandMI, NextRound, PassInv, DeviceInv
<1>2. CASE StartRun
  <2>1. PICK m0 \in Starts(program) : m' = m0 /\ start' = m0 /\ devWords' = {m0.dev} /\ at' = 1
    BY <1>2 DEF StartRun
  <2>2. \A b \in Nat : at' # b + 2
    BY <2>1
  <2>. QED
    BY <2>1, <2>2 DEF DeviceInv
<1>3. CASE Step
  BY <1>3, DeviceInvExec
<1>4. CASE Halt \/ Stopped \/ UNCHANGED vars
  <2>1. /\ m' = m /\ start' = start /\ devWords' = devWords /\ program' = program
        /\ phase' \in {"run", "done"} => phase \in {"run", "done"}
        /\ phase' = "run" => phase = "run" /\ at' = at /\ code' = code
    BY <1>4 DEF Halt, Stopped, vars, machine, pass
  <2>. QED
    BY <2>1, DeviceInvSame
<1>5. CASE Interrupt
  <2>1. /\ phase = "run" /\ start' = start /\ at' = at /\ code' = code /\ program' = program
        /\ devWords' = devWords
    BY <1>5 DEF Interrupt, Interruptible, pass
  <2>2. m'.temp = m.temp /\ m'.dev = m.dev
    BY <1>5, <2>1, InterruptFacts, InterruptKeepsDevice DEF KeptInv
  <2>. QED
    BY <2>1, <2>2, DeviceInvSame
<1>6. CASE DeviceTick
  <2>1. /\ phase = "run" /\ start' = start /\ at' = at /\ code' = code /\ program' = program
        /\ devWords \subseteq devWords'
    BY <1>6 DEF DeviceTick, pass
  <2>2. m'.temp = m.temp
    BY <1>6, <2>1, DeviceTickFacts DEF KeptInv
  <2>3. m'.dev \in devWords'
    BY <1>6, <2>1 DEF DeviceTick, KeptInv, Shaped
  <2>. QED
    BY <2>1, <2>2, <2>3, DeviceInvSame
<1>. QED
  BY <1>1, <1>2, <1>3, <1>4, <1>5, <1>6 DEF Next, Run

\* The contract on every program.
DevicePromise == AllFit /\ \A p \in Programs : WritesDeviceWhole(p)

\* STSW and OUTW write the high byte first: while the stores through pointers
\* stay in memory, the device has a word it took itself or one written whole.
THEOREM DeviceSafe ==
  ASSUME DevicePromise
  PROVE  Spec /\ []StoresInUse => []DeviceWordWhole
<1> DEFINE Inv == /\ PassInv /\ CodeInv /\ KeptInv /\ StartInv /\ DeviceCode /\ DeviceInv
                  /\ WritesDeviceWhole(program)
<1>1. Init => Inv
  <2>1. Init => WritesDeviceWhole(program)
    BY DEF Init, DevicePromise
  <2>2. Init => KeptInv /\ StartInv /\ DeviceInv
    BY DEF Init, KeptInv, StartInv, DeviceInv
  <2>. QED
    BY <2>1, <2>2, PassInvInit, CodeInvInit, DeviceCodeInit DEF DevicePromise
<1>2. Inv /\ StoresInUse /\ [Next]_vars => Inv'
  <2>1. ASSUME [Next]_vars PROVE program' = program
    BY <2>1 DEF Next, Run, ExpandMI, NextRound, StartRun, Step, Halt, Interrupt, DeviceTick, Stopped,
                pass, vars
  <2>2. ASSUME WritesDeviceWhole(program), [Next]_vars PROVE WritesDeviceWhole(program)'
    BY <2>1, <2>2 DEF WritesDeviceWhole, SteadyIn
  <2>3. WritesDeviceWhole(program) => DeviceApart
    BY DEF WritesDeviceWhole, DeviceApart
  <2>. QED
    BY <2>2, <2>3, PassInvStep, CodeInvStep, KeptInvStep, StartInvStep, DeviceCodeStep, DeviceInvStep
<1>3. Inv => DeviceWordWhole
  BY DEF DeviceInv, DeviceWordWhole, WordWrites
<1>. HIDE DEF Inv
<1>. QED
  BY <1>1, <1>2, <1>3, PTL DEF Spec

----------------------------------------------------------------------------
(***************************************************************************)
(* The shared word: the two bytes of an atomic store are written one after *)
(* the other, with interrupts off in between.                              *)
(***************************************************************************)
Pointers == SharedPointers(program)

\* The stores an atomic store becomes: of a word, then of two bytes.
ThroughPointer(q) == q.op \in Stores \cup {"STWPtrRr"} /\ q.d \in Pointers

\* An atomic store of s through d, with d and s as they were at the start
\* until the k-th instruction.
Own(c, k, d, s) ==
  /\ d \in WordRegs /\ s \in WordRegs
  /\ \E j \in 1..Len(program) :
       program[j].op = "AtomicStore16" /\ program[j].d = d /\ program[j].s = s
  /\ \A j \in 1..k : Keeps(c[j], d) /\ Keeps(c[j], s)

WordStored(c, b, d, s) ==
  /\ b + 2 <= Len(c)
  /\ c[b + 1].op = "BCLRs"
  /\ c[b + 2] = MI("STWPtrRr", d, s, 0)
  /\ Own(c, b + 2, d, s)

BytesStored(c, b, d, s) ==
  /\ b + 3 <= Len(c)
  /\ c[b + 1].op = "BCLRs"
  /\ c[b + 2] = MI("STPtrRr", d, LoReg[s], 0)
  /\ c[b + 3] = MI("STDPtrQRr", d, HiReg[s], 1)
  /\ Own(c, b + 3, d, s)

OtherStores == {"STDWPtrQRr", "STWPtrPiRr", "STWPtrPdRr", "AtomicStore8"}

SharedQuiet(q) ==
  /\ q.op \notin Stacked
  /\ q.op \in ByteWrites \cup WordWrites => Port(q, q.k) \notin SharedCells
  /\ q.op \in WordWrites => Port(q, q.k + 1) \notin SharedCells
  /\ q.op \in OtherStores => q.d \notin Pointers
  /\ q.op \in DOMAIN AtomicOps => q.s \notin Pointers

Protected(c, k) ==
  \E b \in Nat, d \in WordRegs, s \in WordRegs :
    \/ WordStored(c, b, d, s) /\ k = b + 2
    \/ BytesStored(c, b, d, s) /\ (k = b + 2 \/ k = b + 3)

SharedCode ==
  \A k \in 1..Len(code) :
    /\ SharedQuiet(code[k])
    /\ code[k].op = "AtomicStore16" => Own(code, k, code[k].d, code[k].s)
    /\ ThroughPointer(code[k]) => Protected(code, k)

CellsApart == SharedCells \cap {SPL, SPH, P_ADDR} = {}

\* Instructions that write no port, or none of the shared word.
LEMMA SharedQuietOps ==
  ASSUME NEW op, NEW d, NEW s, NEW k,
         op \notin Stacked \cup WordWrites \cup ByteWrites \cup OtherStores \cup DOMAIN AtomicOps
  PROVE  /\ SharedQuiet(MI(op, d, s, k))
         /\ ThroughPointer(MI(op, d, s, k)) => op \in Stores \cup {"STWPtrRr"} /\ d \in Pointers
BY RankOfMI DEF SharedQuiet, ThroughPointer

\* Instructions that write another address or port.
LEMMA SharedQuietOuts ==
  ASSUME NEW op \in ByteWrites, NEW d, NEW s, NEW k, Port(MI(op, d, s, k), k) \notin SharedCells
  PROVE  SharedQuiet(MI(op, d, s, k)) /\ ~ThroughPointer(MI(op, d, s, k))
BY RankOfMI DEF SharedQuiet, ThroughPointer, Stacked, ByteWrites, WordWrites, OtherStores,
     AtomicOps, Stores

\* The ports of P and SP are not the shared word.
LEMMA SharedQuietAtomicParts ==
  ASSUME CellsApart, NEW q, NEW p, q \in AtomicParts \/ q \in SPWriteParts(p)
  PROVE  SharedQuiet(q) /\ ~ThroughPointer(q)
<1>1. /\ P_ADDR \notin SharedCells /\ SPL \notin SharedCells /\ SPH \notin SharedCells
      /\ SixBits(P_ADDR) = P_ADDR /\ SixBits(SPL) = SPL /\ SixBits(SPH) = SPH
  BY Ports DEF CellsApart
<1>2. ASSUME NEW s, NEW k \in {SPL, SPH, P_ADDR}, q = MI("OUTARr", NoReg, s, k)
      PROVE  SharedQuiet(q) /\ ~ThroughPointer(q)
  <2>1. Port(q, k) = k
    BY <1>1, <1>2, RankOfMI DEF Port
  <2>2. k \notin SharedCells
    BY <1>1
  <2>. QED
    BY <1>2, <2>1, <2>2, SharedQuietOuts DEF ByteWrites
<1>3. ASSUME q = MI("INRdA", "A", NoReg, P_ADDR) \/ q = MI("BCLRs", NoReg, NoReg, 7)
      PROVE  SharedQuiet(q) /\ ~ThroughPointer(q)
  <2>1. \A op \in {"INRdA", "BCLRs"} :
          /\ op \notin Stacked \cup WordWrites \cup ByteWrites \cup OtherStores \cup DOMAIN AtomicOps
          /\ op \notin Stores \cup {"STWPtrRr"}
    BY DEF Stacked, WordWrites, ByteWrites, OtherStores, AtomicOps, Stores
  <2>. QED
    BY <1>3, <2>1, SharedQuietOps
<1>. QED
  BY <1>2, <1>3 DEF AtomicParts, SPWriteParts

\* Stores through the pointers come from atomic stores alone.
LEMMA ExpansionSharedQuiet ==
  ASSUME CellsApart, NEW p, IsPseudo(p), Fits(p), SharedQuiet(p), NEW q \in Members(Expansion(p))
  PROVE  /\ SharedQuiet(q) /\ q.op # "AtomicStore16"
         /\ ThroughPointer(q) => p.op = "AtomicStore16" \/ (p.op = "STWPtrRr" /\ p.d \in Pointers)
<1>0. q.op # "AtomicStore16"
  <2>1. Lower(Expansion(p), Rank(p) - 1) /\ Rank(p) \in {0, 1, 2}
    BY ExpansionLowers, PseudosHaveRank
  <2>2. Rank(q) <= Rank(p) - 1
    BY <2>1 DEF Members, Lower
  <2>3. Rank(q) # 2
    BY <2>1, <2>2
  <2>. QED
    BY <2>3 DEF Rank, Twice
<1>1. p.op \in {"LDWRdPtr", "LDDWRdPtrQ"} => p.d # p.s
  BY DEF Fits
<1> DEFINE Noisy == Stacked \cup WordWrites \cup ByteWrites \cup OtherStores \cup DOMAIN AtomicOps
           Storing == Stores \cup {"STWPtrRr"}
<1>2. ASSUME NEW op, op \notin Noisy, op \notin Storing, NEW d, NEW s, NEW k, q = MI(op, d, s, k)
      PROVE  SharedQuiet(q) /\ ~ThroughPointer(q)
  BY <1>2, SharedQuietOps
<1>3. ASSUME NEW op \in Storing, NEW d, NEW s, NEW k, q = MI(op, d, s, k)
      PROVE  SharedQuiet(q) /\ (ThroughPointer(q) => d \in Pointers)
  <2>1. op \notin Noisy
    BY DEF Stores, Stacked, WordWrites, ByteWrites, OtherStores, AtomicOps
  <2>. QED
    BY <1>3, <2>1, SharedQuietOps
<1>4. CASE p.op \in DOMAIN ByteOps
  <2>1. PICK op, d, s, k : q = MI(op, d, s, k) /\ (op = ByteOps[p.op][1] \/ op = ByteOps[p.op][2])
    BY <1>1, <1>4, ExpansionParts DEF LoHalf, HiHalf, Half
  <2>2. op \notin Noisy /\ op \notin Storing
    BY <1>4, <2>1 DEF ByteOps, Stacked, WordWrites, ByteWrites, OtherStores, AtomicOps, Stores
  <2>. QED
    BY <1>0, <1>2, <2>1, <2>2
<1>5. CASE p.op \in WordAccesses
  <2>1. q \in AccessParts(p)
    BY <1>1, <1>5, ExpansionParts
  <2>2. CASE p.op \in WordWrites
    <3>1. PICK op, s, k :
            /\ op \in ByteWrites /\ k \in {p.k, p.k + 1}
            /\ q = MI(op, NoReg, s, k)
            /\ op = "OUTARr" <=> p.op = "OUTWARr"
      <4>1. CASE p.op = "OUTWARr"
        <5>1. \E s : \E k \in {p.k, p.k + 1} : q = MI("OUTARr", NoReg, s, k)
          BY <2>1, <4>1 DEF AccessParts, TwoStores
        <5>. QED
          BY <4>1, <5>1 DEF ByteWrites
      <4>2. CASE p.op = "STSWKRr"
        <5>1. \E s : \E k \in {p.k, p.k + 1} : q = MI("STSKRr", NoReg, s, k)
          BY <2>1, <4>2 DEF AccessParts, TwoStores
        <5>. QED
          BY <4>2, <5>1 DEF ByteWrites
      <4>. QED
        BY <2>2, <4>1, <4>2 DEF WordWrites
    <3>2. Port(p, p.k) \notin SharedCells /\ Port(p, p.k + 1) \notin SharedCells
      BY <2>2 DEF SharedQuiet
    <3>3. Port(MI(op, NoReg, s, k), k) = Port(p, k)
      BY <2>2, <3>1, RankOfMI DEF Port, WordWrites, ByteWrites
    <3>4. Port(MI(op, NoReg, s, k), k) \notin SharedCells
      BY <3>1, <3>2, <3>3
    <3>. QED
      BY <1>0, <3>1, <3>4, SharedQuietOuts
  <2>3. CASE p.op \in OtherStores \cup {"STWPtrRr"}
    <3>1. PICK op, s, k : op \in Storing /\ q = MI(op, p.d, s, k)
      BY <1>5, <2>1, <2>3 DEF AccessParts, TwoStores, WordAccesses, OtherStores, Stores
    <3>2. p.op \in OtherStores => p.d \notin Pointers
      BY DEF SharedQuiet
    <3>. QED
      BY <1>0, <1>3, <2>3, <3>1, <3>2
  <2>4. CASE p.op \notin WordWrites \cup OtherStores \cup {"STWPtrRr"}
    <3>1. PICK op, d, s, k :
            /\ q = MI(op, d, s, k)
            /\ op \in {"LDRdPtr", "LDDRdPtrQ", "LDRdPtrPi", "LDRdPtrPd", "LDSRdK", "INRdA"}
      BY <1>5, <2>1, <2>4 DEF AccessParts, TwoLoads, WordAccesses, WordWrites, OtherStores
    <3>2. op \notin Noisy /\ op \notin Storing
      BY <3>1 DEF Stacked, WordWrites, ByteWrites, OtherStores, AtomicOps, Stores
    <3>. QED
      BY <1>0, <1>2, <3>1, <3>2
  <2>. QED
    BY <2>2, <2>3, <2>4
<1>6. CASE p.op \in DOMAIN AtomicMoves
  <2>1. q \in AtomicParts \/ q = MI(AtomicMoves[p.op], p.d, p.s, 0)
    BY <1>1, <1>6, ExpansionParts
  <2>2. CASE q = MI(AtomicMoves[p.op], p.d, p.s, 0)
    <3>1. CASE p.op \in {"AtomicLoad8", "AtomicLoad16"}
      <4>1. AtomicMoves[p.op] \notin Noisy /\ AtomicMoves[p.op] \notin Storing
        BY <3>1 DEF AtomicMoves, Stacked, WordWrites, ByteWrites, OtherStores, AtomicOps, Stores
      <4>. QED
        BY <1>0, <1>2, <2>2, <4>1
    <3>2. CASE p.op \in {"AtomicStore8", "AtomicStore16"}
      <4>1. AtomicMoves[p.op] \in Storing
        BY <3>2 DEF AtomicMoves, Stores
      <4>2. p.op = "AtomicStore8" => p.d \notin Pointers
        BY DEF SharedQuiet, OtherStores
      <4>. QED
        BY <1>0, <1>3, <2>2, <3>2, <4>1, <4>2
    <3>. QED
      BY <1>6, <3>1, <3>2 DEF AtomicMoves
  <2>. QED
    BY <1>0, <2>1, <2>2, SharedQuietAtomicParts
<1>7. CASE p.op \in DOMAIN AtomicOps
  <2>1. q \in AtomicParts \/ q \in ArithmeticParts(p)
    BY <1>1, <1>7, ExpansionParts
  <2>2. CASE q = MI(IF p.op \in Atomic8 THEN "STPtrRr" ELSE "STWPtrRr", p.s, p.d, 0)
    <3> DEFINE op == IF p.op \in Atomic8 THEN "STPtrRr" ELSE "STWPtrRr"
    <3>1. op \in Storing
      BY DEF Stores
    <3>2. p.s \notin Pointers
      BY <1>7 DEF SharedQuiet
    <3>3. q = MI(op, p.s, p.d, 0)
      BY <2>2
    <3>. HIDE DEF op
    <3>. QED
      BY <1>0, <1>3, <3>1, <3>2, <3>3
  <2>3. CASE \/ q = MI(IF p.op \in Atomic8 THEN "LDRdPtr" ELSE "LDWRdPtr", p.d, p.s, 0)
             \/ q = MI(AtomicOps[p.op], p.d, p.s, 0)
    <3>1. PICK op : /\ q = MI(op, p.d, p.s, 0)
                    /\ op \in {"LDRdPtr", "LDWRdPtr", "ADDRdRr", "SUBRdRr", "ANDRdRr",
                               "ORRdRr", "EORRdRr", "ADDWRdRr", "SUBWRdRr", "ANDWRdRr", "ORWRdRr",
                               "EORWRdRr"}
      BY <1>7, <2>3 DEF AtomicOps
    <3>2. op \notin Noisy /\ op \notin Storing
      BY <3>1 DEF Stacked, WordWrites, ByteWrites, OtherStores, AtomicOps, Stores
    <3>. QED
      BY <1>0, <1>2, <3>1, <3>2
  <2>. QED
    BY <1>0, <2>1, <2>2, <2>3, SharedQuietAtomicParts DEF ArithmeticParts
<1>8. CASE p.op = "SPWRITE"
  <2>1. q \in SPWriteParts(p)
    BY <1>1, <1>8, ExpansionParts
  <2>. QED
    BY <1>0, <2>1, SharedQuietAtomicParts
<1>9. p.op \notin {"AtomicFence", "PUSHWRr", "POPWRd"}
  BY <1>1, ExpansionParts DEF SharedQuiet, Stacked
<1>10. p.op \in DOMAIN ByteOps \cup WordAccesses \cup DOMAIN AtomicMoves
                 \cup DOMAIN AtomicOps \cup {"AtomicFence", "PUSHWRr", "POPWRd", "SPWRITE"}
  <2>1. Rank(p) # 0
    BY PseudosHaveRank
  <2>. QED
    BY <2>1 DEF Rank, Once, Twice, AtomicMoves, AtomicOps, Atomic8
<1>. QED
  BY <1>4, <1>5, <1>6, <1>7, <1>8, <1>9, <1>10

\* Instructions keep their order.
LEMMA PlacesInOrder ==
  ASSUME PassInv, ExpandMI, NEW j \in 1..Len(code), NEW k \in 1..Len(code),
         j # at \/ ~IsPseudo(code[at]), k # at \/ ~IsPseudo(code[at]), Place(j) <= Place(k)
  PROVE  j <= k
<1>1. at \in 1..Len(code) /\ Len(code) \in Nat /\ Grown \in Int /\ Grown + 1 \in Nat
  BY Places
<1>2. CASE ~IsPseudo(code[at])
  BY <1>2 DEF Place
<1>3. CASE IsPseudo(code[at])
  <2>1. j # at /\ k # at
    BY <1>3
  <2>2. CASE j < at
    <3>1. k < at => Place(j) = j /\ Place(k) = k
      BY <2>2 DEF Place
    <3>. QED
      BY <1>1, <2>1, <2>2, <3>1
  <2>3. CASE j > at
    <3>1. Place(j) = j + Grown
      BY <1>1, <1>3, <2>3 DEF Place
    <3>2. CASE k < at
      <4>1. Place(k) = k
        BY <3>2 DEF Place
      <4>. QED
        BY <1>1, <2>3, <3>1, <3>2, <4>1
    <3>3. CASE k > at
      <4>1. Place(k) = k + Grown
        BY <1>1, <1>3, <3>3 DEF Place
      <4>. QED
        BY <1>1, <3>1, <4>1
    <3>. QED
      BY <1>1, <2>1, <3>2, <3>3
  <2>. QED
    BY <1>1, <2>1, <2>2, <2>3
<1>. QED
  BY <1>2, <1>3

\* A register kept until an instruction is kept until it, or what it is
\* expanded to, afterwards.
LEMMA KeptUntil ==
  ASSUME PassInv, CodeInv, ExpandMI, NEW k \in 1..Len(code), NEW n \in 1..Len(code'),
         NEW r \in WordRegs, \A j \in 1..k : Keeps(code[j], r),
         \/ n = Place(k) /\ (k # at \/ ~IsPseudo(code[at]))
         \/ k = at /\ IsPseudo(code[at]) /\ \E i \in 1..(Grown + 1) : n = at - 1 + i
  PROVE  \A j \in 1..n : Keeps(code'[j], r)
<1>1. /\ at \in 1..Len(code) /\ Len(code) \in Nat /\ Grown \in Int /\ Grown + 1 \in Nat
      /\ \A j \in 1..Len(code) : j # at \/ ~IsPseudo(code[at]) => code'[Place(j)] = code[j]
      /\ Len(code') = Len(code) + Grown
  BY Places
<1>2. ASSUME NEW y \in 1..n PROVE Keeps(code'[y], r)
  <2>0. y \in 1..Len(code')
    BY <1>1
  <2>1. ASSUME NEW j \in 1..Len(code), y = Place(j), j # at \/ ~IsPseudo(code[at])
        PROVE  Keeps(code'[y], r)
    <3>1. CASE n = Place(k) /\ (k # at \/ ~IsPseudo(code[at]))
      <4>1. Place(j) <= Place(k)
        BY <2>1, <3>1
      <4>2. j <= k
        BY <2>1, <3>1, <4>1, PlacesInOrder
      <4>. QED
        BY <1>1, <2>1, <4>2
    <3>2. CASE k = at /\ IsPseudo(code[at]) /\ \E i \in 1..(Grown + 1) : n = at - 1 + i
      <4>1. y <= at + Grown
        <5>1. PICK i \in 1..(Grown + 1) : n = at - 1 + i
          BY <3>2
        <5>2. n <= at + Grown /\ n \in Int
          BY <1>1, <5>1
        <5>. QED
          BY <1>1, <5>2
      <4>2. j > at => y = j + Grown
        BY <1>1, <2>1, <3>2 DEF Place
      <4>3. j < at
        BY <1>1, <2>1, <3>2, <4>1, <4>2
      <4>. QED
        BY <1>1, <2>1, <3>2, <4>3
    <3>. QED
      BY <3>1, <3>2
  <2>2. ASSUME IsPseudo(code[at]), NEW i \in 1..(Grown + 1), y = at - 1 + i,
               code'[y] = Expansion(code[at])[i]
        PROVE  Keeps(code'[y], r)
    <3>1. at <= k
      <4>1. ASSUME k < at PROVE FALSE
        <5>1. n = Place(k) /\ Place(k) = k
          BY <4>1 DEF Place
        <5>. QED
          BY <1>1, <2>2, <4>1, <5>1
      <4>. QED
        BY <1>1, <4>1
    <3>2. Keeps(code[at], r)
      BY <1>1, <3>1
    <3>3. code'[y] \in Members(Expansion(code[at]))
      <4>1. i \in 1..Len(Expansion(code[at]))
        BY ExpansionIsSeq DEF Grown
      <4>. QED
        BY <2>2, <4>1 DEF Members
    <3>4. Follows(code'[y], code[at])
      BY <1>1, <3>3, ExpansionFollows DEF CodeInv
    <3>. QED
      BY <3>2, <3>4 DEF Follows
  <2>. QED
    BY <2>0, <2>1, <2>2, PlacedOrMade
<1>. QED
  BY <1>2

\* The registers of an atomic store are its own in every round.
LEMMA OwnMoves ==
  ASSUME PassInv, CodeInv, ExpandMI, NEW k \in 1..Len(code), NEW n \in 1..Len(code'),
         NEW d, NEW s, Own(code, k, d, s),
         \/ n = Place(k) /\ (k # at \/ ~IsPseudo(code[at]))
         \/ k = at /\ IsPseudo(code[at]) /\ \E i \in 1..(Grown + 1) : n = at - 1 + i
  PROVE  Own(code', n, d, s)
<1>1. /\ d \in WordRegs /\ s \in WordRegs
      /\ \A j \in 1..k : Keeps(code[j], d)
      /\ \A j \in 1..k : Keeps(code[j], s)
  BY DEF Own
<1>2. /\ \A j \in 1..n : Keeps(code'[j], d)
      /\ \A j \in 1..n : Keeps(code'[j], s)
  BY <1>1, KeptUntil
<1>. QED
  BY <1>2 DEF Own

\* The byte stores are no pseudos.
LEMMA NotPseudo ==
  ASSUME NEW q, q.op \in {"BCLRs", "STPtrRr", "STDPtrQRr", "OUTARr", "INRdA"}
  PROVE  ~IsPseudo(q)
<1>1. Rank(q) = 0
  BY NativeOps DEF Rank, RankOfOp
<1>. QED
  BY <1>1, PseudosHaveRank

\* Both forms of an atomic store stay together.
LEMMA WordStoredMoves ==
  ASSUME PassInv, CodeInv, ExpandMI, NEW b \in Nat, NEW d, NEW s, WordStored(code, b, d, s),
         at # b + 2
  PROVE  \E c \in Nat : WordStored(code', c, d, s) /\ Place(b + 2) = c + 2
<1>1. ~IsPseudo(code[b + 1])
  BY NotPseudo DEF WordStored
<1>2. /\ at \in 1..Len(code) /\ Len(code) \in Nat /\ Grown \in Int /\ Grown + 1 \in Nat
      /\ \A k \in 1..Len(code) : k # at \/ ~IsPseudo(code[at]) =>
           Place(k) \in 1..Len(code') /\ code'[Place(k)] = code[k]
      /\ Len(code') = Len(code) + Grown
  BY Places
<1>3. b + 1 \in 1..Len(code) /\ b + 2 \in 1..Len(code)
  BY <1>2 DEF WordStored
<1>4. b + 1 # at \/ ~IsPseudo(code[at])
  BY <1>1
<1>5. IsPseudo(code[at]) => at <= b \/ at > b + 2
  BY <1>2, <1>4
<1> DEFINE c == IF IsPseudo(code[at]) /\ at <= b THEN b + Grown ELSE b
<1>6. Place(b + 1) = c + 1 /\ Place(b + 2) = c + 2
  <2>1. CASE ~IsPseudo(code[at])
    BY <2>1 DEF Place
  <2>2. CASE IsPseudo(code[at]) /\ at <= b
    BY <1>2, <2>2 DEF Place
  <2>3. CASE IsPseudo(code[at]) /\ at > b + 2
    BY <1>2, <2>3 DEF Place
  <2>. QED
    BY <1>5, <2>1, <2>2, <2>3
<1>7. c \in Nat
  BY <1>2
<1>. HIDE DEF c
<1>8. /\ c + 1 \in 1..Len(code') /\ code'[c + 1] = code[b + 1]
      /\ c + 2 \in 1..Len(code') /\ code'[c + 2] = code[b + 2]
  BY <1>2, <1>3, <1>4, <1>6
<1>9. Own(code', c + 2, d, s)
  <2>1. c + 2 = Place(b + 2) /\ (b + 2 # at \/ ~IsPseudo(code[at])) /\ Own(code, b + 2, d, s)
    BY <1>6 DEF WordStored
  <2>. QED
    BY <1>3, <1>8, <2>1, OwnMoves
<1>10. c + 2 <= Len(code')
  BY <1>2, <1>8
<1>11. WordStored(code', c, d, s)
  BY <1>8, <1>9, <1>10 DEF WordStored
<1>. QED
  BY <1>6, <1>7, <1>11

\* The two byte stores stay together when another pseudo is expanded.
LEMMA BytesStoredMoves ==
  ASSUME PassInv, CodeInv, ExpandMI, NEW b \in Nat, NEW d, NEW s, BytesStored(code, b, d, s)
  PROVE  \E c \in Nat : /\ BytesStored(code', c, d, s)
                        /\ Place(b + 2) = c + 2 /\ Place(b + 3) = c + 3
<1>1. ASSUME NEW j \in 1..3 PROVE ~IsPseudo(code[b + j])
  <2>1. j = 1 \/ j = 2 \/ j = 3
    OBVIOUS
  <2>2. code[b + j].op \in {"BCLRs", "STPtrRr", "STDPtrQRr"}
    BY <2>1, RankOfMI DEF BytesStored
  <2>. QED
    BY <2>2, NotPseudo
<1>2. b + 3 <= Len(code) /\ 3 \in Nat /\ 3 > 0
  BY DEF BytesStored
<1>3. PICK c \in Nat : /\ c + 3 <= Len(code')
                       /\ \A j \in 1..3 : c + j = Place(b + j) /\ code'[c + j] = code[b + j]
  BY <1>1, <1>2, Together
<1>4. /\ code'[c + 1] = code[b + 1] /\ code'[c + 2] = code[b + 2] /\ code'[c + 3] = code[b + 3]
      /\ Place(b + 2) = c + 2 /\ Place(b + 3) = c + 3
  BY <1>3
<1>5. Own(code', c + 3, d, s)
  <2>1. Len(code) \in Nat /\ Len(code') \in Nat
    BY Places
  <2>2. b + 3 \in 1..Len(code) /\ c + 3 \in 1..Len(code')
    BY <1>2, <1>3, <2>1
  <2>3. 3 \in 1..3
    OBVIOUS
  <2>4. b + 3 # at \/ ~IsPseudo(code[at])
    BY <1>1, <2>3
  <2>5. Own(code, b + 3, d, s)
    BY DEF BytesStored
  <2>. QED
    BY <1>4, <2>2, <2>4, <2>5, OwnMoves
<1>6. BytesStored(code', c, d, s)
  BY <1>3, <1>4, <1>5 DEF BytesStored
<1>. QED
  BY <1>3, <1>4, <1>6

\* expandAtomic around one instruction.
LEMMA AtomicOfOne ==
  ASSUME NEW q
  PROVE  /\ Len(Atomic(<<q>>)) = 4
         /\ Atomic(<<q>>)[1] = MI("INRdA", "A", NoReg, P_ADDR)
         /\ Atomic(<<q>>)[2] = MI("BCLRs", NoReg, NoReg, 7)
         /\ Atomic(<<q>>)[3] = q
         /\ Atomic(<<q>>)[4] = MI("OUTARr", NoReg, "A", P_ADDR)
<1> DEFINE a == MI("INRdA", "A", NoReg, P_ADDR)
           b == MI("BCLRs", NoReg, NoReg, 7)
           c == MI("OUTARr", NoReg, "A", P_ADDR)
           f == <<a, b>>
           g == <<q>>
           h == <<c>>
           fg == f \o g
<1>0. Atomic(<<q>>) = f \o g \o h
  BY DEF Atomic
<1>. HIDE DEF a, b, c
<1>1. IsSeq(f) /\ Len(f) = 2 /\ f[1] = a /\ f[2] = b
  BY TwoFacts
<1>2. IsSeq(g) /\ Len(g) = 1 /\ g[1] = q
  BY OneFacts
<1>3. IsSeq(h) /\ Len(h) = 1 /\ h[1] = c
  BY OneFacts
<1>. HIDE DEF f, g, h
<1>4. /\ IsSeq(f \o g) /\ Len(f \o g) = Len(f) + Len(g)
      /\ \A k \in 1..Len(f) : (f \o g)[k] = f[k]
      /\ \A k \in 1..Len(g) : (f \o g)[Len(f) + k] = g[k]
  <2>1. IsSeq(f) /\ IsSeq(g)
    BY <1>1, <1>2
  <2>. QED
    BY <2>1, Concat
<1>5. Len(fg) = 3 /\ fg[1] = a /\ fg[2] = b /\ fg[3] = q
  BY <1>1, <1>2, <1>4
<1>8. IsSeq(fg)
  BY <1>4
<1>. HIDE DEF fg
<1>6. /\ IsSeq(fg \o h) /\ Len(fg \o h) = Len(fg) + Len(h)
      /\ \A k \in 1..Len(fg) : (fg \o h)[k] = fg[k]
      /\ \A k \in 1..Len(h) : (fg \o h)[Len(fg) + k] = h[k]
  <2>1. IsSeq(fg) /\ IsSeq(h)
    BY <1>3, <1>8
  <2>. QED
    BY <2>1, Concat
<1>7. /\ Len(fg \o h) = 4 /\ (fg \o h)[1] = a /\ (fg \o h)[2] = b /\ (fg \o h)[3] = q
      /\ (fg \o h)[4] = c
  BY <1>3, <1>5, <1>6
<1>9. Atomic(<<q>>) = fg \o h
  BY <1>0 DEF fg
<1>. QED
  BY <1>7, <1>9 DEF a, b, c

\* An atomic store becomes the store of a word, and that one of two bytes.
LEMMA AtomicStoreMakes ==
  ASSUME PassInv, CodeInv, ExpandMI, code[at].op = "AtomicStore16",
         Own(code, at, code[at].d, code[at].s)
  PROVE  /\ Grown = 3 /\ at \in Nat /\ WordStored(code', at, code[at].d, code[at].s)
         /\ \A k \in {at, at + 1, at + 3} : ~ThroughPointer(code'[k])
<1> DEFINE a == MI("INRdA", "A", NoReg, P_ADDR)
           b == MI("BCLRs", NoReg, NoReg, 7)
           q == MI("STWPtrRr", code[at].d, code[at].s, 0)
           c == MI("OUTARr", NoReg, "A", P_ADDR)
           e == Expansion(code[at])
<1>1. e = Atomic(<<q>>)
  <2>1. "AtomicStore16" \in DOMAIN AtomicMoves /\ AtomicMoves["AtomicStore16"] = "STWPtrRr"
    BY DEF AtomicMoves
  <2>. QED
    BY <2>1, ExpansionByKind
<1>2. /\ at \in 1..Len(code) /\ Len(code) \in Nat /\ Grown = Len(e) - 1
      /\ Len(code') = Len(code) + Grown
      /\ \A k \in 1..(Grown + 1) : code'[at - 1 + k] = e[k]
  BY Places DEF Grown
<1>3. IsPseudo(code[at])
  BY PseudosHaveRank DEF Rank, Twice
<1>4. b.op = "BCLRs" /\ ~ThroughPointer(a) /\ ~ThroughPointer(b) /\ ~ThroughPointer(c)
  BY RankOfMI DEF ThroughPointer, Stores
<1>5. Len(e) = 4 /\ e[1] = a /\ e[2] = b /\ e[3] = q /\ e[4] = c
  <2>. HIDE DEF e, q
  <2>. QED
    BY <1>1, AtomicOfOne
<1>. HIDE DEF a, b, c, e
<1>6. Grown = 3
  BY <1>2, <1>5
<1>7. /\ code'[at - 1 + 1] = a /\ code'[at - 1 + 2] = b /\ code'[at - 1 + 3] = q
      /\ code'[at - 1 + 4] = c
  BY <1>2, <1>5, <1>6
<1>8. /\ at \in Nat /\ at + 2 <= Len(code') /\ Len(code') \in Nat
      /\ at - 1 + 1 = at /\ at - 1 + 2 = at + 1 /\ at - 1 + 3 = at + 2 /\ at - 1 + 4 = at + 3
  <2>1. at \in 1..Len(code) /\ Len(code) \in Nat /\ Len(code') = Len(code) + 3
    BY <1>2, <1>6
  <2>. QED
    BY <2>1
<1>9. /\ code'[at] = a /\ code'[at + 1] = b /\ code'[at + 2] = q /\ code'[at + 3] = c
  BY <1>7, <1>8
<1>10. Own(code', at + 2, code[at].d, code[at].s)
  <2>1. at + 2 \in 1..Len(code') /\ 3 \in 1..(Grown + 1) /\ at + 2 = at - 1 + 3
    BY <1>6, <1>8
  <2>. QED
    BY <1>2, <1>3, <2>1, OwnMoves
<1>11. WordStored(code', at, code[at].d, code[at].s)
  BY <1>4, <1>8, <1>9, <1>10 DEF WordStored, q
<1>. QED
  BY <1>4, <1>6, <1>8, <1>9, <1>11

\* STW becomes two byte stores, the low byte first.
LEMMA StoreMakes ==
  ASSUME PassInv, CodeInv, ExpandMI, NEW b \in Nat, NEW d, NEW s, WordStored(code, b, d, s),
         at = b + 2
  PROVE  Grown = 1 /\ BytesStored(code', b, d, s)
<1> DEFINE q == MI("STWPtrRr", d, s, 0)
           x == MI("STPtrRr", d, LoReg[s], 0)
           y == MI("STDPtrQRr", d, HiReg[s], 1)
           e == Expansion(code[at])
<1>1. code[at] = q /\ q.op = "STWPtrRr" /\ q.d = d /\ q.s = s /\ q.k = 0 /\ code[b + 1].op = "BCLRs"
  BY RankOfMI DEF WordStored
<1>2. e = <<x, y>>
  <2>1. Access(q) = StoreDisplaced(q, "STPtrRr")
    BY <1>1 DEF Access
  <2>2. "STWPtrRr" \in WordAccesses
    BY DEF WordAccesses
  <2>3. StoreDisplaced(q, "STPtrRr") = <<x, y>>
    BY <1>1 DEF StoreDisplaced
  <2>. QED
    BY <1>1, <2>1, <2>2, <2>3, ExpansionByKind
<1>3. /\ at \in 1..Len(code) /\ Len(code) \in Nat /\ Grown = Len(e) - 1
      /\ Len(code') = Len(code) + Grown
      /\ \A k \in 1..(Grown + 1) : code'[at - 1 + k] = e[k]
      /\ \A k \in 1..Len(code) : k # at \/ ~IsPseudo(code[at]) => code'[Place(k)] = code[k]
  BY Places DEF Grown
<1>4. IsPseudo(code[at])
  BY <1>1, PseudosHaveRank DEF Rank, Twice, Once, WordAccesses
<1>. HIDE DEF q, x, y, e
<1>5. Len(e) = 2 /\ e[1] = x /\ e[2] = y
  BY <1>2, TwoFacts
<1>6. Grown = 1
  BY <1>3, <1>5
<1>7. code'[at - 1 + 1] = x /\ code'[at - 1 + 2] = y
  BY <1>3, <1>5, <1>6
<1>8. at - 1 + 1 = b + 2 /\ at - 1 + 2 = b + 3 /\ b + 3 <= Len(code') /\ Len(code') \in Nat
  <2>1. at \in 1..Len(code) /\ Len(code) \in Nat /\ Len(code') = Len(code) + 1
    BY <1>3, <1>6
  <2>. QED
    BY <2>1
<1>9. code'[b + 2] = x /\ code'[b + 3] = y
  BY <1>7, <1>8
<1>10. code'[b + 1] = code[b + 1]
  <2>1. b + 1 \in 1..Len(code) /\ b + 1 # at
    BY <1>3
  <2>2. Place(b + 1) = b + 1
    BY DEF Place
  <2>. QED
    BY <1>3, <2>1, <2>2
<1>11. Own(code', b + 3, d, s)
  <2>1. b + 3 \in 1..Len(code') /\ 2 \in 1..(Grown + 1) /\ b + 3 = at - 1 + 2
    BY <1>6, <1>8
  <2>2. Own(code, at, d, s)
    BY DEF WordStored
  <2>. QED
    BY <1>3, <1>4, <2>1, <2>2, OwnMoves
<1>12. BytesStored(code', b, d, s)
  BY <1>1, <1>8, <1>9, <1>10, <1>11 DEF BytesStored, x, y
<1>. QED
  BY <1>6, <1>12

\* The shared word is only written by atomic stores at first.
LEMMA SharedCodeInit ==
  ASSUME Init, AllFit, WritesSharedWhole(program)
  PROVE  SharedCode
<1>1. ASSUME NEW k \in 1..Len(program)
      PROVE  /\ SharedQuiet(program[k]) /\ ~ThroughPointer(program[k])
             /\ program[k].op = "AtomicStore16" => Own(program, k, program[k].d, program[k].s)
  <2>1. SharedQuiet(program[k]) /\ ~ThroughPointer(program[k])
    BY <1>1 DEF WritesSharedWhole, SharedQuiet, ThroughPointer, Pointers, ByteWrites, WordWrites,
                OtherStores
  <2>2. ASSUME program[k].op = "AtomicStore16" PROVE Own(program, k, program[k].d, program[k].s)
    <3>1. /\ program[k].d \in WordRegs
          /\ \A j \in 1..k : Keeps(program[j], program[k].d) /\ Keeps(program[j], program[k].s)
      BY <2>2 DEF WritesSharedWhole
    <3>2. Fits(program[k]) /\ IsPseudo(program[k])
      BY <2>2, PseudosHaveRank DEF Init, AllFit, Rank, Twice
    <3>3. program[k].s \in WordRegs
      BY <2>2, <3>2 DEF Fits, NoResult
    <3>. QED
      BY <2>2, <3>1, <3>3 DEF Own
  <2>. QED
    BY <2>1, <2>2
<1>. QED
  BY <1>1 DEF Init, SharedCode

\* The instruction at k of the block after expandMI.
SharedAt(k) ==
  /\ SharedQuiet(code'[k])
  /\ code'[k].op = "AtomicStore16" => Own(code', k, code'[k].d, code'[k].s)
  /\ ThroughPointer(code'[k]) => Protected(code', k)

\* The instructions a round moves.
LEMMA SharedPlaced ==
  ASSUME PassInv, CodeInv, SharedCode, ExpandMI, NEW k \in 1..Len(code'),
         NEW j \in 1..Len(code), k = Place(j), j # at \/ ~IsPseudo(code[at])
  PROVE  SharedAt(k)
<1>1. code'[k] = code[j]
  BY Places
<1>2. SharedQuiet(code[j])
  BY DEF SharedCode
<1>3. ASSUME code[j].op = "AtomicStore16" PROVE Own(code', k, code[j].d, code[j].s)
  <2>1. Own(code, j, code[j].d, code[j].s)
    BY <1>3 DEF SharedCode
  <2>. QED
    BY <2>1, OwnMoves
<1>4. ASSUME ThroughPointer(code[j]) PROVE Protected(code', k)
  <2>1. PICK b \in Nat, d \in WordRegs, s \in WordRegs :
          \/ WordStored(code, b, d, s) /\ j = b + 2
          \/ BytesStored(code, b, d, s) /\ (j = b + 2 \/ j = b + 3)
    BY <1>4 DEF SharedCode, Protected
  <2>2. CASE WordStored(code, b, d, s) /\ j = b + 2
    <3>1. IsPseudo(code[b + 2])
      <4>1. code[b + 2].op = "STWPtrRr"
        BY <2>2, RankOfMI DEF WordStored
      <4>. QED
        BY <4>1, PseudosHaveRank DEF Rank, Twice, Once, WordAccesses
    <3>2. at # b + 2
      BY <2>2, <3>1
    <3>3. PICK c \in Nat : WordStored(code', c, d, s) /\ Place(b + 2) = c + 2
      BY <2>2, <3>2, WordStoredMoves
    <3>. QED
      BY <2>2, <3>3 DEF Protected
  <2>3. CASE BytesStored(code, b, d, s) /\ (j = b + 2 \/ j = b + 3)
    <3>1. PICK c \in Nat : /\ BytesStored(code', c, d, s)
                           /\ Place(b + 2) = c + 2 /\ Place(b + 3) = c + 3
      BY <2>3, BytesStoredMoves
    <3>2. k = c + 2 \/ k = c + 3
      BY <2>3, <3>1
    <3>. QED
      BY <3>1, <3>2 DEF Protected
  <2>. QED
    BY <2>1, <2>2, <2>3
<1>. QED
  BY <1>1, <1>2, <1>3, <1>4 DEF SharedAt

\* The instructions a round makes.
LEMMA SharedMade ==
  ASSUME PassInv, CodeInv, SharedCode, CellsApart, ExpandMI, NEW k \in 1..Len(code'),
         IsPseudo(code[at]), NEW j \in 1..(Grown + 1), k = at - 1 + j,
         code'[k] = Expansion(code[at])[j]
  PROVE  SharedAt(k)
<1>0. at \in 1..Len(code) /\ Len(code) \in Nat
  BY Places
<1>1. code'[k] \in Members(Expansion(code[at]))
  <2>1. j \in 1..Len(Expansion(code[at]))
    BY ExpansionIsSeq DEF Grown
  <2>. QED
    BY <2>1 DEF Members
<1>2. Fits(code[at]) /\ SharedQuiet(code[at])
  BY <1>0 DEF CodeInv, SharedCode
<1>3. /\ SharedQuiet(code'[k]) /\ code'[k].op # "AtomicStore16"
      /\ ThroughPointer(code'[k]) =>
           code[at].op = "AtomicStore16" \/ (code[at].op = "STWPtrRr" /\ code[at].d \in Pointers)
  BY <1>1, <1>2, ExpansionSharedQuiet
<1>4. ASSUME ThroughPointer(code'[k]), code[at].op = "AtomicStore16" PROVE Protected(code', k)
  <2>1. Own(code, at, code[at].d, code[at].s)
    BY <1>0, <1>4 DEF SharedCode
  <2>2. /\ Grown = 3 /\ at \in Nat /\ WordStored(code', at, code[at].d, code[at].s)
        /\ ~ThroughPointer(code'[at]) /\ ~ThroughPointer(code'[at + 1])
        /\ ~ThroughPointer(code'[at + 3])
    BY <1>4, <2>1, AtomicStoreMakes
  <2>3. k = at \/ k = at + 1 \/ k = at + 2 \/ k = at + 3
    <3>1. at \in Nat /\ (j = 1 \/ j = 2 \/ j = 3 \/ j = 4)
      BY <2>2
    <3>. QED
      BY <3>1
  <2>4. k = at + 2
    BY <1>4, <2>2, <2>3
  <2>5. code[at].d \in WordRegs /\ code[at].s \in WordRegs
    BY <2>1 DEF Own
  <2>. QED
    BY <2>2, <2>4, <2>5 DEF Protected
<1>5. ASSUME ThroughPointer(code'[k]), code[at].op = "STWPtrRr", code[at].d \in Pointers
      PROVE  Protected(code', k)
  <2>1. ThroughPointer(code[at])
    BY <1>5 DEF ThroughPointer
  <2>2. PICK b \in Nat, d \in WordRegs, s \in WordRegs :
          \/ WordStored(code, b, d, s) /\ at = b + 2
          \/ BytesStored(code, b, d, s) /\ (at = b + 2 \/ at = b + 3)
    BY <1>0, <2>1 DEF SharedCode, Protected
  <2>3. ~BytesStored(code, b, d, s) \/ (at # b + 2 /\ at # b + 3)
    <3>1. ASSUME BytesStored(code, b, d, s), at = b + 2 \/ at = b + 3 PROVE FALSE
      <4>1. code[at].op \in {"STPtrRr", "STDPtrQRr"}
        BY <3>1, RankOfMI DEF BytesStored
      <4>. QED
        BY <1>5, <4>1
    <3>. QED
      BY <3>1
  <2>4. WordStored(code, b, d, s) /\ at = b + 2
    BY <2>2, <2>3
  <2>5. Grown = 1 /\ BytesStored(code', b, d, s)
    BY <2>4, StoreMakes
  <2>6. k = b + 2 \/ k = b + 3
    BY <1>0, <2>4, <2>5
  <2>. QED
    BY <2>5, <2>6 DEF Protected
<1>. QED
  BY <1>3, <1>4, <1>5 DEF SharedAt

\* Stores to the shared word stay behind the BCLR that protects them.
LEMMA SharedCodeStep ==
  ASSUME PassInv, CodeInv, SharedCode, CellsApart, [Next]_vars
  PROVE  SharedCode'
<1>1. program' = program /\ Pointers' = Pointers
  BY DEF Next, Run, ExpandMI, NextRound, StartRun, Step, Halt, Interrupt, DeviceTick, Stopped, pass,
         vars, Pointers, SharedPointers
<1>2. /\ \A q : SharedQuiet(q)' <=> SharedQuiet(q)
      /\ \A q : ThroughPointer(q)' <=> ThroughPointer(q)
      /\ \A c, k, d, s : Own(c, k, d, s)' <=> Own(c, k, d, s)
  BY <1>1 DEF SharedQuiet, ThroughPointer, Own
<1>3. \A k : Protected(code, k)' <=> Protected(code', k)
  BY <1>1 DEF Protected, WordStored, BytesStored, Own
<1>4. CASE ExpandMI
  <2>1. ASSUME NEW k \in 1..Len(code') PROVE SharedAt(k)
    BY <1>4, PlacedOrMade, SharedPlaced, SharedMade
  <2>. QED
    BY <1>1, <1>2, <1>3, <2>1 DEF SharedCode, SharedAt, SharedQuiet, ThroughPointer, Own
<1>5. CASE ~ExpandMI
  <2>1. code' = code
    BY <1>5 DEF Next, Run, NextRound, StartRun, Step, Halt, Interrupt, DeviceTick, Stopped, pass, vars
  <2>2. ASSUME NEW k \in 1..Len(code') PROVE SharedAt(k)
    BY <2>1 DEF SharedCode, SharedAt
  <2>. QED
    BY <1>1, <1>2, <1>3, <2>2 DEF SharedCode, SharedAt, SharedQuiet, ThroughPointer, Own
<1>. QED
  BY <1>4, <1>5

\* A register no instruction has changed yet has the word it started with.
UntouchedInv ==
  phase = "run" =>
    \A r \in WordRegs : (\A j \in 1..(at - 1) : Keeps(code[j], r)) =>
      m.reg[LoReg[r]] = start.reg[LoReg[r]] /\ m.reg[HiReg[r]] = start.reg[HiReg[r]]

\* The instructions up to the next one change what they change.
LEMMA UntouchedInvStep ==
  ASSUME PassInv, CodeInv, KeptInv, UntouchedInv, [Next]_vars
  PROVE  UntouchedInv'
<1>1. CASE ExpandMI \/ NextRound
  BY <1>1 DEF ExpandMI, NextRound, PassInv, UntouchedInv
<1>2. CASE StartRun
  BY <1>2 DEF StartRun, UntouchedInv
<1>3. CASE Step
  <2>1. /\ phase = "run" /\ at \in 1..Len(code) /\ Len(code) \in Nat /\ m' = Exec(code[at], m)
        /\ start' = start /\ code' = code /\ at' = at + 1
    BY <1>3, CodeFacts DEF Step
  <2>2. KeepsIn(code[at], m, m')
    BY <2>1, CodeFacts, ExecKeeps DEF CodeInv, KeptInv
  <2>3. ASSUME NEW r \in WordRegs, \A j \in 1..at : Keeps(code[j], r)
        PROVE  m'.reg[LoReg[r]] = start.reg[LoReg[r]] /\ m'.reg[HiReg[r]] = start.reg[HiReg[r]]
    <3>1. Keeps(code[at], r) /\ \A j \in 1..(at - 1) : Keeps(code[j], r)
      BY <2>1, <2>3
    <3>. QED
      BY <2>1, <2>2, <3>1 DEF KeepsIn, UntouchedInv
  <2>4. at' - 1 = at
    BY <2>1
  <2>. QED
    BY <2>1, <2>3, <2>4 DEF UntouchedInv
<1>4. CASE Halt
  BY <1>4 DEF Halt, UntouchedInv
<1>5. CASE Stopped \/ UNCHANGED vars
  BY <1>5 DEF Stopped, vars, machine, pass, UntouchedInv
<1>6. CASE Interrupt
  <2>1. phase = "run" /\ start' = start /\ at' = at /\ code' = code
    BY <1>6 DEF Interrupt, Interruptible, pass
  <2>2. m'.reg = m.reg
    BY <1>6, <2>1, InterruptFacts DEF KeptInv
  <2>. QED
    BY <2>1, <2>2 DEF UntouchedInv
<1>7. CASE DeviceTick
  <2>1. phase = "run" /\ start' = start /\ at' = at /\ code' = code
    BY <1>7 DEF DeviceTick, pass
  <2>2. m'.reg = m.reg
    BY <1>7, <2>1, DeviceTickFacts DEF KeptInv
  <2>. QED
    BY <2>1, <2>2 DEF UntouchedInv
<1>. QED
  BY <1>1, <1>2, <1>3, <1>4, <1>5, <1>6, <1>7 DEF Next, Run

\* The low byte of an atomic store to the shared word has been written, the
\* high byte not yet.
SharedHalf(b, d, s) == BytesStored(code, b, d, s) /\ at = b + 3 /\ WordOf(start, d) = Shared

SharedInv ==
  phase = "run" =>
    /\ DOMAIN m.mem = Cells
    /\ at > 1 /\ code[at - 1].op = "BCLRs" => m.P.i = 0
    /\ \A b \in Nat, d \in WordRegs, s \in WordRegs :
         SharedHalf(b, d, s) => m.mem[Shared] = start.reg[LoReg[s]] /\ m.P.i = 0
    /\ \/ WordAt(m, Shared) \in sharedWords \cup Stored({"AtomicStore16"})
       \/ \E b \in Nat, d \in WordRegs, s \in WordRegs : SharedHalf(b, d, s)

\* The shared word is memory, apart from the device.
LEMMA SharedFacts ==
  /\ Shared \in Cells /\ Shared + 1 \in Cells /\ Shared # Shared + 1
  /\ Shared # Dev /\ Shared # Dev + 1 /\ Shared + 1 # Dev /\ Shared + 1 # Dev + 1
  /\ Shared \in Word /\ Shared \in Nat
<1>1. Shared \in Cells /\ Shared + 1 \in Cells /\ Cells \subseteq Word
  BY ExpandAssumption, MachineAssumption
<1>2. Word \subseteq Nat
  BY ByteSizeAssumption DEF Word, WordSize
<1>. QED
  BY <1>1, <1>2, MachineAssumption

\* It is read as two bytes.
LEMMA WordAtShared == ASSUME NEW x PROVE WordAt(x, Shared) = Pair(x.mem[Shared], x.mem[Shared + 1])
BY SharedFacts DEF WordAt

\* A store makes no new memory.
LEMMA StoreDomain ==
  ASSUME NEW x, Shaped(x), NEW a, NEW b
  PROVE  DOMAIN Store(x, a, b).mem = DOMAIN x.mem
BY DEF Shaped, Store

\* Only a store to its addresses changes the shared word.
LEMMA SharedUntouched ==
  ASSUME NEW q, Fits(q), ~IsPseudo(q), SharedQuiet(q), CellsApart, NEW x, Shaped(x)
  PROVE  /\ DOMAIN Exec(q, x).mem = DOMAIN x.mem
         /\ (q.op \in Stores => Address(q, WordOf(x, q.d)) \notin SharedCells) =>
              Exec(q, x).mem[Shared] = x.mem[Shared] /\ Exec(q, x).mem[Shared + 1] = x.mem[Shared + 1]
<1> DEFINE u == Unshadowed(x)
<1>1. Shaped(u) /\ u.reg = x.reg /\ u.mem = x.mem /\ Exec(q, x) = Effect(q, u)
  BY UnshadowedFacts DEF Exec, Unshadowed
<1>2. Shared \in SharedCells /\ Shared + 1 \in SharedCells
  BY DEF SharedCells
<1>. HIDE DEF u
<1>3. CASE q.op \in ByteWrites
  <2> DEFINE a == Port(q, q.k)
             b == u.reg[Encoded(q.s)]
  <2>1. a \notin SharedCells
    BY <1>3 DEF SharedQuiet
  <2>2. Effect(q, u).mem = u.mem \/ Effect(q, u) = Store(u, a, b)
    <3>1. CASE q.op = "STSKRr"
      BY <3>1, EffectByKind DEF Port
    <3>2. CASE q.op = "OUTARr"
      <4>1. Effect(q, u) = Out(u, a, b)
        BY <3>2, EffectByKind DEF Port
      <4>. HIDE DEF a, b
      <4>. QED
        BY <1>1, <4>1, OutFacts
    <3>. QED
      BY <1>3, <3>1, <3>2 DEF ByteWrites
  <2>. HIDE DEF a, b
  <2>3. /\ DOMAIN Store(u, a, b).mem = DOMAIN u.mem
        /\ Store(u, a, b).mem[Shared] = u.mem[Shared]
        /\ Store(u, a, b).mem[Shared + 1] = u.mem[Shared + 1]
    <3>1. a # Shared /\ a # Shared + 1
      BY <1>2, <2>1
    <3>. QED
      BY <1>1, <3>1, StoreFacts, StoreDomain
  <2>4. q.op \notin Stores
    BY <1>3 DEF ByteWrites, Stores
  <2>. QED
    BY <1>1, <2>2, <2>3, <2>4
<1>4. CASE q.op \in Stores
  <2> DEFINE ptr == WordOf(u, q.d)
             y == Store(u, Address(q, ptr), u.reg[Encoded(q.s)])
             z == SetWord(y, q.d, PointerAfter(q, ptr))
  <2>1. Effect(q, u) = StoreIndirect(q, u)
    BY <1>4, EffectByKind
  <2>2. StoreIndirect(q, u) = y \/ StoreIndirect(q, u) = z
    BY DEF StoreIndirect
  <2>3. Shaped(y) /\ DOMAIN y.mem = DOMAIN u.mem
    BY <1>1, StoreFacts, StoreDomain
  <2>. HIDE DEF y
  <2>4. z.mem = y.mem
    BY <2>3, SetWordFacts
  <2>. HIDE DEF z
  <2>5. DOMAIN Effect(q, u).mem = DOMAIN u.mem
    BY <2>1, <2>2, <2>3, <2>4
  <2>6. ptr = WordOf(x, q.d)
    BY <1>1 DEF WordOf
  <2>7. \A c : c # Address(q, WordOf(u, q.d)) => Effect(q, u).mem[c] = u.mem[c]
    BY <1>1, <1>4, <2>1, StoreIndirectKeeps
  <2>. HIDE DEF ptr
  <2>8. ASSUME Address(q, ptr) \notin SharedCells
        PROVE  Effect(q, u).mem[Shared] = u.mem[Shared] /\ Effect(q, u).mem[Shared + 1] = u.mem[Shared + 1]
    <3>1. Shared # Address(q, ptr) /\ Shared + 1 # Address(q, ptr)
      BY <1>2, <2>8
    <3>. QED
      BY <2>7, <3>1 DEF ptr
  <2>. QED
    BY <1>1, <1>4, <2>5, <2>6, <2>8
<1>5. CASE q.op \notin ByteWrites \cup Stores
  <2>1. Exec(q, x).mem = x.mem
    BY <1>5, ExecKeeps DEF ByteWrites, SharedQuiet, Stacked
  <2>. QED
    BY <2>1
<1>. QED
  BY <1>3, <1>4, <1>5

\* What a store through an unmoved pointer writes.
LEMMA SharedWritten ==
  ASSUME NEW q, q.op \in {"STPtrRr", "STDPtrQRr"}, Fits(q), NEW x, Shaped(x), DOMAIN x.mem = Cells,
         Address(q, WordOf(x, q.d)) \in SharedCells
  PROVE  LET a == Address(q, WordOf(x, q.d))
         IN  /\ Exec(q, x).mem[a] = x.reg[Encoded(q.s)]
             /\ \A c : c # a => Exec(q, x).mem[c] = x.mem[c]
             /\ Exec(q, x).P = x.P
<1> DEFINE u == Unshadowed(x)
           a == Address(q, WordOf(x, q.d))
           b == x.reg[Encoded(q.s)]
<1>1. Shaped(u) /\ u.reg = x.reg /\ u.mem = x.mem /\ u.P = x.P
  BY UnshadowedFacts
<1>2. Exec(q, x) = Effect(q, u)
  BY DEF Exec, Unshadowed
<1>. HIDE DEF u
<1>3. q.op \in Stores
  BY DEF Stores
<1>4. WordOf(u, q.d) = WordOf(x, q.d)
  BY <1>1 DEF WordOf
<1>5. Effect(q, u) = Store(u, a, b)
  <2>1. PointerAfter(q, WordOf(u, q.d)) = WordOf(u, q.d)
    BY DEF PointerAfter
  <2>2. Effect(q, u) = StoreIndirect(q, u)
    BY <1>3, EffectByKind
  <2>. QED
    BY <1>1, <1>4, <2>1, <2>2 DEF StoreIndirect
<1>6. a \in Cells /\ a # Dev /\ a # Dev + 1
  BY SharedFacts DEF SharedCells
<1>. HIDE DEF a, b
<1>7. Store(u, a, b) = [u EXCEPT !.mem[a] = b]
  BY <1>6 DEF Store
<1>8. Store(u, a, b).mem[a] = b
  BY <1>1, <1>6, <1>7 DEF Shaped
<1>9. (\A c : c # a => Store(u, a, b).mem[c] = x.mem[c]) /\ Store(u, a, b).P = x.P
  BY <1>1, StoreFacts
<1>. QED
  BY <1>2, <1>5, <1>8, <1>9 DEF a, b

\* The registers of an atomic store are as they were at the start.
LEMMA OwnRegisters ==
  ASSUME UntouchedInv, phase = "run", NEW d, NEW s, NEW k \in Nat, Own(code, k, d, s),
         at \in Nat, at - 1 <= k
  PROVE  /\ WordOf(m, d) = WordOf(start, d)
         /\ m.reg[Encoded(LoReg[s])] = start.reg[LoReg[s]]
         /\ m.reg[Encoded(HiReg[s])] = start.reg[HiReg[s]]
<1>1. d \in WordRegs /\ s \in WordRegs /\ \A j \in 1..k : Keeps(code[j], d) /\ Keeps(code[j], s)
  BY DEF Own
<1>2. 1..(at - 1) \subseteq 1..k
  OBVIOUS
<1>3. \A r \in {d, s} : m.reg[LoReg[r]] = start.reg[LoReg[r]] /\ m.reg[HiReg[r]] = start.reg[HiReg[r]]
  <2>. SUFFICES ASSUME NEW r \in {d, s}
                PROVE  m.reg[LoReg[r]] = start.reg[LoReg[r]] /\ m.reg[HiReg[r]] = start.reg[HiReg[r]]
    OBVIOUS
  <2>1. r \in WordRegs /\ \A j \in 1..(at - 1) : Keeps(code[j], r)
    BY <1>1, <1>2
  <2>. QED
    BY <2>1 DEF UntouchedInv
<1>4. Encoded(LoReg[s]) = LoReg[s] /\ Encoded(HiReg[s]) = HiReg[s]
  BY <1>1, HalfRegisters DEF Encoded
<1>. QED
  BY <1>3, <1>4 DEF WordOf

\* What the machine of a step is like.
SharedStep ==
  /\ phase = "run" /\ phase' = "run" /\ at \in 1..Len(code) /\ at \in Nat /\ at' = at + 1
  /\ m' = Exec(code[at], m)
  /\ Shaped(m) /\ Fits(code[at]) /\ ~IsPseudo(code[at]) /\ SharedQuiet(code[at])
  /\ DOMAIN m.mem = Cells

\* The low byte is written first, with interrupts off.
LEMMA LowByteStored ==
  ASSUME UntouchedInv, SharedInv, SharedStep, NEW b \in Nat, NEW d \in WordRegs, NEW s \in WordRegs,
         BytesStored(code, b, d, s), at = b + 2, WordOf(start, d) = Shared
  PROVE  m'.mem[Shared] = start.reg[LoReg[s]] /\ m'.P.i = 0
<1>1. code[at] = MI("STPtrRr", d, LoReg[s], 0) /\ Own(code, b + 3, d, s) /\ code[at - 1].op = "BCLRs"
  <2>1. at - 1 = b + 1
    OBVIOUS
  <2>. QED
    BY <2>1 DEF BytesStored
<1>2. m.P.i = 0
  BY <1>1 DEF SharedInv, SharedStep
<1>3. /\ WordOf(m, d) = Shared /\ m.reg[Encoded(LoReg[s])] = start.reg[LoReg[s]]
  <2>1. b + 3 \in Nat /\ at \in Nat /\ at - 1 <= b + 3 /\ phase = "run"
    BY DEF SharedStep
  <2>. QED
    BY <1>1, <2>1, OwnRegisters
<1>4. code[at].op = "STPtrRr" /\ code[at].d = d /\ code[at].s = LoReg[s]
  BY <1>1, RankOfMI
<1>5. Address(code[at], WordOf(m, code[at].d)) = Shared
  BY <1>3, <1>4 DEF Address
<1>6. Shared \in SharedCells
  BY DEF SharedCells
<1>7. m'.mem[Shared] = m.reg[Encoded(code[at].s)] /\ m'.P = m.P
  BY <1>4, <1>5, <1>6, SharedWritten DEF SharedStep
<1>. QED
  BY <1>2, <1>3, <1>4, <1>7

\* Then the high byte, which completes the word.
LEMMA HighByteStored ==
  ASSUME UntouchedInv, SharedInv, SharedStep, CellsApart, NEW b \in Nat, NEW d \in WordRegs,
         NEW s \in WordRegs, SharedHalf(b, d, s)
  PROVE  WordAt(m', Shared) \in Stored({"AtomicStore16"}) /\ DOMAIN m'.mem = Cells
<1>1. /\ code[at] = MI("STDPtrQRr", d, HiReg[s], 1) /\ Own(code, b + 3, d, s) /\ at = b + 3
      /\ WordOf(start, d) = Shared
  BY DEF SharedHalf, BytesStored
<1>2. m.mem[Shared] = start.reg[LoReg[s]]
  BY DEF SharedInv, SharedStep
<1>3. /\ WordOf(m, d) = Shared /\ m.reg[Encoded(HiReg[s])] = start.reg[HiReg[s]]
  <2>1. b + 3 \in Nat /\ at \in Nat /\ at - 1 <= b + 3 /\ phase = "run"
    BY <1>1 DEF SharedStep
  <2>. QED
    BY <1>1, <2>1, OwnRegisters
<1>4. code[at].op = "STDPtrQRr" /\ code[at].d = d /\ code[at].s = HiReg[s] /\ code[at].k = 1
  BY <1>1, RankOfMI DEF MI
<1>5. Address(code[at], WordOf(m, code[at].d)) = Shared + 1
  <2>1. SixBits(1) = 1
    BY DEF SixBits
  <2>2. Shared + 1 \in Word
    BY SharedFacts, MachineAssumption
  <2>3. (Shared + 1) % WordSize = Shared + 1
    <3>1. WordSize \in Nat /\ WordSize > 0 /\ Shared + 1 \in 0..(WordSize - 1)
      BY <2>2, ByteSizeAssumption DEF Word, WordSize
    <3>. QED
      BY <3>1
  <2>. QED
    BY <1>3, <1>4, <2>1, <2>3 DEF Address
<1>6. Shared + 1 \in SharedCells
  BY DEF SharedCells
<1>7. /\ m'.mem[Shared + 1] = m.reg[Encoded(code[at].s)]
      /\ \A c : c # Shared + 1 => m'.mem[c] = m.mem[c]
  BY <1>4, <1>5, <1>6, SharedWritten DEF SharedStep
<1>8. m'.mem[Shared] = start.reg[LoReg[s]] /\ m'.mem[Shared + 1] = start.reg[HiReg[s]]
  BY <1>2, <1>3, <1>4, <1>7, SharedFacts
<1>9. WordAt(m', Shared) = WordOf(start, s)
  BY <1>8, WordAtShared DEF WordOf
<1>10. WordOf(start, s) \in Stored({"AtomicStore16"})
  BY <1>1 DEF Own, Stored
<1>11. DOMAIN m'.mem = Cells
  BY SharedUntouched DEF SharedStep
<1>. QED
  BY <1>9, <1>10, <1>11

\* An instruction writes half of the word with interrupts off only.
LEMMA SharedInvExec ==
  ASSUME PassInv, CodeInv, KeptInv, SharedCode, UntouchedInv, SharedInv, CellsApart, StoresApart,
         Step
  PROVE  SharedInv'
<1>1. /\ phase = "run" /\ phase' = "run" /\ at \in 1..Len(code) /\ Len(code) \in Nat
      /\ at \in Nat /\ at' = at + 1 /\ at <= Len(code)
      /\ m' = Exec(code[at], m) /\ start' = start /\ code' = code /\ program' = program
      /\ sharedWords' = sharedWords
  BY CodeFacts DEF Step
<1>2. SharedStep
  BY <1>1, CodeFacts DEF SharedStep, KeptInv, CodeInv, SharedCode, SharedInv
<1>3. Stored({"AtomicStore16"})' = Stored({"AtomicStore16"})
  BY <1>1 DEF Stored
<1>4. \A b, d, s : SharedHalf(b, d, s)' <=>
        BytesStored(code, b, d, s) /\ at + 1 = b + 3 /\ WordOf(start, d) = Shared
  BY <1>1 DEF SharedHalf, BytesStored, Own, WordOf
<1>5. ASSUME code[at].op = "BCLRs" PROVE m'.P.i = 0
  BY <1>2, <1>5, ExecClear DEF SharedStep
<1>6. ASSUME NEW b \in Nat, NEW d \in WordRegs, NEW s \in WordRegs, SharedHalf(b, d, s)'
      PROVE  m'.mem[Shared] = start.reg[LoReg[s]] /\ m'.P.i = 0
  <2>1. BytesStored(code, b, d, s) /\ at + 1 = b + 3 /\ WordOf(start, d) = Shared
    BY <1>4, <1>6
  <2>2. at = b + 2
    BY <1>1, <2>1
  <2>. QED
    BY <1>2, <2>1, <2>2, LowByteStored
<1>7. DOMAIN m'.mem = Cells
  BY <1>2, SharedUntouched DEF SharedStep
<1>8. \/ WordAt(m', Shared) \in sharedWords \cup Stored({"AtomicStore16"})
      \/ \E b \in Nat, d \in WordRegs, s \in WordRegs : SharedHalf(b, d, s)'
  <2>1. CASE \E b \in Nat, d \in WordRegs, s \in WordRegs : SharedHalf(b, d, s)
    BY <1>2, <2>1, HighByteStored
  <2>2. CASE ~\E b \in Nat, d \in WordRegs, s \in WordRegs : SharedHalf(b, d, s)
    <3>1. WordAt(m, Shared) \in sharedWords \cup Stored({"AtomicStore16"})
      BY <1>1, <2>2 DEF SharedInv
    <3>2. CASE code[at].op \in Stores /\ Address(code[at], WordOf(m, code[at].d)) \in SharedCells
      <4>1. code[at].d \in Pointers /\ WordOf(start, code[at].d) = Shared
        BY <1>1, <3>2 DEF StoresApart, Pointers
      <4>2. PICK b \in Nat, d \in WordRegs, s \in WordRegs :
              \/ WordStored(code, b, d, s) /\ at = b + 2
              \/ BytesStored(code, b, d, s) /\ (at = b + 2 \/ at = b + 3)
        BY <1>1, <3>2, <4>1 DEF SharedCode, ThroughPointer, Protected
      <4>3. ~(WordStored(code, b, d, s) /\ at = b + 2)
        <5>1. ASSUME WordStored(code, b, d, s), at = b + 2 PROVE FALSE
          <6>1. code[at].op = "STWPtrRr"
            BY <5>1, RankOfMI DEF WordStored
          <6>. QED
            BY <3>2, <6>1 DEF Stores
        <5>. QED
          BY <5>1
      <4>4. BytesStored(code, b, d, s) /\ (at = b + 2 \/ at = b + 3)
        BY <4>2, <4>3
      <4>5. code[at].d = d
        BY <4>4, RankOfMI DEF BytesStored
      <4>6. at # b + 3
        BY <2>2, <4>1, <4>4, <4>5 DEF SharedHalf
      <4>7. at + 1 = b + 3
        BY <1>1, <4>4, <4>6
      <4>8. SharedHalf(b, d, s)'
        BY <1>4, <4>1, <4>4, <4>5, <4>7
      <4>. QED
        BY <4>8
    <3>3. CASE ~(code[at].op \in Stores
                 /\ Address(code[at], WordOf(m, code[at].d)) \in SharedCells)
      <4>1. m'.mem[Shared] = m.mem[Shared] /\ m'.mem[Shared + 1] = m.mem[Shared + 1]
        BY <1>2, <3>3, SharedUntouched DEF SharedStep
      <4>2. WordAt(m', Shared) = WordAt(m, Shared)
        BY <4>1, WordAtShared
      <4>. QED
        BY <3>1, <4>2
    <3>. QED
      BY <3>2, <3>3
  <2>. QED
    BY <2>1, <2>2
<1>9. at' - 1 = at
  BY <1>1
<1>10. WordAt(m, Shared)' = WordAt(m', Shared)
  BY DEF WordAt
<1>. QED
  BY <1>1, <1>3, <1>5, <1>6, <1>7, <1>8, <1>9, <1>10 DEF SharedInv

\* An interrupt puts a whole word there.
LEMMA InterruptSharesWord ==
  ASSUME Shaped(m), DOMAIN m.mem = Cells, Interrupt
  PROVE  DOMAIN m'.mem = Cells /\ WordAt(m', Shared) \in sharedWords'
<1>1. PICK w \in HandlerWords :
        /\ m' = PutWord(IF m.sp \in Cells THEN [m EXCEPT !.mem[m.sp] = 0] ELSE m, Shared, w)
        /\ sharedWords' = sharedWords \cup {w}
  BY DEF Interrupt
<1> DEFINE x == IF m.sp \in Cells THEN [m EXCEPT !.mem[m.sp] = 0] ELSE m
<1>2. Shaped(x) /\ DOMAIN x.mem = Cells
  BY DEF Shaped
<1>3. m' = PutWord(x, Shared, w)
  BY <1>1
<1>. HIDE DEF x
<1>4. m' = [x EXCEPT !.mem[Shared] = Lo(w), !.mem[Shared + 1] = Hi(w)]
  BY <1>3, SharedFacts DEF PutWord
<1>5. /\ DOMAIN m'.mem = Cells
      /\ m'.mem[Shared] = Lo(w) /\ m'.mem[Shared + 1] = Hi(w)
  BY <1>2, <1>4, SharedFacts DEF Shaped
<1>6. Pair(Lo(w), Hi(w)) = w
  BY Halves, ExpandAssumption
<1>. QED
  BY <1>1, <1>5, <1>6, WordAtShared

\* Nothing happens to the shared word.
LEMMA SharedInvSame ==
  ASSUME SharedInv, program' = program, sharedWords' = sharedWords,
         phase' = "run" => /\ phase = "run" /\ at' = at /\ code' = code /\ start' = start
                           /\ m'.mem = m.mem /\ m'.P = m.P
  PROVE  SharedInv'
<1>1. Stored({"AtomicStore16"})' = Stored({"AtomicStore16"}) \/ phase' # "run"
  BY DEF Stored
<1>2. phase' = "run" => \A b, d, s : SharedHalf(b, d, s)' <=> SharedHalf(b, d, s)
  BY DEF SharedHalf, BytesStored, Own, WordOf
<1>3. phase' = "run" => WordAt(m, Shared)' = WordAt(m, Shared)
  BY SharedFacts DEF WordAt
<1>. QED
  BY <1>1, <1>2, <1>3 DEF SharedInv

\* Nor does another step leave half of a word with interrupts on.
LEMMA SharedInvStep ==
  ASSUME PassInv, CodeInv, KeptInv, SharedCode, UntouchedInv, SharedInv, CellsApart, StoresApart,
         [Next]_vars
  PROVE  SharedInv'
<1>1. CASE ExpandMI \/ NextRound
  BY <1>1 DEF ExpandMI, NextRound, PassInv, SharedInv
<1>2. CASE StartRun
  <2>1. PICK m0 \in Starts(program) :
          m' = m0 /\ start' = m0 /\ sharedWords' = {WordAt(m0, Shared)} /\ at' = 1
    BY <1>2 DEF StartRun
  <2>2. DOMAIN m'.mem = Cells
    <3>1. m0 \in Machines
      BY ExpandAssumption DEF CodeInv
    <3>. QED
      BY <2>1, <3>1 DEF Machines
  <2>3. WordAt(m, Shared)' \in sharedWords'
    BY <2>1 DEF WordAt
  <2>4. \A b \in Nat : at' # b + 3
    BY <2>1
  <2>. QED
    BY <2>1, <2>2, <2>3, <2>4 DEF SharedInv, SharedHalf
<1>3. CASE Step
  BY <1>3, SharedInvExec
<1>4. CASE Halt \/ Stopped \/ UNCHANGED vars
  <2>1. /\ program' = program /\ sharedWords' = sharedWords
        /\ phase' = "run" => /\ phase = "run" /\ at' = at /\ code' = code /\ start' = start
                             /\ m'.mem = m.mem /\ m'.P = m.P
    BY <1>4 DEF Halt, Stopped, vars, machine, pass
  <2>. QED
    BY <2>1, SharedInvSame
<1>5. CASE Interrupt
  <2>1. /\ phase = "run" /\ m.P.i = 1 /\ start' = start /\ at' = at /\ code' = code
        /\ program' = program /\ DOMAIN m.mem = Cells
    BY <1>5 DEF Interrupt, Interruptible, pass, SharedInv
  <2>2. DOMAIN m'.mem = Cells /\ WordAt(m', Shared) \in sharedWords' /\ m'.P = m.P
    BY <1>5, <2>1, InterruptFacts, InterruptSharesWord DEF KeptInv
  <2>3. \A b, d, s : SharedHalf(b, d, s)' <=> SharedHalf(b, d, s)
    BY <2>1 DEF SharedHalf, BytesStored, Own, WordOf
  <2>4. \A b \in Nat, d \in WordRegs, s \in WordRegs : ~SharedHalf(b, d, s)
    BY <2>1 DEF SharedInv
  <2>5. WordAt(m, Shared)' = WordAt(m', Shared)
    BY DEF WordAt
  <2>. QED
    BY <2>1, <2>2, <2>3, <2>4, <2>5 DEF SharedInv
<1>6. CASE DeviceTick
  <2>1. /\ phase = "run" /\ start' = start /\ at' = at /\ code' = code /\ program' = program
        /\ sharedWords' = sharedWords
    BY <1>6 DEF DeviceTick, pass
  <2>2. m'.mem = m.mem /\ m'.P = m.P
    BY <1>6, <2>1, DeviceTickFacts DEF KeptInv
  <2>. QED
    BY <2>1, <2>2, SharedInvSame
<1>. QED
  BY <1>1, <1>2, <1>3, <1>4, <1>5, <1>6 DEF Next, Run

\* What the invariant is for.
LEMMA SharedInvMeans ==
  ASSUME SharedInv
  PROVE  SharedWordWhole
BY DEF SharedInv, SharedWordWhole, Interruptible

\* The contract on every program.
SharedPromise == AllFit /\ \A p \in Programs : WritesSharedWhole(p)

\* expandAtomic disables interrupts around STW: while other stores stay away
\* from the shared word, no handler meets half of an atomic store to it.
THEOREM SharedSafe ==
  ASSUME SharedPromise
  PROVE  Spec /\ []StoresApart => []SharedWordWhole
<1> DEFINE Inv == /\ PassInv /\ CodeInv /\ KeptInv /\ SharedCode /\ UntouchedInv /\ SharedInv
                  /\ WritesSharedWhole(program)
<1>1. Init => Inv
  <2>1. Init => WritesSharedWhole(program)
    BY DEF Init, SharedPromise
  <2>2. Init => KeptInv /\ UntouchedInv /\ SharedInv
    BY DEF Init, KeptInv, UntouchedInv, SharedInv
  <2>. QED
    BY <2>1, <2>2, PassInvInit, CodeInvInit, SharedCodeInit DEF SharedPromise
<1>2. Inv /\ StoresApart /\ [Next]_vars => Inv'
  <2>1. ASSUME [Next]_vars PROVE program' = program
    BY <2>1 DEF Next, Run, ExpandMI, NextRound, StartRun, Step, Halt, Interrupt, DeviceTick, Stopped,
                pass, vars
  <2>2. ASSUME WritesSharedWhole(program), [Next]_vars PROVE WritesSharedWhole(program)'
    BY <2>1, <2>2 DEF WritesSharedWhole, SharedPointers
  <2>3. WritesSharedWhole(program) => CellsApart
    BY DEF WritesSharedWhole, CellsApart
  <2>. QED
    BY <2>2, <2>3, PassInvStep, CodeInvStep, KeptInvStep, SharedCodeStep, UntouchedInvStep,
       SharedInvStep
<1>3. Inv => SharedWordWhole
  BY SharedInvMeans
<1>. HIDE DEF Inv
<1>. QED
  BY <1>1, <1>2, <1>3, PTL DEF Spec
=============================================================================
