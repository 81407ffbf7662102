-------------------------- MODULE LoweringProofs --------------------------
(***************************************************************************)
(* What getSNESCmp rests on, for every width: the condition it chooses     *)
(* holds after the compare it chooses exactly when the source comparison   *)
(* does, and a compare done word by word with borrows (CMP, CMPC, ...)     *)
(* leaves the flags of the compare of the whole.                           *)
(*                                                                         *)
(* Then the pass and the running code, for every set of functions with any *)
(* number of operations: the types, the PHIs that match the predecessors,  *)
(* the edges that are the CFG's in exactly the safe functions, and the     *)
(* PHIs that know where control came from.                                 *)
(***************************************************************************)
EXTENDS Lowering, WordArithProofs, SequenceFacts

FlagsType == [c : {0, 1}, z : {0, 1}, s : {0, 1}, n : {0, 1}]

\* A branch on a condition the compares serve sees the same in p and q.
SameToBranches(p, q) == p.c = q.c /\ p.z = q.z /\ p.s = q.s

\* The operands of a compare of registers LReg and RReg, or of a constant.
Operand(o, l, r) == IF o.reg = 0 THEN o.k ELSE IF o.reg = LReg THEN l ELSE r

LEMMA SubWithSmall ==
  ASSUME NEW M \in Nat, M > 1, NEW a \in 0..(M - 1), NEW b \in 0..(M - 1), NEW c \in {0, 1}
  PROVE  /\ SubWith(a, b, c, M).val = IF a < b + c THEN a - b - c + M ELSE a - b - c
         /\ SubWith(a, b, c, M).carry = Bit(a < b + c)
<1>1. CASE a < b + c
  <2>1. (a - b - c) % M = a - b - c + M
    BY <1>1, DivModUnique, M * (-1) + (a - b - c + M) = a - b - c
  <2> QED
    BY <1>1, <2>1 DEF SubWith, Bit
<1>2. CASE ~(a < b + c)
  <2>1. (a - b - c) % M = a - b - c
    BY <1>2
  <2> QED
    BY <1>2, <2>1 DEF SubWith, Bit
<1> QED
  BY <1>1, <1>2

\* The flags after a compare, read by the branches.
LEMMA ComparedFlags ==
  ASSUME NEW M \in Nat, M > 1, NEW a \in 0..(M - 1), NEW b \in 0..(M - 1),
         NEW p, SameToBranches(p, Subtracted(a, b, 0, 1, M))
  PROVE  /\ Taken("EQ", p) <=> a = b
         /\ Taken("NE", p) <=> a # b
         /\ Taken("LO", p) <=> a < b
         /\ Taken("SH", p) <=> a >= b
         /\ Taken("LT", p) <=> Signed(a, M) < Signed(b, M)
         /\ Taken("GE", p) <=> Signed(a, M) >= Signed(b, M)
<1> DEFINE q == Subtracted(a, b, 0, 1, M)
<1>1. /\ SubWith(a, b, 0, M).val = IF a < b THEN a - b + M ELSE a - b
      /\ SubWith(a, b, 0, M).carry = Bit(a < b)
  BY SubWithSmall, a < b + 0 <=> a < b
<1>2. (SubWith(a, b, 0, M).val = 0) <=> a = b
  BY <1>1
<1>3. q.c = Bit(a < b) /\ q.z = Bit(a = b)
  BY <1>1, <1>2 DEF Subtracted
<1>4. Signed(a, M) \in Int /\ Signed(b, M) \in Int
  BY DEF Signed
<1>5. SignedLess(a, b, 0, M) <=> Signed(a, M) < Signed(b, M)
  BY <1>4 DEF SignedLess
<1>6. q.s = Bit(Signed(a, M) < Signed(b, M))
  BY <1>5 DEF Subtracted, Bit
<1>7. p.c = Bit(a < b) /\ p.z = Bit(a = b) /\ p.s = Bit(Signed(a, M) < Signed(b, M))
  BY <1>3, <1>6 DEF SameToBranches
<1> QED
  BY <1>4, <1>7 DEF Taken, Bit

LEMMA SignedRange ==
  ASSUME NEW M \in Nat, M > 1, NEW a \in 0..(M - 1)
  PROVE  /\ Signed(a, M) \in Int /\ -M <= 2 * Signed(a, M) /\ 2 * Signed(a, M) < M
         /\ \A b \in 0..(M - 1) : Signed(a, M) = Signed(b, M) => a = b
BY DEF Signed

\* The constant after c is the number after c, unless c is the last one.
LEMMA NextIsNext ==
  ASSUME NEW M \in Nat, M > 1, NEW k \in 0..(M - 1)
  PROVE  /\ (Signed(k, M) + 1) % M \in 0..(M - 1)
         /\ (\E x \in 0..(M - 1) : Signed(x, M) > Signed(k, M)) =>
               Signed((Signed(k, M) + 1) % M, M) = Signed(k, M) + 1
         /\ k < M - 1 => (Signed(k, M) + 1) % M = k + 1
<1>1. CASE 2 * k < M /\ k + 1 < M
  <2>1. Signed(k, M) = k /\ (k + 1) % M = k + 1
    BY <1>1 DEF Signed
  <2>2. (\E x \in 0..(M - 1) : Signed(x, M) > k) => 2 * (k + 1) < M
    BY <1>1 DEF Signed
  <2> QED
    BY <1>1, <2>1, <2>2 DEF Signed
<1>2. CASE 2 * k < M /\ k + 1 = M
  BY <1>2
<1>3. CASE 2 * k >= M /\ k + 1 < M
  <2>1. Signed(k, M) = k - M /\ (k - M + 1) % M = k + 1
    BY <1>3, DivModUnique, M * (-1) + (k + 1) = k - M + 1 DEF Signed
  <2> QED
    BY <1>3, <2>1 DEF Signed
<1>4. CASE 2 * k >= M /\ k + 1 = M
  <2>1. Signed(k, M) = -1
    BY <1>4 DEF Signed
  <2>2. (-1 + 1) % M = 0
    OBVIOUS
  <2> QED
    BY <1>4, <2>1, <2>2 DEF Signed
<1> QED
  BY <1>1, <1>2, <1>3, <1>4

\* getSNESCmp is right for every width: with flags that are those of the
\* compare or of the test it returns, its condition holds exactly when the
\* source comparison does - for a register on the right, and for every
\* constant nothing but the greatest value is excluded from (there the code
\* for "greater" would wrap; such a comparison is folded before).
THEOREM ComparisonDecides ==
  ASSUME NEW M \in Nat, M > 1, NEW l \in 0..(M - 1), NEW r \in 0..(M - 1),
         NEW cc \in Conditions, NEW const \in BOOLEAN, NEW p \in FlagsType,
         const /\ cc = "SETGT" => \E x \in 0..(M - 1) : Signed(x, M) > Signed(r, M),
         const /\ cc = "SETUGT" => r < M - 1,
         NEW cmp, cmp = GetSNESCmp(cc, Reg(LReg), IF const THEN Const(r) ELSE Reg(RReg), M),
         IF cmp.test
           THEN p.n = TopBit(Operand(cmp.l, l, r), M)
           ELSE SameToBranches(p, Subtracted(Operand(cmp.l, l, r), Operand(cmp.r, l, r), 0, 1, M))
  PROVE  Taken(cmp.cc, p) <=> Relation(cc, l, r, M)
<1> DEFINE rhs == IF const THEN Const(r) ELSE Reg(RReg)
           c == Signed(rhs.k, M)
<1>1. /\ Operand(Reg(LReg), l, r) = l /\ Operand(Reg(RReg), l, r) = r
      /\ \A k : Operand(Const(k), l, r) = k
  BY DEF Operand, Reg, Const, LReg, RReg
<1>2. /\ (rhs.reg = 0) = const /\ Operand(rhs, l, r) = r
      /\ const => c = Signed(r, M)
  BY <1>1 DEF Reg, Const, RReg
<1>3. Signed(0, M) = 0
  BY DEF Signed
<1>4. Signed(l, M) \in Int /\ Signed(r, M) \in Int
  BY SignedRange
<1>5. TopBit(l, M) = IF Signed(l, M) < 0 THEN 1 ELSE 0
  BY DEF TopBit, Signed
<1>6. cmp = GetSNESCmp(cc, Reg(LReg), rhs, M)
  OBVIOUS
<1> HIDE DEF rhs
<1>7. ASSUME NEW u \in 0..(M - 1), NEW v \in 0..(M - 1), NEW x, NEW y, NEW cond,
             cmp = [test |-> FALSE, l |-> x, r |-> y, cc |-> cond],
             Operand(x, l, r) = u, Operand(y, l, r) = v
      PROVE  /\ cond = "EQ" => (Taken(cmp.cc, p) <=> u = v)
             /\ cond = "NE" => (Taken(cmp.cc, p) <=> u # v)
             /\ cond = "LO" => (Taken(cmp.cc, p) <=> u < v)
             /\ cond = "SH" => (Taken(cmp.cc, p) <=> u >= v)
             /\ cond = "LT" => (Taken(cmp.cc, p) <=> Signed(u, M) < Signed(v, M))
             /\ cond = "GE" => (Taken(cmp.cc, p) <=> Signed(u, M) >= Signed(v, M))
  <2>1. cmp.test = FALSE /\ cmp.l = x /\ cmp.r = y /\ cmp.cc = cond
    BY <1>7
  <2>2. SameToBranches(p, Subtracted(u, v, 0, 1, M))
    BY <1>7, <2>1
  <2> QED
    BY <2>1, <2>2, ComparedFlags
<1> DEFINE L == Reg(LReg)
<1>0. cmp = GetSNESCmp(cc, L, rhs, M) /\ Operand(L, l, r) = l
  BY <1>1, <1>6
<1> HIDE DEF L
<1>8. CASE cc = "SETEQ"
  <2>1. cmp = [test |-> FALSE, l |-> L, r |-> rhs, cc |-> "EQ"]
    BY <1>0, <1>8 DEF GetSNESCmp, Compare, SNESCC
  <2>2. Taken(cmp.cc, p) <=> l = r
    BY <1>0, <1>2, <1>7, <2>1
  <2> QED
    BY <1>4, <1>8, <2>2 DEF Relation
<1>9. CASE cc = "SETNE"
  <2>1. cmp = [test |-> FALSE, l |-> L, r |-> rhs, cc |-> "NE"]
    BY <1>0, <1>9 DEF GetSNESCmp, Compare, SNESCC
  <2>2. Taken(cmp.cc, p) <=> l # r
    BY <1>0, <1>2, <1>7, <2>1
  <2> QED
    BY <1>4, <1>9, <2>2 DEF Relation
<1>10. CASE cc = "SETGE"
  <2>1. cmp = [test |-> FALSE, l |-> L, r |-> rhs, cc |-> "GE"]
    BY <1>0, <1>10 DEF GetSNESCmp, Compare, SNESCC
  <2>2. Taken(cmp.cc, p) <=> Signed(l, M) >= Signed(r, M)
    BY <1>0, <1>2, <1>7, <2>1
  <2> QED
    BY <1>4, <1>10, <2>2 DEF Relation
<1>11. CASE cc = "SETLE"
  <2>1. cmp = [test |-> FALSE, l |-> rhs, r |-> L, cc |-> "GE"]
    BY <1>0, <1>11 DEF GetSNESCmp, Compare, SNESCC
  <2>2. Taken(cmp.cc, p) <=> Signed(r, M) >= Signed(l, M)
    BY <1>0, <1>2, <1>7, <2>1
  <2> QED
    BY <1>4, <1>11, <2>2 DEF Relation
<1>12. CASE cc = "SETUGE"
  <2>1. cmp = [test |-> FALSE, l |-> L, r |-> rhs, cc |-> "SH"]
    BY <1>0, <1>12 DEF GetSNESCmp, Compare, SNESCC
  <2>2. Taken(cmp.cc, p) <=> l >= r
    BY <1>0, <1>2, <1>7, <2>1
  <2> QED
    BY <1>4, <1>12, <2>2 DEF Relation
<1>13. CASE cc = "SETULT"
  <2>1. cmp = [test |-> FALSE, l |-> L, r |-> rhs, cc |-> "LO"]
    BY <1>0, <1>13 DEF GetSNESCmp, Compare, SNESCC
  <2>2. Taken(cmp.cc, p) <=> l < r
    BY <1>0, <1>2, <1>7, <2>1
  <2> QED
    BY <1>4, <1>13, <2>2 DEF Relation
<1>14. CASE cc = "SETULE"
  <2>1. cmp = [test |-> FALSE, l |-> rhs, r |-> L, cc |-> "SH"]
    BY <1>0, <1>14 DEF GetSNESCmp, Compare, SNESCC
  <2>2. Taken(cmp.cc, p) <=> r >= l
    BY <1>0, <1>2, <1>7, <2>1
  <2> QED
    BY <1>4, <1>14, <2>2 DEF Relation
<1>15. CASE cc = "SETUGT"
  <2>1. CASE const
    <3>1. (Signed(r, M) + 1) % M = r + 1 /\ r + 1 \in 0..(M - 1)
      BY <1>15, <2>1, NextIsNext
    <3>2. cmp = [test |-> FALSE, l |-> L, r |-> Const(r + 1), cc |-> "SH"]
      BY <1>0, <1>2, <1>15, <2>1, <3>1 DEF GetSNESCmp, Compare, SNESCC, NextConst
    <3>3. Taken(cmp.cc, p) <=> l >= r + 1
      BY <1>0, <1>1, <1>2, <1>3, <1>7, <3>2, <3>1
    <3> QED
      BY <1>2, <1>3, <1>4, <1>15, <2>1, <3>3, <3>1 DEF Relation
  <2>2. CASE ~const
    <3>2. cmp = [test |-> FALSE, l |-> rhs, r |-> L, cc |-> "LO"]
      BY <1>0, <1>2, <1>15, <2>2 DEF GetSNESCmp, Compare, SNESCC, NextConst
    <3>3. Taken(cmp.cc, p) <=> r < l
      BY <1>0, <1>1, <1>2, <1>3, <1>7, <3>2
    <3> QED
      BY <1>2, <1>3, <1>4, <1>15, <2>2, <3>3 DEF Relation
  <2> QED
    BY <2>1, <2>2
<1>16. CASE cc = "SETGT"
  <2>1. CASE ~const
    <3>2. cmp = [test |-> FALSE, l |-> rhs, r |-> L, cc |-> "LT"]
      BY <1>0, <1>2, <1>16, <2>1 DEF GetSNESCmp, Compare, SNESCC, NextConst
    <3>3. Taken(cmp.cc, p) <=> Signed(r, M) < Signed(l, M)
      BY <1>0, <1>1, <1>2, <1>3, <1>7, <3>2
    <3> QED
      BY <1>2, <1>3, <1>4, <1>16, <2>1, <3>3 DEF Relation
  <2>2. CASE const /\ c = -1
    <3>0. c # 0 /\ c \in {-1, 0}
      BY <2>2
    <3>1. cmp = [test |-> TRUE, l |-> L, r |-> L, cc |-> "PL"]
      BY <1>0, <1>2, <1>16, <2>2, <3>0 DEF GetSNESCmp, Test, Compare, NextConst
    <3>2. cmp.test = TRUE /\ cmp.l = L /\ cmp.cc = "PL"
      BY <3>1
    <3>3. p.n = TopBit(l, M)
      BY <1>0, <3>2
    <3>4. Taken("PL", p) <=> p.n = 0
      BY DEF Taken
    <3> QED
      BY <1>2, <1>4, <1>5, <1>16, <2>2, <3>2, <3>3, <3>4 DEF Relation
  <2>3. CASE const /\ c = 0
    <3>0. c # -1 /\ c \in {-1, 0}
      BY <2>3
    <3>2. cmp = [test |-> FALSE, l |-> Const(0), r |-> L, cc |-> "LT"]
      BY <1>0, <1>2, <1>16, <2>3, <3>0 DEF GetSNESCmp, Compare, SNESCC, NextConst
    <3>3. Taken(cmp.cc, p) <=> Signed(0, M) < Signed(l, M)
      BY <1>0, <1>1, <1>2, <1>3, <1>7, <3>2
    <3> QED
      BY <1>2, <1>3, <1>4, <1>16, <2>3, <3>3 DEF Relation
  <2>4. CASE const /\ c \notin {-1, 0}
    <3>1. (c + 1) % M \in 0..(M - 1) /\ Signed((c + 1) % M, M) = Signed(r, M) + 1
      BY <1>2, <1>16, <2>4, NextIsNext
    <3>2. cmp = [test |-> FALSE, l |-> L, r |-> Const((c + 1) % M), cc |-> "GE"]
      BY <1>0, <1>2, <1>16, <2>4, <3>1 DEF GetSNESCmp, Compare, SNESCC, NextConst
    <3>3. Taken(cmp.cc, p) <=> Signed(l, M) >= Signed((c + 1) % M, M)
      BY <1>0, <1>1, <1>2, <1>3, <1>7, <3>2, <3>1
    <3> QED
      BY <1>2, <1>3, <1>4, <1>16, <2>4, <3>3, <3>1 DEF Relation
  <2> QED
    BY <2>1, <2>2, <2>3, <2>4
<1>17. CASE cc = "SETLT"
  <2>1. CASE const /\ c = 1
    <3>0. c # 0 /\ c # -1
      BY <2>1
    <3>2. cmp = [test |-> FALSE, l |-> Const(0), r |-> L, cc |-> "GE"]
      BY <1>0, <1>2, <1>17, <2>1, <3>0 DEF GetSNESCmp, Compare, SNESCC, NextConst
    <3>3. Taken(cmp.cc, p) <=> Signed(0, M) >= Signed(l, M)
      BY <1>0, <1>1, <1>2, <1>3, <1>7, <3>2
    <3> QED
      BY <1>2, <1>3, <1>4, <1>17, <2>1, <3>3 DEF Relation
  <2>2. CASE const /\ c = 0
    <3>0. c # 1 /\ c # -1
      BY <2>2
    <3>1. cmp = [test |-> TRUE, l |-> L, r |-> L, cc |-> "MI"]
      BY <1>0, <1>2, <1>17, <2>2, <3>0 DEF GetSNESCmp, Test, Compare, NextConst
    <3>2. cmp.test = TRUE /\ cmp.l = L /\ cmp.cc = "MI"
      BY <3>1
    <3>3. p.n = TopBit(l, M)
      BY <1>0, <3>2
    <3>4. Taken("MI", p) <=> p.n = 1
      BY DEF Taken
    <3> QED
      BY <1>2, <1>4, <1>5, <1>17, <2>2, <3>2, <3>3, <3>4 DEF Relation
  <2>3. CASE ~(const /\ c \in {0, 1})
    <3>2. cmp = [test |-> FALSE, l |-> L, r |-> rhs, cc |-> "LT"]
      BY <1>0, <1>2, <1>17, <2>3 DEF GetSNESCmp, Compare, SNESCC, NextConst
    <3>3. Taken(cmp.cc, p) <=> Signed(l, M) < Signed(r, M)
      BY <1>0, <1>1, <1>2, <1>3, <1>7, <3>2
    <3> QED
      BY <1>2, <1>3, <1>4, <1>17, <2>3, <3>3 DEF Relation
  <2> QED
    BY <2>1, <2>2, <2>3
<1> QED
  BY <1>8, <1>9, <1>10, <1>11, <1>12, <1>13, <1>14, <1>15, <1>16, <1>17 DEF Conditions

\* A number of two digits, of M and N values; half of N's are negative.
LEMMA TwoDigits ==
  ASSUME NEW M \in Nat, M > 1, NEW N \in Nat, N > 1, N % 2 = 0,
         NEW lo \in 0..(M - 1), NEW hi \in 0..(N - 1)
  PROVE  /\ M * N \in Nat /\ M * N > 1 /\ M * hi + lo \in 0..(M * N - 1)
         /\ Signed(M * hi + lo, M * N) = M * Signed(hi, N) + lo
         /\ TopBit(M * hi + lo, M * N) = TopBit(hi, N)
<1> DEFINE w == M * hi + lo
           k == N \div 2
           H == M * hi
           K == M * k
<1>0. k \in Nat /\ k > 0 /\ N = 2 * k
  BY DivMod
<1> HIDE DEF k
<1>1. H \in Nat /\ K \in Nat /\ M * N = 2 * K /\ K >= M
  BY <1>0, M * (2 * k) = 2 * (M * k)
<1>2. hi <= N - 1 /\ M * (N - 1) = M * N - M /\ H <= M * (N - 1)
  OBVIOUS
<1>3. M * (hi - N) = H - M * N
  OBVIOUS
<1>4. CASE 2 * hi < N
  <2>1. hi + 1 <= k /\ M * (hi + 1) = H + M /\ M * (hi + 1) <= K
    BY <1>0, <1>4
  <2>2. 2 * (H + lo) < 2 * K
    BY <1>1, <2>1
  <2> QED
    BY <1>1, <1>2, <1>4, <2>2 DEF Signed, TopBit
<1>5. CASE 2 * hi >= N
  <2>1. hi >= k /\ H >= K
    BY <1>0, <1>5
  <2>2. ~(2 * (H + lo) < 2 * K)
    BY <1>1, <2>1
  <2> QED
    BY <1>1, <1>2, <1>3, <1>5, <2>2 DEF Signed, TopBit
<1> QED
  BY <1>4, <1>5

\* CMP and CMPC: a compare of the low parts, then of the high parts with its
\* borrow and its Z, is the compare of the whole.  Applied once it gives the
\* 32-bit compare, three times the 64-bit one, and at bytes CPW and CPCW.
THEOREM WordByWord ==
  ASSUME NEW M \in Nat, M > 1, NEW N \in Nat, N > 1, N % 2 = 0,
         NEW lo1 \in 0..(M - 1), NEW lo2 \in 0..(M - 1),
         NEW hi1 \in 0..(N - 1), NEW hi2 \in 0..(N - 1), NEW b \in {0, 1}, NEW z \in {0, 1},
         NEW low, low = Subtracted(lo1, lo2, b, z, M)
  PROVE  SameToBranches(Subtracted(hi1, hi2, low.c, low.z, N),
                        Subtracted(M * hi1 + lo1, M * hi2 + lo2, b, z, M * N))
<1> DEFINE w1 == M * hi1 + lo1
           w2 == M * hi2 + lo2
           v == SubWith(lo1, lo2, b, M).val
           c1 == SubWith(lo1, lo2, b, M).carry
           hv == SubWith(hi1, hi2, c1, N).val
           c2 == SubWith(hi1, hi2, c1, N).carry
           s1 == Signed(hi1, N)
           s2 == Signed(hi2, N)
           MN == M * N
           H1 == M * hi1
           H2 == M * hi2
<1>1. N > 1
  OBVIOUS
<1>2. /\ MN \in Nat /\ MN > 1
      /\ w1 \in 0..(MN - 1) /\ Signed(w1, MN) = M * s1 + lo1
  BY TwoDigits, <1>1
<1>3. w2 \in 0..(MN - 1) /\ Signed(w2, MN) = M * s2 + lo2
  BY TwoDigits, <1>1
<1>4. v \in 0..(M - 1) /\ c1 \in {0, 1} /\ lo1 - lo2 - b = v - M * c1
  BY SubParts
<1> HIDE DEF v, c1
<1>5. hv \in 0..(N - 1) /\ c2 \in {0, 1} /\ hi1 - hi2 - c1 = hv - N * c2
  <2>1. c1 \in {0, 1} /\ N \in Nat /\ N > 1 /\ hi1 \in 0..(N - 1) /\ hi2 \in 0..(N - 1)
    BY <1>1, <1>4
  <2> HIDE DEF hv, c2
  <2>2. \A x \in {0, 1} :
           /\ SubWith(hi1, hi2, x, N).val \in 0..(N - 1)
           /\ SubWith(hi1, hi2, x, N).carry \in {0, 1}
           /\ hi1 - hi2 - x = SubWith(hi1, hi2, x, N).val - N * SubWith(hi1, hi2, x, N).carry
    <3> TAKE x \in {0, 1}
    <3> QED
      BY <2>1, SubParts
  <2> QED
    BY <2>1, <2>2 DEF hv, c2
<1> HIDE DEF hv, c2
<1>6. M * hv + v \in 0..(MN - 1)
  BY TwoDigits, <1>1, <1>4, <1>5
<1>7. w1 - w2 - b = MN * (-c2) + (M * hv + v)
  <2>1. M * (hi1 - hi2 - c1) = H1 - H2 - M * c1
    BY <1>4
  <2>2. M * (hv - N * c2) = M * hv - MN * c2
    BY <1>5
  <2>3. MN * (-c2) = -(MN * c2)
    BY <1>2, <1>5
  <2>4. M * hv \in Int /\ MN * c2 \in Int /\ M * c1 \in Int /\ H1 \in Int /\ H2 \in Int
    BY <1>2, <1>4, <1>5
  <2>5. H1 - H2 - M * c1 = M * hv - MN * c2
    BY <1>5, <2>1, <2>2
  <2> QED
    BY <1>4, <2>3, <2>4, <2>5
<1> HIDE DEF MN
<1>8. SubWith(w1, w2, b, MN).val = M * hv + v
  <2> DEFINE t == M * hv + v
             q == -c2
  <2>1. q \in Int /\ t \in 0..(MN - 1) /\ w1 - w2 - b = MN * q + t
    BY <1>5, <1>6, <1>7
  <2> HIDE DEF t, q
  <2>2. MN \in Nat /\ MN > 0
    BY <1>2
  <2>3. (MN * q + t) % MN = t
    BY <2>1, <2>2, DivModUnique
  <2>4. (w1 - w2 - b) % MN = t
    BY <2>1, <2>3
  <2> QED
    BY <2>4 DEF SubWith, t
<1>9. SubWith(w1, w2, b, MN).carry = c2
  <2>1. SubWith(w1, w2, b, MN).carry = Bit(w1 < w2 + b)
    <3> HIDE DEF w1, w2, MN
    <3> QED
      BY <1>2, <1>3, SubWithSmall, ZenonT(30)
  <2>2. w1 < w2 + b <=> w1 - w2 - b < 0
    BY <1>2, <1>3
  <2>3. CASE c2 = 0
    BY <1>2, <1>6, <1>7, <2>1, <2>2, <2>3 DEF Bit
  <2>4. CASE c2 = 1
    BY <1>2, <1>6, <1>7, <2>1, <2>2, <2>4 DEF Bit
  <2> QED
    BY <1>5, <2>3, <2>4
<1>10. M * hv + v = 0 <=> (hv = 0 /\ v = 0)
  <2>1. M * hv \in Nat /\ (hv > 0 => M * hv > 0)
    BY <1>5
  <2> QED
    BY <1>4, <1>5, <2>1
<1>11. s1 \in Int /\ s2 \in Int
  BY DEF Signed
<1> HIDE DEF s1, s2
<1>12. SignedLess(w1, w2, b, MN) <=> SignedLess(hi1, hi2, c1, N)
  <2> DEFINE e == s1 - s2 - c1
  <2>1. M * e = M * s1 - M * s2 - M * c1 /\ e \in Int
    BY <1>4, <1>11
  <2>2. M * s1 \in Int /\ M * s2 \in Int /\ M * c1 \in Int
    BY <1>4, <1>11
  <2>3. (M * s1 + lo1) - (M * s2 + lo2) - b = M * e + v
    BY <1>4, <2>1, <2>2
  <2>4. e < 0 => M * e <= -M
    BY <2>1
  <2>5. e >= 0 => M * e >= 0
    BY <2>1
  <2>6. M * e \in Int
    BY <2>1
  <2> HIDE DEF e
  <2>7. M * e + v < 0 <=> e < 0
    BY <1>4, <2>1, <2>4, <2>5, <2>6
  <2>8. SignedLess(w1, w2, b, MN) <=> M * e + v < 0
    BY <1>2, <1>3, <2>3 DEF SignedLess
  <2>9. SignedLess(hi1, hi2, c1, N) <=> e < 0
    BY DEF SignedLess, s1, s2, e
  <2> QED
    BY <2>7, <2>8, <2>9
<1>13. low.c = c1 /\ low.z = Bit(v = 0 /\ z = 1)
  BY DEF Subtracted, c1, v
<1>14. /\ Subtracted(hi1, hi2, low.c, low.z, N).c = c2
       /\ Subtracted(hi1, hi2, low.c, low.z, N).z = Bit(hv = 0 /\ low.z = 1)
       /\ Subtracted(hi1, hi2, low.c, low.z, N).s = Bit(SignedLess(hi1, hi2, c1, N))
  BY <1>13 DEF Subtracted, c2, hv
<1>15. /\ Subtracted(w1, w2, b, z, MN).c = c2
       /\ Subtracted(w1, w2, b, z, MN).z = Bit(M * hv + v = 0 /\ z = 1)
       /\ Subtracted(w1, w2, b, z, MN).s = Bit(SignedLess(w1, w2, b, MN))
  BY <1>8, <1>9 DEF Subtracted
<1>16. Bit(hv = 0 /\ low.z = 1) = Bit(M * hv + v = 0 /\ z = 1)
  BY <1>10, <1>13 DEF Bit
<1>17. Bit(SignedLess(hi1, hi2, c1, N)) = Bit(SignedLess(w1, w2, b, MN))
  BY <1>12 DEF Bit
<1> QED
  BY <1>14, <1>15, <1>16, <1>17 DEF SameToBranches, MN

----------------------------------------------------------------------------
(***************************************************************************)
(* The machine code over n virtual registers and N blocks.                 *)
(***************************************************************************)
Conds == {"EQ", "NE", "LO", "SH", "LT", "GE", "MI", "PL"}

Phis(n, N) == [op : {"PHI"}, d : 1..n, ins : Seq([reg : 1..n, mbb : 1..N])]
Operands(n) == [reg : 0..n, k : Nat]
CompareInstrs(n) ==
  [op : {"CMP", "CMPC", "TST"}, a : Operands(n), b : Operands(n), below : Nat, size : Nat]
Computations(n) ==
  [op : {"SHIFT"}, d : 1..n, s : 1..n, how : Hows] \cup [op : {"SUBI"}, d : 1..n, s : 1..n, k : Nat]
    \cup [op : {"CPI"}, d : 1..n, k : Nat]
Leavings(N) == [op : {"BR"}, cond : Conds, to : 1..N] \cup [op : {"RJMPk"}, to : 1..N]
Loops(n) == [op : {"ShiftLoop"}, d : 1..n, s : 1..n, n : 1..n, how : Hows]
Selects(n) == [op : {"Select"}, d : 1..n, cond : Conds, t : 1..n, f : 1..n]

Instrs(n, N) ==
  Phis(n, N) \cup CompareInstrs(n) \cup Computations(n) \cup Leavings(N)
    \cup Loops(n) \cup Selects(n) \cup [op : {"RET"}]

MachineCode(blocks, n, N) == blocks \in Seq(Seq(Instrs(n, N))) /\ Len(blocks) = N

\* An instruction is of the kind its opcode says.
LEMMA InstrKinds ==
  ASSUME NEW n \in Nat, NEW N \in Nat, NEW instr \in Instrs(n, N)
  PROVE  /\ instr.op \in Opcodes
         /\ instr.op = "PHI" => instr \in Phis(n, N)
         /\ instr.op \in {"CMP", "CMPC", "TST"} => instr \in CompareInstrs(n)
         /\ instr.op \in {"SHIFT", "SUBI", "CPI"} => instr \in Computations(n)
         /\ instr.op \in {"BR", "RJMPk"} => instr \in Leavings(N)
         /\ instr.op = "ShiftLoop" => instr \in Loops(n)
         /\ instr.op = "Select" => instr \in Selects(n)
BY DEF Instrs, Phis, CompareInstrs, Computations, Leavings, Loops, Selects, Opcodes, Pseudos

\* New registers and blocks leave the old instructions in place.
LEMMA InstrsGrow ==
  ASSUME NEW n \in Nat, NEW N \in Nat, NEW n2 \in Nat, NEW N2 \in Nat, n <= n2, N <= N2
  PROVE  Instrs(n, N) \subseteq Instrs(n2, N2)
<1>1. 1..n \subseteq 1..n2 /\ 0..n \subseteq 0..n2 /\ 1..N \subseteq 1..N2
  OBVIOUS
<1>2. Phis(n, N) \subseteq Phis(n2, N2)
  <2>1. [reg : 1..n, mbb : 1..N] \subseteq [reg : 1..n2, mbb : 1..N2]
    BY <1>1
  <2>2. \A A, B : A \subseteq B => Seq(A) \subseteq Seq(B)
    OBVIOUS
  <2>3. Seq([reg : 1..n, mbb : 1..N]) \subseteq Seq([reg : 1..n2, mbb : 1..N2])
    BY <2>1, <2>2, Zenon
  <2>. QED
    BY <1>1, <2>3 DEF Phis
<1>3. CompareInstrs(n) \subseteq CompareInstrs(n2)
  BY <1>1 DEF CompareInstrs, Operands
<1>4. Computations(n) \subseteq Computations(n2) /\ Leavings(N) \subseteq Leavings(N2)
  BY <1>1 DEF Computations, Leavings
<1>5. Loops(n) \subseteq Loops(n2) /\ Selects(n) \subseteq Selects(n2)
  BY <1>1 DEF Loops, Selects
<1>. QED
  BY <1>2, <1>3, <1>4, <1>5 DEF Instrs

LEMMA CodeGrows ==
  ASSUME NEW n \in Nat, NEW N \in Nat, NEW n2 \in Nat, NEW N2 \in Nat, n <= n2, N <= N2
  PROVE  /\ Seq(Instrs(n, N)) \subseteq Seq(Instrs(n2, N2))
         /\ Seq(Seq(Instrs(n, N))) \subseteq Seq(Seq(Instrs(n2, N2)))
<1>1. Instrs(n, N) \subseteq Instrs(n2, N2)
  BY InstrsGrow
<1>2. Seq(Instrs(n, N)) \subseteq Seq(Instrs(n2, N2))
  BY <1>1
<1>. QED
  BY <1>2

----------------------------------------------------------------------------
(***************************************************************************)
(* Splitting a block.                                                      *)
(***************************************************************************)
Renamed(instr, old, to) ==
  IF instr.op # "PHI" THEN instr
  ELSE [instr EXCEPT !.ins = [i \in DOMAIN @ |->
          IF @[i].mbb = old THEN [@[i] EXCEPT !.mbb = to] ELSE @[i]]]

Sources(instr) == {instr.ins[k].mbb : k \in DOMAIN instr.ins}

LEMMA SeqElements ==
  ASSUME NEW T, NEW s \in Seq(T)
  PROVE  Len(s) \in Nat /\ DOMAIN s = 1..Len(s) /\ \A i \in 1..Len(s) : s[i] \in T
OBVIOUS

\* Renaming a PHI's block keeps it a PHI.
LEMMA RenamedKeeps ==
  ASSUME NEW n \in Nat, NEW N \in Nat, NEW n2 \in Nat, NEW N2 \in Nat, n <= n2, N <= N2,
         NEW instr \in Instrs(n, N), NEW old \in 1..N, NEW to \in 1..N2
  PROVE  /\ Renamed(instr, old, to) \in Instrs(n2, N2)
         /\ Renamed(instr, old, to).op = instr.op
         /\ instr.op # "PHI" => Renamed(instr, old, to) = instr
<1>1. CASE instr.op # "PHI"
  BY <1>1, InstrsGrow DEF Renamed
<1>2. CASE instr.op = "PHI"
  <2> DEFINE Pairs == [reg : 1..n2, mbb : 1..N2]
             g == [i \in DOMAIN instr.ins |-> IF instr.ins[i].mbb = old
                     THEN [instr.ins[i] EXCEPT !.mbb = to] ELSE instr.ins[i]]
  <2>1. instr \in Phis(n, N)
    BY <1>2, InstrKinds
  <2>2. instr.op = "PHI" /\ instr.d \in 1..n /\ instr.ins \in Seq([reg : 1..n, mbb : 1..N])
        /\ instr = [op |-> "PHI", d |-> instr.d, ins |-> instr.ins]
    BY <2>1 DEF Phis
  <2>3. \A i \in DOMAIN instr.ins : instr.ins[i] \in [reg : 1..n, mbb : 1..N]
    BY <2>2, SeqElements
  <2>4. \A i \in DOMAIN instr.ins : g[i] \in Pairs
    BY <2>3
  <2>5. DOMAIN instr.ins = 1..Len(instr.ins) /\ Len(instr.ins) \in Nat
    BY <2>2, SeqElements
  <2>6. g \in Seq(Pairs)
    <3>. HIDE DEF Pairs
    <3>1. g \in [1..Len(instr.ins) -> Pairs]
      BY <2>4, <2>5
    <3>. HIDE DEF g
    <3>. QED
      BY <3>1, <2>5
  <2>7. Renamed(instr, old, to) = [op |-> "PHI", d |-> instr.d, ins |-> g]
    <3>1. Renamed(instr, old, to) = [instr EXCEPT !.ins = g]
      BY <1>2 DEF Renamed
    <3>. HIDE DEF g
    <3>. QED
      BY <3>1, <2>2
  <2>. HIDE DEF g
  <2>8. Renamed(instr, old, to) \in Phis(n2, N2)
    BY <2>2, <2>6, <2>7 DEF Phis
  <2>. QED
    BY <1>2, <2>7, <2>8 DEF Instrs
<1>. QED
  BY <1>1, <1>2

\* The blocks a PHI knows: to takes the place of old.
LEMMA RenamedSources ==
  ASSUME NEW n \in Nat, NEW N \in Nat, NEW instr \in Instrs(n, N), instr.op = "PHI",
         NEW old, NEW to
  PROVE  Sources(Renamed(instr, old, to)) =
            {IF p = old THEN to ELSE p : p \in Sources(instr)}
<1> DEFINE g == [i \in DOMAIN instr.ins |-> IF instr.ins[i].mbb = old
                   THEN [instr.ins[i] EXCEPT !.mbb = to] ELSE instr.ins[i]]
<1>1. instr.ins \in Seq([reg : 1..n, mbb : 1..N])
      /\ instr = [op |-> "PHI", d |-> instr.d, ins |-> instr.ins]
  BY InstrKinds DEF Phis
<1>2. Renamed(instr, old, to) = [instr EXCEPT !.ins = g]
  BY DEF Renamed
<1>3. DOMAIN g = DOMAIN instr.ins
  OBVIOUS
<1>4. \A i \in DOMAIN instr.ins : g[i].mbb = IF instr.ins[i].mbb = old THEN to ELSE instr.ins[i].mbb
  <2> TAKE i \in DOMAIN instr.ins
  <2>1. instr.ins[i] \in [reg : 1..n, mbb : 1..N]
    BY <1>1, SeqElements
  <2>. QED
    BY <2>1
<1> HIDE DEF g
<1>5. Renamed(instr, old, to).ins = g
  BY <1>1, <1>2
<1>. QED
  BY <1>3, <1>4, <1>5 DEF Sources

IsTransferred(code2, code, old, to, ss) ==
  /\ Len(code2) = Len(code)
  /\ \A x \in 1..Len(code) :
        /\ Len(code2[x]) = Len(code[x])
        /\ \A i \in 1..Len(code[x]) : code2[x][i] =
              IF x \in ss THEN Renamed(code[x][i], old, to) ELSE code[x][i]

\* What transferSuccessorsAndUpdatePHIs does to every instruction.
LEMMA TransferredBlocks ==
  ASSUME NEW n \in Nat, NEW N \in Nat, NEW code \in Seq(Seq(Instrs(n, N))),
         NEW old \in 1..N, NEW to \in 1..N, NEW ss
  PROVE  /\ TransferAndUpdatePHIs(old, to, ss, code) \in Seq(Seq(Instrs(n, N)))
         /\ IsTransferred(TransferAndUpdatePHIs(old, to, ss, code), code, old, to, ss)
<1> DEFINE code2 == TransferAndUpdatePHIs(old, to, ss, code)
<1>1. code2 = [x \in DOMAIN code |->
                IF x \in ss THEN [i \in DOMAIN code[x] |-> Renamed(code[x][i], old, to)]
                ELSE code[x]]
  BY DEF TransferAndUpdatePHIs, Renamed
<1> HIDE DEF code2
<1>2. DOMAIN code = 1..Len(code) /\ Len(code) \in Nat
  OBVIOUS
<1>3. ASSUME NEW x \in 1..Len(code)
      PROVE  /\ code2[x] \in Seq(Instrs(n, N)) /\ Len(code2[x]) = Len(code[x])
             /\ \A i \in 1..Len(code[x]) : code2[x][i] =
                     IF x \in ss THEN Renamed(code[x][i], old, to) ELSE code[x][i]
  <2>1. code[x] \in Seq(Instrs(n, N))
    OBVIOUS
  <2>2. DOMAIN code[x] = 1..Len(code[x]) /\ Len(code[x]) \in Nat
        /\ \A i \in 1..Len(code[x]) : code[x][i] \in Instrs(n, N)
    BY <2>1
  <2>3. CASE x \in ss
    <3>1. code2[x] = [i \in 1..Len(code[x]) |-> Renamed(code[x][i], old, to)]
      BY <1>1, <1>2, <2>2, <2>3
    <3>2. \A i \in 1..Len(code[x]) : Renamed(code[x][i], old, to) \in Instrs(n, N)
      <4>1. n <= n /\ N <= N
        OBVIOUS
      <4>. QED
        BY <2>2, <4>1, RenamedKeeps
    <3>. QED
      BY <2>2, <2>3, <3>1, <3>2
  <2>4. CASE x \notin ss
    BY <1>1, <1>2, <2>1, <2>4
  <2>. QED
    BY <2>3, <2>4
<1>. QED
  BY <1>1, <1>2, <1>3 DEF IsTransferred, code2

\* A block split at its k-th instruction: what is left, and what moves.
HeadOf(block, k, ends) == SubSeq(block, 1, k - 1) \o ends
RestOf(block, k, phi) == <<phi>> \o SubSeq(block, k + 1, Len(block))

IsHead(h, block, k, ends) ==
  /\ Len(h) = k - 1 + Len(ends)
  /\ \A i \in 1..(k - 1) : h[i] = block[i]
  /\ \A i \in 1..Len(ends) : h[k - 1 + i] = ends[i]

IsRest(h, block, k, phi) ==
  /\ Len(h) = Len(block) - k + 1
  /\ h[1] = phi
  /\ \A i \in 1..(Len(block) - k) : h[i + 1] = block[k + i]

IsTwoMore(t, s, x, y) ==
  /\ Len(t) = Len(s) + 2
  /\ \A i \in 1..Len(s) : t[i] = s[i]
  /\ t[Len(s) + 1] = x /\ t[Len(s) + 2] = y

LEMMA HeadBlock ==
  ASSUME NEW T, NEW block \in Seq(T), NEW k \in 1..Len(block), NEW ends \in Seq(T)
  PROVE  HeadOf(block, k, ends) \in Seq(T) /\ IsHead(HeadOf(block, k, ends), block, k, ends)
<1>1. SubSeq(block, 1, k - 1) \in Seq(T) /\ Len(SubSeq(block, 1, k - 1)) = k - 1
      /\ \A i \in 1..(k - 1) : SubSeq(block, 1, k - 1)[i] = block[i]
  OBVIOUS
<1> DEFINE front == SubSeq(block, 1, k - 1)
<1> HIDE DEF front
<1>. QED
  BY <1>1 DEF HeadOf, front, IsHead

LEMMA RestBlock ==
  ASSUME NEW T, NEW block \in Seq(T), NEW k \in 1..Len(block), NEW phi \in T
  PROVE  RestOf(block, k, phi) \in Seq(T) /\ IsRest(RestOf(block, k, phi), block, k, phi)
<1>1. SubSeq(block, k + 1, Len(block)) \in Seq(T) /\ Len(SubSeq(block, k + 1, Len(block))) = Len(block) - k
      /\ \A i \in 1..(Len(block) - k) : SubSeq(block, k + 1, Len(block))[i] = block[k + i]
  OBVIOUS
<1> DEFINE back == SubSeq(block, k + 1, Len(block))
<1> HIDE DEF back
<1>. QED
  BY <1>1 DEF RestOf, back, IsRest

WithTwo(s, x, y) == s \o <<x, y>>

LEMMA TwoMore ==
  ASSUME NEW T, NEW s \in Seq(T), NEW x \in T, NEW y \in T
  PROVE  WithTwo(s, x, y) \in Seq(T) /\ IsTwoMore(WithTwo(s, x, y), s, x, y)
BY DEF IsTwoMore, WithTwo

LEMMA ExceptOne ==
  ASSUME NEW T, NEW s \in Seq(T), NEW i \in 1..Len(s), NEW x \in T
  PROVE  /\ [s EXCEPT ![i] = x] \in Seq(T) /\ Len([s EXCEPT ![i] = x]) = Len(s)
         /\ [s EXCEPT ![i] = x][i] = x
         /\ \A j \in 1..Len(s) : j # i => [s EXCEPT ![i] = x][j] = s[j]
OBVIOUS

\* code2 and succ2 are code and succ with block b split at its k-th
\* instruction: b keeps what is before it and then ends, the new block to has
\* phi and what is behind it, and the new block other has extra and goes back.
SplitOf(code, succ, code2, succ2, b, k, to, other, ends, phi, extra, back) ==
  /\ Len(code2) = Len(code) + 2 /\ Len(succ2) = Len(code) + 2
  /\ DOMAIN succ2 = 1..(Len(code) + 2)
  /\ \A x \in 1..Len(code) : x # b =>
        /\ succ2[x] = succ[x]
        /\ Len(code2[x]) = Len(code[x])
        /\ \A i \in 1..Len(code[x]) : code2[x][i] =
              IF x \in succ[b] THEN Renamed(code[x][i], b, to) ELSE code[x][i]
  /\ succ2[b] = {to, other}
  /\ Len(code2[b]) = k - 1 + Len(ends)
  /\ \A i \in 1..(k - 1) : code2[b][i] =
        IF b \in succ[b] THEN Renamed(code[b][i], b, to) ELSE code[b][i]
  /\ \A i \in 1..Len(ends) : code2[b][k - 1 + i] = ends[i]
  /\ succ2[to] = succ[b]
  /\ Len(code2[to]) = Len(code[b]) - k + 1
  /\ code2[to][1] = phi
  /\ \A i \in 1..(Len(code[b]) - k) : code2[to][i + 1] = code[b][k + i]
  /\ succ2[other] = back
  /\ code2[other] = extra

\* What the inserters hand over.
Splittable(code, succ, n, n2, N, b, k, to, other, ends, phi, extra, back) ==
  /\ n \in Nat /\ n2 \in Nat /\ n <= n2 /\ N \in Nat
  /\ MachineCode(code, n, N)
  /\ succ \in Seq(SUBSET (1..N)) /\ Len(succ) = N
  /\ b \in 1..N /\ k \in 1..Len(code[b])
  /\ (to = N + 1 /\ other = N + 2) \/ (to = N + 2 /\ other = N + 1)
  /\ ends \in Seq(Instrs(n2, N + 2)) /\ \A i \in 1..Len(ends) : ends[i].op # "PHI"
  /\ phi \in Instrs(n2, N + 2) /\ extra \in Seq(Instrs(n2, N + 2))
  /\ back \in SUBSET (1..(N + 2))

CodeSplit(code, succ, b, k, to, N, ends, phi, extra) ==
  TransferAndUpdatePHIs(b, to, succ[b], [code EXCEPT ![b] = HeadOf(code[b], k, ends)])
    \o (IF to = N + 1 THEN <<RestOf(code[b], k, phi), extra>> ELSE <<extra, RestOf(code[b], k, phi)>>)

SuccSplit(succ, b, to, other, N, back) ==
  [succ EXCEPT ![b] = {to, other}]
    \o (IF to = N + 1 THEN <<succ[b], back>> ELSE <<back, succ[b]>>)

\* The sequences the inserters build are the split of a block.
LEMMA SplitIsSplit ==
  ASSUME NEW n, NEW n2, NEW code, NEW N, NEW succ, NEW b, NEW k, NEW to, NEW other, NEW ends,
         NEW phi, NEW extra, NEW back,
         Splittable(code, succ, n, n2, N, b, k, to, other, ends, phi, extra, back),
         NEW code2, code2 = CodeSplit(code, succ, b, k, to, N, ends, phi, extra),
         NEW succ2, succ2 = SuccSplit(succ, b, to, other, N, back)
  PROVE  /\ MachineCode(code2, n2, N + 2)
         /\ succ2 \in Seq(SUBSET (1..(N + 2)))
         /\ SplitOf(code, succ, code2, succ2, b, k, to, other, ends, phi, extra, back)
<1> DEFINE mid == [code EXCEPT ![b] = HeadOf(code[b], k, ends)]
           moved == TransferAndUpdatePHIs(b, to, succ[b], mid)
           rest == RestOf(code[b], k, phi)
<1>0. PICK Kinds : Kinds = Instrs(n2, N + 2)
  OBVIOUS
<1>a. /\ n \in Nat /\ n2 \in Nat /\ n <= n2 /\ N \in Nat
      /\ MachineCode(code, n, N)
      /\ succ \in Seq(SUBSET (1..N)) /\ Len(succ) = N
      /\ b \in 1..N /\ k \in 1..Len(code[b])
  BY DEF Splittable
<1>b. /\ (to = N + 1 /\ other = N + 2) \/ (to = N + 2 /\ other = N + 1)
      /\ ends \in Seq(Kinds) /\ \A i \in 1..Len(ends) : ends[i].op # "PHI"
      /\ phi \in Kinds /\ extra \in Seq(Kinds)
      /\ back \in SUBSET (1..(N + 2))
  BY <1>0 DEF Splittable
<1>1. /\ code \in Seq(Seq(Instrs(n, N))) /\ Len(code) = N
      /\ N + 2 \in Nat /\ n2 <= n2 /\ N <= N + 2 /\ N + 2 <= N + 2
  BY <1>a DEF MachineCode
<1>2. code \in Seq(Seq(Kinds)) /\ to \in 1..(N + 2) /\ b \in 1..(N + 2)
  <2>1. Seq(Seq(Instrs(n, N))) \subseteq Seq(Seq(Instrs(n2, N + 2)))
    BY <1>1, <1>a, CodeGrows
  <2>. QED
    BY <1>0, <1>1, <1>a, <1>b, <2>1
<1>3. code[b] \in Seq(Kinds)
  BY <1>1, <1>2, <1>a
<1>4. HeadOf(code[b], k, ends) \in Seq(Kinds) /\ IsHead(HeadOf(code[b], k, ends), code[b], k, ends)
  BY <1>3, <1>a, <1>b, HeadBlock
<1>5. /\ mid \in Seq(Seq(Kinds)) /\ Len(mid) = N /\ mid[b] = HeadOf(code[b], k, ends)
      /\ \A x \in 1..N : x # b => mid[x] = code[x]
  <2>1. b \in 1..Len(code)
    BY <1>1, <1>a
  <2>. QED
    BY <1>1, <1>2, <1>4, <2>1, ExceptOne
<1>6. IsHead(mid[b], code[b], k, ends)
  BY <1>4, <1>5
<1>. HIDE DEF mid
<1>7. /\ moved \in Seq(Seq(Kinds)) /\ Len(moved) = N
      /\ \A x \in 1..N :
            /\ Len(moved[x]) = Len(mid[x])
            /\ \A i \in 1..Len(mid[x]) : moved[x][i] =
                  IF x \in succ[b] THEN Renamed(mid[x][i], b, to) ELSE mid[x][i]
  <2>1. /\ n2 \in Nat /\ N + 2 \in Nat /\ b \in 1..(N + 2) /\ to \in 1..(N + 2)
        /\ mid \in Seq(Seq(Instrs(n2, N + 2)))
    BY <1>0, <1>1, <1>2, <1>5, <1>a
  <2>2. moved \in Seq(Seq(Instrs(n2, N + 2))) /\ IsTransferred(moved, mid, b, to, succ[b])
    BY <2>1, TransferredBlocks, Zenon
  <2>. HIDE DEF moved
  <2>. QED
    BY <1>0, <1>5, <2>2 DEF IsTransferred
<1>. HIDE DEF moved
<1>8. rest \in Seq(Kinds) /\ IsRest(rest, code[b], k, phi)
  BY <1>3, <1>a, <1>b, RestBlock, Zenon
<1> HIDE DEF rest
<1>c. moved \in Seq(Seq(Kinds)) /\ rest \in Seq(Kinds) /\ extra \in Seq(Kinds)
  BY <1>b, <1>7, <1>8
<1>9. (to = N + 1 /\ other = N + 2) \/ (to = N + 2 /\ other = N + 1)
  BY <1>b
<1>10. code2 = moved \o (IF to = N + 1 THEN <<rest, extra>> ELSE <<extra, rest>>)
  BY DEF moved, mid, rest, CodeSplit
<1>11. /\ code2 \in Seq(Seq(Kinds)) /\ Len(code2) = N + 2
       /\ \A i \in 1..N : code2[i] = moved[i]
       /\ code2[to] = rest /\ code2[other] = extra
  <2>1. CASE to = N + 1 /\ other = N + 2
    <3>1. code2 \in Seq(Seq(Kinds)) /\ IsTwoMore(code2, moved, rest, extra)
      <4>1. code2 = WithTwo(moved, rest, extra)
        BY <1>10, <2>1 DEF WithTwo
      <4>. QED
        BY <1>c, <4>1, TwoMore, Zenon
    <3>. QED
      BY <1>7, <2>1, <3>1, <1>a DEF IsTwoMore
  <2>2. CASE to = N + 2 /\ other = N + 1
    <3>1. code2 \in Seq(Seq(Kinds)) /\ IsTwoMore(code2, moved, extra, rest)
      <4>1. code2 = WithTwo(moved, extra, rest)
        BY <1>10, <2>2, <1>a DEF WithTwo
      <4>. QED
        BY <1>c, <4>1, TwoMore, Zenon
    <3>. QED
      BY <1>7, <2>2, <3>1, <1>a DEF IsTwoMore
  <2>. QED
    BY <1>9, <2>1, <2>2
<1>12. /\ succ2 \in Seq(SUBSET (1..(N + 2))) /\ Len(succ2) = N + 2
       /\ \A i \in 1..N : i # b => succ2[i] = succ[i]
       /\ succ2[b] = {to, other} /\ succ2[to] = succ[b] /\ succ2[other] = back
  <2>0. PICK Sets : Sets = SUBSET (1..(N + 2))
    OBVIOUS
  <2> DEFINE s == [succ EXCEPT ![b] = {to, other}]
  <2>1. succ[b] \in Sets /\ {to, other} \in Sets /\ succ \in Seq(Sets) /\ b \in 1..Len(succ) /\ back \in Sets
    <3>1. \A A, B, q : A \subseteq B /\ q \in Seq(SUBSET A) => q \in Seq(SUBSET B)
      OBVIOUS
    <3>2. 1..N \subseteq 1..(N + 2) /\ {to, other} \subseteq 1..(N + 2) /\ other \in 1..(N + 2)
      BY <1>a, <1>b
    <3>3. succ \in Seq(Sets) /\ back \in Sets /\ {to, other} \in Sets
      BY <2>0, <3>1, <3>2, <1>a, <1>b
    <3>4. b \in 1..Len(succ)
      BY <1>a
    <3>5. succ[b] \in Sets
      BY <3>3, <3>4, SeqElements
    <3>. QED
      BY <3>3, <3>4, <3>5
  <2>2. s \in Seq(Sets) /\ Len(s) = N /\ s[b] = {to, other} /\ \A i \in 1..N : i # b => s[i] = succ[i]
    BY <2>1, <1>a, ExceptOne
  <2>3. succ2 = s \o (IF to = N + 1 THEN <<succ[b], back>> ELSE <<back, succ[b]>>)
    BY DEF SuccSplit
  <2>. HIDE DEF s
  <2>4. CASE to = N + 1 /\ other = N + 2
    <3>1. succ2 \in Seq(Sets) /\ IsTwoMore(succ2, s, succ[b], back)
      <4>1. succ2 = WithTwo(s, succ[b], back)
        BY <2>3, <2>4 DEF WithTwo
      <4>. QED
        BY <2>1, <2>2, <4>1, TwoMore, Zenon
    <3>. QED
      BY <2>0, <2>2, <2>4, <3>1, <1>a DEF IsTwoMore
  <2>5. CASE to = N + 2 /\ other = N + 1
    <3>1. succ2 \in Seq(Sets) /\ IsTwoMore(succ2, s, back, succ[b])
      <4>1. succ2 = WithTwo(s, back, succ[b])
        BY <2>3, <2>5, <1>a DEF WithTwo
      <4>. QED
        BY <2>1, <2>2, <4>1, TwoMore, Zenon
    <3>. QED
      BY <2>0, <2>2, <2>5, <3>1, <1>a DEF IsTwoMore
  <2>. QED
    BY <1>9, <2>4, <2>5
<1>13. \A i \in 1..Len(ends) : Renamed(ends[i], b, to) = ends[i]
  BY <1>b DEF Renamed
<1>14. /\ Len(code2[b]) = k - 1 + Len(ends)
       /\ \A i \in 1..(k - 1) : code2[b][i] =
             IF b \in succ[b] THEN Renamed(code[b][i], b, to) ELSE code[b][i]
       /\ \A i \in 1..Len(ends) : code2[b][k - 1 + i] = ends[i]
  <2>1. code2[b] = moved[b]
    BY <1>11, <1>a
  <2>2. Len(code2[b]) = k - 1 + Len(ends)
    BY <1>6, <1>7, <2>1, <1>a DEF IsHead
  <2>3. Len(ends) \in Nat
    BY <1>b
  <2>4. \A i \in 1..(k - 1) : i \in 1..Len(mid[b])
    BY <1>6, <2>3, <1>a DEF IsHead
  <2>5. \A i \in 1..Len(ends) : k - 1 + i \in 1..Len(mid[b])
    BY <1>6, <2>3, <1>a DEF IsHead
  <2>6. \A i \in 1..(k - 1) : code2[b][i] =
             IF b \in succ[b] THEN Renamed(code[b][i], b, to) ELSE code[b][i]
    BY <1>6, <1>7, <2>1, <2>4, <1>a DEF IsHead
  <2>7. \A i \in 1..Len(ends) : code2[b][k - 1 + i] = ends[i]
    BY <1>6, <1>7, <1>13, <2>1, <2>5, <1>a DEF IsHead
  <2>. QED
    BY <2>2, <2>6, <2>7
<1>15. \A x \in 1..N : x # b =>
        /\ Len(code2[x]) = Len(code[x])
        /\ \A i \in 1..Len(code[x]) : code2[x][i] =
              IF x \in succ[b] THEN Renamed(code[x][i], b, to) ELSE code[x][i]
  <2> TAKE x \in 1..N
  <2> HAVE x # b
  <2>1. mid[x] = code[x] /\ code2[x] = moved[x]
    BY <1>5, <1>11
  <2>2. Len(moved[x]) = Len(mid[x])
        /\ \A i \in 1..Len(mid[x]) : moved[x][i] =
              IF x \in succ[b] THEN Renamed(mid[x][i], b, to) ELSE mid[x][i]
    BY <1>7
  <2>. QED
    BY <2>1, <2>2
<1>16. DOMAIN succ2 = 1..(N + 2)
  BY <1>12
<1>17. MachineCode(code2, n2, N + 2)
  BY <1>0, <1>11 DEF MachineCode
<1>18. SplitOf(code, succ, code2, succ2, b, k, to, other, ends, phi, extra, back)
  BY <1>1, <1>8, <1>11, <1>12, <1>14, <1>15, <1>16, <1>a DEF SplitOf, IsRest
<1>. QED
  BY <1>12, <1>17, <1>18

----------------------------------------------------------------------------
(***************************************************************************)
(* What every block has: PHIs in front, and in each of them exactly the     *)
(* predecessors of the block.                                               *)
(***************************************************************************)
PhisLead(block) ==
  \A i \in 1..Len(block) : \A j \in 1..i : block[i].op = "PHI" => block[j].op = "PHI"

Preds(succ, b) == {p \in DOMAIN succ : b \in succ[p]}

Matched(block, ps) == \A i \in 1..Len(block) : block[i].op = "PHI" => Sources(block[i]) = ps

GraphOK(code, succ, n, N) ==
  /\ n \in Nat /\ N \in Nat
  /\ MachineCode(code, n, N)
  /\ succ \in Seq(SUBSET (1..N)) /\ Len(succ) = N
  /\ \A x \in 1..N : PhisLead(code[x]) /\ Matched(code[x], Preds(succ, x))

PhisOfSplit(phi, extra, b, to, other, back) ==
  /\ phi.op = "PHI" /\ Sources(phi) = {b, other}
  /\ to \in back /\ back \subseteq {to, other}
  /\ PhisLead(extra) /\ Matched(extra, IF other \in back THEN {b, other} ELSE {b})

\* The predecessors after a split.
PredsSplit(succ, succ2, N, b, to, other, back) ==
  /\ \A x \in 1..N : Preds(succ2, x) = {IF p = b THEN to ELSE p : p \in Preds(succ, x)}
  /\ \A x \in 1..N : x \notin succ[b] => Preds(succ2, x) = Preds(succ, x)
  /\ Preds(succ2, to) = {b, other}
  /\ Preds(succ2, other) = IF other \in back THEN {b, other} ELSE {b}

\* Only the successors of the split block see another predecessor.
LEMMA PredsOfSplit ==
  ASSUME NEW code, NEW succ, NEW N \in Nat, Len(code) = N, succ \in Seq(SUBSET (1..N)), Len(succ) = N,
         NEW b \in 1..N, NEW k, NEW to, NEW other, NEW ends, NEW phi, NEW extra, NEW back,
         (to = N + 1 /\ other = N + 2) \/ (to = N + 2 /\ other = N + 1),
         NEW code2, NEW succ2,
         SplitOf(code, succ, code2, succ2, b, k, to, other, ends, phi, extra, back),
         to \in back, back \subseteq {to, other}
  PROVE  PredsSplit(succ, succ2, N, b, to, other, back)
<1>1. /\ DOMAIN succ2 = 1..(N + 2)
      /\ \A x \in 1..N : x # b => succ2[x] = succ[x]
      /\ succ2[b] = {to, other} /\ succ2[to] = succ[b] /\ succ2[other] = back
  BY DEF SplitOf
<1>2. DOMAIN succ = 1..N /\ \A x \in 1..N : succ[x] \subseteq 1..N
  OBVIOUS
<1>3. /\ \A p : p \in 1..(N + 2) <=> (p \in 1..N \/ p = to \/ p = other)
      /\ to \notin 1..N /\ other \notin 1..N /\ to # other
  OBVIOUS
<1>4. ASSUME NEW x \in 1..N
      PROVE  Preds(succ2, x) = {IF p = b THEN to ELSE p : p \in Preds(succ, x)}
  <2>1. ASSUME NEW q \in Preds(succ2, x)
        PROVE  \E p \in Preds(succ, x) : q = IF p = b THEN to ELSE p
    <3>1. q \in 1..(N + 2) /\ x \in succ2[q]
      BY <1>1 DEF Preds
    <3>2. x # to /\ x # other
      BY <1>3
    <3>3. CASE q = to
      <4>1. b \in Preds(succ, x)
        BY <1>1, <1>2, <3>1, <3>3 DEF Preds
      <4>. QED
        BY <3>3, <4>1
    <3>4. q # other
      BY <1>1, <3>1, <3>2
    <3>5. q # b
      BY <1>1, <3>1, <3>2
    <3>6. CASE q \in 1..N
      <4>1. q \in Preds(succ, x)
        BY <1>1, <1>2, <3>1, <3>5, <3>6 DEF Preds
      <4>. QED
        BY <3>5, <4>1
    <3>. QED
      BY <1>3, <3>1, <3>3, <3>4, <3>6
  <2>2. ASSUME NEW p \in Preds(succ, x)
        PROVE  (IF p = b THEN to ELSE p) \in Preds(succ2, x)
    <3>1. p \in 1..N /\ x \in succ[p]
      BY <1>2 DEF Preds
    <3>. QED
      BY <1>1, <1>3, <3>1 DEF Preds
  <2>. QED
    BY <2>1, <2>2
<1>5. ASSUME NEW x \in 1..N, x \notin succ[b]
      PROVE  Preds(succ2, x) = Preds(succ, x)
  <2>1. b \notin Preds(succ, x)
    BY <1>5 DEF Preds
  <2>2. {IF p = b THEN to ELSE p : p \in Preds(succ, x)} = Preds(succ, x)
    BY <2>1
  <2>. QED
    BY <1>4, <2>2
<1>6. Preds(succ2, to) = {b, other}
  <2>1. \A p \in 1..N : p # b => to \notin succ2[p]
    BY <1>1, <1>2, <1>3
  <2>2. to \notin succ2[to]
    BY <1>1, <1>2, <1>3
  <2>3. to \in succ2[b] /\ to \in succ2[other]
    BY <1>1
  <2>. QED
    BY <1>1, <1>3, <2>1, <2>2, <2>3 DEF Preds
<1>7. Preds(succ2, other) = IF other \in back THEN {b, other} ELSE {b}
  <2>1. \A p \in 1..N : p # b => other \notin succ2[p]
    BY <1>1, <1>2, <1>3
  <2>2. other \notin succ2[to]
    BY <1>1, <1>2, <1>3
  <2>3. other \in succ2[b] /\ (other \in succ2[other] <=> other \in back)
    BY <1>1
  <2>. QED
    BY <1>1, <1>3, <2>1, <2>2, <2>3 DEF Preds
<1>. QED
  BY <1>4, <1>5, <1>6, <1>7 DEF PredsSplit

\* What a block's instructions become.
FirstRenamed(block2, block, m, there, old, to) ==
  \A i \in 1..m : block2[i] = IF there THEN Renamed(block[i], old, to) ELSE block[i]

IsRenamedBlock(block2, block, m, there, old, to, ps) ==
  /\ \A i \in 1..m : block2[i].op = block[i].op
  /\ \A i \in 1..m : block2[i].op = "PHI" =>
        Sources(block2[i]) = IF there THEN {IF p = old THEN to ELSE p : p \in ps} ELSE ps

LEMMA RenamedBlock ==
  ASSUME NEW n \in Nat, NEW N \in Nat, NEW block \in Seq(Instrs(n, N)), NEW old \in 1..N, NEW to,
         NEW there \in BOOLEAN, NEW m \in 0..Len(block), NEW block2,
         FirstRenamed(block2, block, m, there, old, to), NEW ps, Matched(block, ps)
  PROVE  IsRenamedBlock(block2, block, m, there, old, to, ps)
<1> USE DEF FirstRenamed
<1>1. \A i \in 1..m : i \in 1..Len(block) /\ block[i] \in Instrs(n, N)
  BY SeqElements
<1>2. ASSUME NEW i \in 1..m, there
      PROVE  block2[i].op = block[i].op
  <2>1. block2[i] = Renamed(block[i], old, to)
    BY <1>2
  <2>2. CASE block[i].op # "PHI"
    BY <2>1, <2>2 DEF Renamed
  <2>3. CASE block[i].op = "PHI"
    <3>1. block[i] \in Phis(n, N)
      BY <1>1, <2>3, InstrKinds
    <3>. QED
      BY <2>1, <2>3, <3>1 DEF Renamed, Phis
  <2>. QED
    BY <2>2, <2>3
<1>3. \A i \in 1..m : block2[i].op = block[i].op
  BY <1>2
<1>4. ASSUME NEW i \in 1..m, block2[i].op = "PHI"
      PROVE  Sources(block2[i]) = IF there THEN {IF p = old THEN to ELSE p : p \in ps} ELSE ps
  <2>1. block[i].op = "PHI" /\ Sources(block[i]) = ps
    BY <1>1, <1>3, <1>4 DEF Matched
  <2>2. CASE there
    <3>1. block2[i] = Renamed(block[i], old, to)
      BY <2>2
    <3>2. Sources(Renamed(block[i], old, to)) = {IF p = old THEN to ELSE p : p \in Sources(block[i])}
      BY <1>1, <2>1, RenamedSources
    <3>. QED
      BY <2>1, <2>2, <3>1, <3>2
  <2>3. CASE ~there
    BY <2>1, <2>3
  <2>. QED
    BY <2>2, <2>3
<1>. QED
  BY <1>3, <1>4 DEF IsRenamedBlock

\* A split keeps the PHIs in front, matched with the predecessors.
LEMMA SplitKeepsGraph ==
  ASSUME NEW n, NEW n2, NEW code, NEW N, NEW succ, NEW b, NEW k, NEW to, NEW other, NEW ends,
         NEW phi, NEW extra, NEW back,
         Splittable(code, succ, n, n2, N, b, k, to, other, ends, phi, extra, back),
         GraphOK(code, succ, n, N), code[b][k].op # "PHI",
         PhisOfSplit(phi, extra, b, to, other, back),
         NEW code2, NEW succ2,
         MachineCode(code2, n2, N + 2), succ2 \in Seq(SUBSET (1..(N + 2))),
         SplitOf(code, succ, code2, succ2, b, k, to, other, ends, phi, extra, back)
  PROVE  GraphOK(code2, succ2, n2, N + 2)
<1>1. /\ n \in Nat /\ n2 \in Nat /\ N \in Nat
      /\ b \in 1..N /\ k \in 1..Len(code[b])
      /\ (to = N + 1 /\ other = N + 2) \/ (to = N + 2 /\ other = N + 1)
      /\ \A i \in 1..Len(ends) : ends[i].op # "PHI"
      /\ Len(ends) \in Nat
  BY SeqElements DEF Splittable
<1>2. /\ code \in Seq(Seq(Instrs(n, N))) /\ Len(code) = N
      /\ succ \in Seq(SUBSET (1..N)) /\ Len(succ) = N
      /\ \A x \in 1..N : PhisLead(code[x]) /\ Matched(code[x], Preds(succ, x))
  BY DEF GraphOK, MachineCode
<1>3. \A x \in 1..N : code[x] \in Seq(Instrs(n, N)) /\ Len(code[x]) \in Nat
  BY <1>2, SeqElements
<1>4. /\ \A x \in 1..N : Preds(succ2, x) = {IF p = b THEN to ELSE p : p \in Preds(succ, x)}
      /\ \A x \in 1..N : x \notin succ[b] => Preds(succ2, x) = Preds(succ, x)
      /\ Preds(succ2, to) = {b, other}
      /\ Preds(succ2, other) = IF other \in back THEN {b, other} ELSE {b}
  <2>1. to \in back /\ back \subseteq {to, other}
    BY DEF PhisOfSplit
  <2>2. PredsSplit(succ, succ2, N, b, to, other, back)
    BY <1>1, <1>2, <2>1, PredsOfSplit, Zenon
  <2>. QED
    BY <2>2, Zenon DEF PredsSplit
<1>5. ASSUME NEW x \in 1..N, x # b
      PROVE  PhisLead(code2[x]) /\ Matched(code2[x], Preds(succ2, x))
  <2>1. /\ Len(code2[x]) = Len(code[x])
        /\ \A i \in 1..Len(code[x]) : code2[x][i] =
              IF x \in succ[b] THEN Renamed(code[x][i], b, to) ELSE code[x][i]
    BY <1>2, <1>5 DEF SplitOf
  <2>2. /\ \A i \in 1..Len(code[x]) : code2[x][i].op = code[x][i].op
        /\ \A i \in 1..Len(code[x]) : code2[x][i].op = "PHI" =>
               Sources(code2[x][i]) =
                  IF x \in succ[b] THEN {IF p = b THEN to ELSE p : p \in Preds(succ, x)} ELSE Preds(succ, x)
    <3>1. (x \in succ[b]) \in BOOLEAN /\ Len(code[x]) \in 0..Len(code[x])
      BY <1>3
    <3>2. FirstRenamed(code2[x], code[x], Len(code[x]), x \in succ[b], b, to)
      BY <2>1 DEF FirstRenamed
    <3>3. Matched(code[x], Preds(succ, x))
      BY <1>2
    <3>4. IsRenamedBlock(code2[x], code[x], Len(code[x]), x \in succ[b], b, to, Preds(succ, x))
      BY <1>1, <1>3, <3>1, <3>2, <3>3, RenamedBlock
    <3>. QED
      BY <3>4 DEF IsRenamedBlock
  <2>3. PhisLead(code2[x])
    <3>1. PhisLead(code[x])
      BY <1>2
    <3>. QED
      BY <1>3, <2>1, <2>2, <3>1 DEF PhisLead
  <2>4. Matched(code2[x], Preds(succ2, x))
    BY <1>4, <2>1, <2>2 DEF Matched
  <2>. QED
    BY <2>3, <2>4
<1>6. PhisLead(code2[b]) /\ Matched(code2[b], Preds(succ2, b))
  <2>1. /\ Len(code2[b]) = k - 1 + Len(ends)
        /\ \A i \in 1..(k - 1) : code2[b][i] =
              IF b \in succ[b] THEN Renamed(code[b][i], b, to) ELSE code[b][i]
        /\ \A i \in 1..Len(ends) : code2[b][k - 1 + i] = ends[i]
    BY DEF SplitOf
  <2>2. /\ \A i \in 1..(k - 1) : code2[b][i].op = code[b][i].op
        /\ \A i \in 1..(k - 1) : code2[b][i].op = "PHI" =>
               Sources(code2[b][i]) =
                  IF b \in succ[b] THEN {IF p = b THEN to ELSE p : p \in Preds(succ, b)} ELSE Preds(succ, b)
    <3>1. (b \in succ[b]) \in BOOLEAN /\ k - 1 \in 0..Len(code[b])
      BY <1>1, <1>3
    <3>2. FirstRenamed(code2[b], code[b], k - 1, b \in succ[b], b, to)
      BY <2>1 DEF FirstRenamed
    <3>3. Matched(code[b], Preds(succ, b))
      BY <1>1, <1>2
    <3>4. IsRenamedBlock(code2[b], code[b], k - 1, b \in succ[b], b, to, Preds(succ, b))
      BY <1>1, <1>3, <3>1, <3>2, <3>3, RenamedBlock
    <3>. QED
      BY <3>4 DEF IsRenamedBlock
  <2>3. \A i \in 1..Len(code2[b]) : code2[b][i].op = "PHI" => i \in 1..(k - 1)
    <3> TAKE i \in 1..Len(code2[b])
    <3>1. CASE i \notin 1..(k - 1)
      <4>1. k \in 1..Len(code[b]) /\ Len(code[b]) \in Nat /\ Len(ends) \in Nat
            /\ i \in 1..(k - 1 + Len(ends))
        BY <1>1, <1>3, <2>1
      <4>2. i - (k - 1) \in 1..Len(ends) /\ k - 1 + (i - (k - 1)) = i
        BY <3>1, <4>1
      <4>3. code2[b][k - 1 + (i - (k - 1))] = ends[i - (k - 1)]
        BY <2>1, <4>2
      <4>. QED
        BY <1>1, <4>2, <4>3
    <3>. QED
      BY <3>1
  <2>4. PhisLead(code2[b])
    <3>1. PhisLead(code[b])
      BY <1>1, <1>2
    <3>2. SUFFICES ASSUME NEW i \in 1..Len(code2[b]), NEW j \in 1..i, code2[b][i].op = "PHI"
                   PROVE  code2[b][j].op = "PHI"
      BY DEF PhisLead
    <3>3. i \in 1..(k - 1) /\ j \in 1..(k - 1) /\ i \in 1..Len(code[b]) /\ k - 1 \in Nat
      BY <1>1, <1>3, <2>3, <3>2
    <3>. QED
      BY <2>2, <3>1, <3>2, <3>3 DEF PhisLead
  <2>5. Matched(code2[b], Preds(succ2, b))
    BY <1>1, <1>4, <2>2, <2>3 DEF Matched
  <2>. QED
    BY <2>4, <2>5
<1>7. PhisLead(code2[to]) /\ Matched(code2[to], Preds(succ2, to))
  <2>1. /\ Len(code2[to]) = Len(code[b]) - k + 1
        /\ code2[to][1] = phi
        /\ \A i \in 1..(Len(code[b]) - k) : code2[to][i + 1] = code[b][k + i]
    BY DEF SplitOf
  <2>2. \A i \in 1..(Len(code[b]) - k) : code[b][k + i].op # "PHI"
    <3> TAKE i \in 1..(Len(code[b]) - k)
    <3>0. k \in 1..Len(code[b]) /\ Len(code[b]) \in Nat
      BY <1>1, <1>3
    <3>1. k + i \in 1..Len(code[b]) /\ k \in 1..(k + i)
      BY <3>0
    <3>2. PhisLead(code[b])
      BY <1>1, <1>2
    <3>. QED
      BY <3>1, <3>2 DEF PhisLead
  <2>3. \A i \in 1..Len(code2[to]) : code2[to][i].op = "PHI" => i = 1
    <3> TAKE i \in 1..Len(code2[to])
    <3>1. CASE i # 1
      <4>1. i - 1 \in 1..(Len(code[b]) - k) /\ (i - 1) + 1 = i
        BY <1>1, <1>3, <2>1, <3>1
      <4>2. code2[to][(i - 1) + 1] = code[b][k + (i - 1)]
        BY <2>1, <4>1
      <4>. QED
        BY <2>2, <4>1, <4>2
    <3>. QED
      BY <3>1
  <2>4. PhisLead(code2[to])
    BY <2>1, <2>3, <1>1, <1>3 DEF PhisLead
  <2>5. Matched(code2[to], Preds(succ2, to))
    BY <1>4, <2>1, <2>3 DEF Matched, PhisOfSplit
  <2>. QED
    BY <2>4, <2>5
<1>8. PhisLead(code2[other]) /\ Matched(code2[other], Preds(succ2, other))
  BY <1>4 DEF SplitOf, PhisOfSplit
<1>9. \A x \in 1..(N + 2) : x \in 1..N \/ x = to \/ x = other
  <2>1. N \in Nat /\ ((to = N + 1 /\ other = N + 2) \/ (to = N + 2 /\ other = N + 1))
    BY <1>1
  <2>. QED
    BY <2>1
<1>10. Len(succ2) = N + 2
  BY <1>2 DEF SplitOf
<1>11. \A x \in 1..(N + 2) : PhisLead(code2[x]) /\ Matched(code2[x], Preds(succ2, x))
  BY <1>5, <1>6, <1>7, <1>8, <1>9
<1>. QED
  BY <1>1, <1>10, <1>11 DEF GraphOK

----------------------------------------------------------------------------
(***************************************************************************)
(* The layout: Entry first, Join last, every block once.                    *)
(***************************************************************************)
LayoutOK(lay, N) ==
  /\ N \in Nat /\ N >= 3 /\ lay \in Seq(1..N) /\ Len(lay) = N
  /\ \A x \in 1..N : \E i \in 1..N : lay[i] = x
  /\ \A i, j \in 1..N : lay[i] = lay[j] => i = j
  /\ lay[1] = Entry /\ lay[N] = Join

PlaceIn(lay, b) == SelectInSeq(lay, LAMBDA x : x = b)

\* A block is where Place finds it.
LEMMA PlaceOf ==
  ASSUME NEW lay, NEW N, LayoutOK(lay, N), NEW i \in 1..N
  PROVE  PlaceIn(lay, lay[i]) = i
<1> DEFINE Here == {j \in 1..Len(lay) : lay[j] = lay[i]}
<1>1. N \in Nat /\ Len(lay) = N /\ \A j \in 1..N : lay[i] = lay[j] => i = j
  BY DEF LayoutOK
<1>2. Here = {i}
  BY <1>1
<1>3. PlaceIn(lay, lay[i]) = IF Here # {} THEN Min(Here) ELSE 0
  BY DEF PlaceIn, SelectInSeq
<1>4. Min({i}) = i
  BY DEF Min
<1>. QED
  BY <1>2, <1>3, <1>4

LEMMA PlaceIsPlace ==
  ASSUME NEW N, LayoutOK(layout, N), NEW b \in 1..N
  PROVE  Place(b) \in 1..N /\ layout[Place(b)] = b
<1>1. PICK i \in 1..N : layout[i] = b
  BY DEF LayoutOK
<1>2. Place(b) = PlaceIn(layout, b)
  BY DEF Place, PlaceIn, SelectInSeq
<1>. QED
  BY <1>1, <1>2, PlaceOf

\* lay2 is lay with the blocks x and y put behind its first p.
LayoutWith(lay, lay2, p, x, y, N) ==
  /\ lay2 \in Seq(1..(N + 2)) /\ Len(lay2) = N + 2
  /\ \A i \in 1..p : lay2[i] = lay[i]
  /\ lay2[p + 1] = x /\ lay2[p + 2] = y
  /\ \A i \in (p + 1)..N : lay2[i + 2] = lay[i]

IsJoined(r, s, t) ==
  /\ Len(r) = Len(s) + Len(t)
  /\ \A i \in 1..Len(s) : r[i] = s[i]
  /\ \A i \in 1..Len(t) : r[Len(s) + i] = t[i]

LEMMA JoinedBlocks ==
  ASSUME NEW T, NEW s \in Seq(T), NEW t \in Seq(T)
  PROVE  s \o t \in Seq(T) /\ IsJoined(s \o t, s, t)
BY DEF IsJoined

IsFront(r, s, n) == Len(r) = n /\ \A i \in 1..n : r[i] = s[i]
IsBack(r, s, n) == Len(r) = Len(s) - n /\ \A i \in 1..(Len(s) - n) : r[i] = s[n + i]

LEMMA CutBlocks ==
  ASSUME NEW T, NEW s \in Seq(T), NEW n \in 1..Len(s)
  PROVE  /\ SubSeq(s, 1, n) \in Seq(T) /\ IsFront(SubSeq(s, 1, n), s, n)
         /\ SubSeq(s, n + 1, Len(s)) \in Seq(T) /\ IsBack(SubSeq(s, n + 1, Len(s)), s, n)
<1>1. SubSeq(s, 1, n) \in Seq(T) /\ IsFront(SubSeq(s, 1, n), s, n)
  BY DEF IsFront
<1>2. SubSeq(s, n + 1, Len(s)) \in Seq(T) /\ IsBack(SubSeq(s, n + 1, Len(s)), s, n)
  BY DEF IsBack
<1>. QED
  BY <1>1, <1>2

LEMMA InsertTwo ==
  ASSUME NEW lay, NEW N \in Nat, lay \in Seq(1..N), Len(lay) = N, NEW p \in 1..N,
         NEW lay2, lay2 = SubSeq(lay, 1, p) \o <<N + 1, N + 2>> \o SubSeq(lay, p + 1, Len(lay))
  PROVE  LayoutWith(lay, lay2, p, N + 1, N + 2, N)
<1> DEFINE front == SubSeq(lay, 1, p)
           two == <<N + 1, N + 2>>
           back == SubSeq(lay, p + 1, Len(lay))
           most == front \o two
<1>1. PICK T : T = 1..(N + 2)
  OBVIOUS
<1>2. lay \in Seq(T) /\ p \in 1..Len(lay)
  <2>1. \A A, B : A \subseteq B => Seq(A) \subseteq Seq(B)
    OBVIOUS
  <2>2. 1..N \subseteq T
    BY <1>1
  <2>. QED
    BY <2>1, <2>2
<1>3. /\ front \in Seq(T) /\ IsFront(front, lay, p)
      /\ back \in Seq(T) /\ IsBack(back, lay, p)
  BY <1>2, CutBlocks, Zenon
<1>4. two \in Seq(T) /\ Len(two) = 2 /\ two[1] = N + 1 /\ two[2] = N + 2
  <2>1. N + 1 \in T /\ N + 2 \in T
    BY <1>1
  <2>. QED
    BY <2>1
<1>5. lay2 = most \o back
  OBVIOUS
<1> HIDE DEF front, two, back
<1>6. most \in Seq(T) /\ IsJoined(most, front, two)
  BY <1>3, <1>4, JoinedBlocks, Zenon
<1> HIDE DEF most
<1>7. lay2 \in Seq(T) /\ IsJoined(lay2, most, back)
  BY <1>3, <1>5, <1>6, JoinedBlocks, Zenon
<1>8. Len(front) = p /\ Len(back) = N - p /\ Len(most) = p + 2 /\ Len(lay2) = N + 2
  BY <1>3, <1>4, <1>6, <1>7 DEF IsFront, IsBack, IsJoined
<1>9. \A i \in 1..p : lay2[i] = lay[i]
  BY <1>3, <1>6, <1>7, <1>8 DEF IsFront, IsJoined
<1>10. lay2[p + 1] = N + 1 /\ lay2[p + 2] = N + 2
  <2>1. \A i \in 1..2 : most[p + i] = two[i]
    BY <1>4, <1>6, <1>8 DEF IsJoined
  <2>2. \A i \in 1..(p + 2) : lay2[i] = most[i]
    BY <1>7, <1>8 DEF IsJoined
  <2>. QED
    BY <1>4, <2>1, <2>2
<1>11. \A i \in (p + 1)..N : lay2[i + 2] = lay[i]
  <2> TAKE i \in (p + 1)..N
  <2>1. i - p \in 1..(N - p) /\ (p + 2) + (i - p) = i + 2 /\ p + (i - p) = i
    OBVIOUS
  <2>2. lay2[(p + 2) + (i - p)] = back[i - p]
    BY <1>7, <1>8, <2>1 DEF IsJoined
  <2>3. back[i - p] = lay[p + (i - p)]
    BY <1>3, <1>8, <2>1 DEF IsBack
  <2>. QED
    BY <2>1, <2>2, <2>3
<1>. QED
  BY <1>1, <1>7, <1>8, <1>9, <1>10, <1>11 DEF LayoutWith

\* The new blocks keep the layout a permutation, Entry first, Join last.
LEMMA LayoutKeeps ==
  ASSUME NEW lay, NEW N, LayoutOK(lay, N), NEW p \in 1..(N - 1), NEW lay2,
         LayoutWith(lay, lay2, p, N + 1, N + 2, N)
  PROVE  LayoutOK(lay2, N + 2)
<1>1. /\ N \in Nat /\ N >= 3 /\ lay \in Seq(1..N) /\ Len(lay) = N
      /\ \A x \in 1..N : \E i \in 1..N : lay[i] = x
      /\ \A i, j \in 1..N : lay[i] = lay[j] => i = j
      /\ lay[1] = Entry /\ lay[N] = Join
  BY DEF LayoutOK
<1>2. /\ lay2 \in Seq(1..(N + 2)) /\ Len(lay2) = N + 2
      /\ \A i \in 1..p : lay2[i] = lay[i]
      /\ lay2[p + 1] = N + 1 /\ lay2[p + 2] = N + 2
      /\ \A i \in (p + 1)..N : lay2[i + 2] = lay[i]
  BY DEF LayoutWith
<1>3. \A i \in 1..(N + 2) : \/ i \in 1..p
                            \/ i = p + 1 \/ i = p + 2
                            \/ i - 2 \in (p + 1)..N /\ (i - 2) + 2 = i
  BY <1>1
<1>4. \A i \in 1..N : lay[i] \in 1..N
  BY <1>1, SeqElements
<1>5. \A i \in 1..(N + 2) : \/ i \in 1..p /\ lay2[i] = lay[i]
                            \/ i = p + 1 /\ lay2[i] = N + 1
                            \/ i = p + 2 /\ lay2[i] = N + 2
                            \/ i - 2 \in (p + 1)..N /\ lay2[i] = lay[i - 2]
  BY <1>2, <1>3
<1>c. N \in Nat /\ N >= 3 /\ p \in 1..(N - 1)
  BY <1>1
<1>d. \A i \in 1..N : lay[i] <= N
  BY <1>4, <1>c
<1>a. \A i \in 1..(N + 2) : lay2[i] = N + 1 => i = p + 1
  <2> TAKE i \in 1..(N + 2)
  <2>1. i \in 1..p => lay[i] <= N
    BY <1>c, <1>d
  <2>2. i - 2 \in (p + 1)..N => lay[i - 2] <= N
    BY <1>c, <1>d
  <2>. QED
    BY <1>c, <1>5, <2>1, <2>2
<1>b. \A i \in 1..(N + 2) : lay2[i] = N + 2 => i = p + 2
  <2> TAKE i \in 1..(N + 2)
  <2>1. i \in 1..p => lay[i] <= N
    BY <1>c, <1>d
  <2>2. i - 2 \in (p + 1)..N => lay[i - 2] <= N
    BY <1>c, <1>d
  <2>. QED
    BY <1>c, <1>5, <2>1, <2>2
<1>6. \A x \in 1..(N + 2) : \E i \in 1..(N + 2) : lay2[i] = x
  <2> TAKE x \in 1..(N + 2)
  <2>1. CASE x = N + 1
    BY <1>1, <1>2, <2>1
  <2>2. CASE x = N + 2
    BY <1>1, <1>2, <2>2
  <2>3. CASE x \in 1..N
    <3>1. PICK i \in 1..N : lay[i] = x
      BY <1>1, <2>3
    <3>2. CASE i <= p
      <4>1. i \in 1..p /\ i \in 1..(N + 2)
        BY <1>1, <3>2
      <4>. QED
        BY <1>2, <3>1, <4>1
    <3>3. CASE i > p
      <4>1. i + 2 \in 1..(N + 2) /\ lay2[i + 2] = lay[i]
        BY <1>1, <1>2, <3>3
      <4>. QED
        BY <3>1, <4>1
    <3>. QED
      BY <3>2, <3>3, <1>1
  <2>. QED
    BY <2>1, <2>2, <2>3, <1>1
<1>7. \A i, j \in 1..(N + 2) : lay2[i] = lay2[j] => i = j
  <2> TAKE i, j \in 1..(N + 2)
  <2>0. HAVE lay2[i] = lay2[j]
  <2>2. /\ \A c \in 1..p : c \in 1..N
        /\ \A c \in (p + 1)..N : c \in 1..N /\ c \notin 1..p
    BY <1>c
  <2>3. CASE lay2[i] = N + 1
    BY <1>a, <2>0, <2>3
  <2>4. CASE lay2[i] = N + 2
    BY <1>b, <2>0, <2>4
  <2>5. CASE lay2[i] # N + 1 /\ lay2[i] # N + 2
    <3>1. \/ i \in 1..p /\ lay2[i] = lay[i]
          \/ i - 2 \in (p + 1)..N /\ lay2[i] = lay[i - 2]
      BY <1>5, <2>5
    <3>2. \/ j \in 1..p /\ lay2[j] = lay[j]
          \/ j - 2 \in (p + 1)..N /\ lay2[j] = lay[j - 2]
      BY <1>5, <2>0, <2>5
    <3>3. CASE i \in 1..p /\ j \in 1..p /\ lay[i] = lay[j]
      BY <1>1, <2>2, <3>3
    <3>4. CASE i - 2 \in (p + 1)..N /\ j - 2 \in (p + 1)..N /\ lay[i - 2] = lay[j - 2]
      <4>1. i - 2 = j - 2
        BY <1>1, <2>2, <3>4
      <4>. QED
        BY <4>1
    <3>5. CASE i \in 1..p /\ j - 2 \in (p + 1)..N /\ lay[i] = lay[j - 2]
      BY <1>1, <2>2, <3>5
    <3>6. CASE j \in 1..p /\ i - 2 \in (p + 1)..N /\ lay[j] = lay[i - 2]
      BY <1>1, <2>2, <3>6
    <3>. QED
      BY <2>0, <3>1, <3>2, <3>3, <3>4, <3>5, <3>6
  <2>. QED
    BY <2>3, <2>4, <2>5
<1>8. lay2[1] = Entry /\ lay2[N + 2] = Join
  BY <1>1, <1>2
<1>. QED
  BY <1>1, <1>2, <1>6, <1>7, <1>8 DEF LayoutOK

LEMMA InsertBehindFirst ==
  ASSUME NEW lay, NEW N, LayoutOK(lay, N),
         NEW lay2, lay2 = <<lay[1], N + 1, N + 2>> \o Tail(lay)
  PROVE  LayoutWith(lay, lay2, 1, N + 1, N + 2, N)
<1> DEFINE three == <<lay[1], N + 1, N + 2>>
           back == Tail(lay)
<1>1. N \in Nat /\ N >= 3 /\ lay \in Seq(1..N) /\ Len(lay) = N
  BY DEF LayoutOK
<1>2. PICK T : T = 1..(N + 2)
  OBVIOUS
<1>3. lay \in Seq(T)
  <2>1. \A A, B : A \subseteq B => Seq(A) \subseteq Seq(B)
    OBVIOUS
  <2>2. 1..N \subseteq T
    BY <1>1, <1>2
  <2>. QED
    BY <1>1, <2>1, <2>2
<1>4. back \in Seq(T) /\ Len(back) = N - 1 /\ \A i \in 1..(N - 1) : back[i] = lay[i + 1]
  BY <1>1, <1>3
<1>5. three \in Seq(T) /\ Len(three) = 3
      /\ three[1] = lay[1] /\ three[2] = N + 1 /\ three[3] = N + 2
  <2>1. lay[1] \in T /\ N + 1 \in T /\ N + 2 \in T
    BY <1>1, <1>2, <1>3
  <2>. QED
    BY <2>1
<1> HIDE DEF three, back
<1>6. lay2 \in Seq(T) /\ IsJoined(lay2, three, back)
  BY <1>4, <1>5, JoinedBlocks, Zenon DEF three, back
<1>7. Len(lay2) = N + 2
  BY <1>1, <1>4, <1>5, <1>6 DEF IsJoined
<1>8. lay2[1] = lay[1] /\ lay2[2] = N + 1 /\ lay2[3] = N + 2
  BY <1>5, <1>6 DEF IsJoined
<1>9. \A i \in (1 + 1)..N : lay2[i + 2] = lay[i]
  <2> TAKE i \in (1 + 1)..N
  <2>1. i - 1 \in 1..(N - 1) /\ 3 + (i - 1) = i + 2 /\ (i - 1) + 1 = i
    BY <1>1
  <2>2. lay2[3 + (i - 1)] = back[i - 1]
    BY <1>4, <1>5, <1>6, <2>1 DEF IsJoined
  <2>3. back[i - 1] = lay[(i - 1) + 1]
    BY <1>4, <2>1
  <2>. QED
    BY <2>1, <2>2, <2>3
<1>10. (\A i \in 1..1 : lay2[i] = lay[i]) /\ lay2[1 + 1] = N + 1 /\ lay2[1 + 2] = N + 2
  <2>1. 1 + 1 = 2 /\ 1 + 2 = 3 /\ \A i \in 1..1 : i = 1
    OBVIOUS
  <2>. QED
    BY <1>8, <2>1
<1>11. lay2 \in Seq(1..(N + 2))
  BY <1>2, <1>6
<1>. QED
  BY <1>7, <1>9, <1>10, <1>11 DEF LayoutWith

----------------------------------------------------------------------------
(***************************************************************************)
(* The parts of the two inserters.                                          *)
(***************************************************************************)
TwoIns(r1, b1, r2, b2) == <<[reg |-> r1, mbb |-> b1], [reg |-> r2, mbb |-> b2]>>

IsPhiOf(phi, n, N, b1, b2) ==
  phi \in Instrs(n, N) /\ phi.op = "PHI" /\ Sources(phi) = {b1, b2}

LEMMA PhiOfTwo ==
  ASSUME NEW n \in Nat, NEW N \in Nat, NEW d \in 1..n, NEW r1 \in 1..n, NEW r2 \in 1..n,
         NEW b1 \in 1..N, NEW b2 \in 1..N
  PROVE  IsPhiOf(Phi(d, TwoIns(r1, b1, r2, b2)), n, N, b1, b2)
<1> DEFINE phi == Phi(d, TwoIns(r1, b1, r2, b2))
<1> DEFINE pair == <<[reg |-> r1, mbb |-> b1], [reg |-> r2, mbb |-> b2]>>
<1>1. PICK T : T = [reg : 1..n, mbb : 1..N]
  OBVIOUS
<1>2. [reg |-> r1, mbb |-> b1] \in T /\ [reg |-> r2, mbb |-> b2] \in T
  BY <1>1
<1>3. pair \in Seq(T) /\ DOMAIN pair = 1..2 /\ pair[1].mbb = b1 /\ pair[2].mbb = b2
  BY <1>2
<1> HIDE DEF pair
<1>4. phi = [op |-> "PHI", d |-> d, ins |-> pair]
  BY DEF Phi, pair, TwoIns
<1> HIDE DEF phi
<1>5. phi \in Phis(n, N)
  BY <1>1, <1>3, <1>4 DEF Phis
<1>6. Sources(phi) = {b1, b2}
  BY <1>3, <1>4 DEF Sources
<1>. QED
  BY <1>4, <1>5, <1>6 DEF Instrs, IsPhiOf, phi

\* The parts of the two inserters.
ShiftEnds(mi, rem) == <<[op |-> "CPI", d |-> mi.n, k |-> 0], Br("EQ", rem)>>
ShiftPhi(d, mi, b, n, loop) ==
  Phi(d, TwoIns(mi.s, b, n + 2, loop))
ShiftCount(mi, b, n, loop) ==
  Phi(n + 3, TwoIns(mi.n, b, n + 4, loop))
ShiftBody(mi, b, n, loop) ==
  <<ShiftPhi(n + 1, mi, b, n, loop), ShiftCount(mi, b, n, loop)>>
    \o LoopBody(n + 1, n + 2, n + 3, n + 4, mi.how, loop)

SelectPhi(mi, b, other) == Phi(mi.d, TwoIns(mi.t, b, mi.f, other))

LEMMA ShiftParts ==
  ASSUME NEW n \in Nat, NEW N \in Nat, NEW b \in 1..N, NEW mi \in Loops(n)
  PROVE  /\ ShiftEnds(mi, N + 2) \in Seq(Instrs(n + 4, N + 2))
         /\ \A i \in 1..Len(ShiftEnds(mi, N + 2)) : ShiftEnds(mi, N + 2)[i].op # "PHI"
         /\ ShiftPhi(mi.d, mi, b, n, N + 1) \in Instrs(n + 4, N + 2)
         /\ ShiftBody(mi, b, n, N + 1) \in Seq(Instrs(n + 4, N + 2))
         /\ PhisOfSplit(ShiftPhi(mi.d, mi, b, n, N + 1), ShiftBody(mi, b, n, N + 1),
                        b, N + 2, N + 1, {N + 2, N + 1})
<1>1. mi.d \in 1..(n + 4) /\ mi.s \in 1..(n + 4) /\ mi.n \in 1..(n + 4) /\ mi.how \in Hows
      /\ n + 4 \in Nat /\ N + 2 \in Nat
      /\ n + 1 \in 1..(n + 4) /\ n + 2 \in 1..(n + 4) /\ n + 3 \in 1..(n + 4) /\ n + 4 \in 1..(n + 4)
      /\ b \in 1..(N + 2) /\ N + 1 \in 1..(N + 2) /\ N + 2 \in 1..(N + 2)
  BY DEF Loops
<1>2. PICK T : T = Instrs(n + 4, N + 2)
  OBVIOUS
<1>3. ShiftEnds(mi, N + 2) \in Seq(T)
      /\ \A i \in 1..Len(ShiftEnds(mi, N + 2)) : ShiftEnds(mi, N + 2)[i].op # "PHI"
  <2> DEFINE x == [op |-> "CPI", d |-> mi.n, k |-> 0]
             y == [op |-> "BR", cond |-> "EQ", to |-> N + 2]
  <2>1. x \in T
    BY <1>1, <1>2 DEF Instrs, Computations
  <2>2. y \in T
    BY <1>1, <1>2 DEF Instrs, Leavings, Conds
  <2>3. x.op # "PHI" /\ y.op # "PHI"
    OBVIOUS
  <2>4. ShiftEnds(mi, N + 2) = <<x, y>>
    BY DEF ShiftEnds, Br
  <2>. HIDE DEF x, y
  <2>5. <<x, y>> \in Seq(T) /\ Len(<<x, y>>) = 2 /\ <<x, y>>[1] = x /\ <<x, y>>[2] = y
    BY <2>1, <2>2
  <2>6. \A i \in 1..2 : i = 1 \/ i = 2
    OBVIOUS
  <2>. QED
    BY <2>3, <2>4, <2>5, <2>6
<1>4. ShiftPhi(mi.d, mi, b, n, N + 1) \in T /\ ShiftPhi(mi.d, mi, b, n, N + 1).op = "PHI"
      /\ Sources(ShiftPhi(mi.d, mi, b, n, N + 1)) = {b, N + 1}
  <2>1. IsPhiOf(ShiftPhi(mi.d, mi, b, n, N + 1), n + 4, N + 2, b, N + 1)
    BY <1>1, PhiOfTwo, Zenon DEF ShiftPhi
  <2>. QED
    BY <1>2, <2>1 DEF IsPhiOf
<1>5. /\ ShiftBody(mi, b, n, N + 1) \in Seq(T)
      /\ PhisLead(ShiftBody(mi, b, n, N + 1))
      /\ Matched(ShiftBody(mi, b, n, N + 1), {b, N + 1})
  <2> DEFINE u == ShiftPhi(n + 1, mi, b, n, N + 1)
             v == ShiftCount(mi, b, n, N + 1)
             x == [op |-> "SHIFT", d |-> n + 2, s |-> n + 1, how |-> mi.how]
             y == [op |-> "SUBI", d |-> n + 4, s |-> n + 3, k |-> 1]
             z == [op |-> "BR", cond |-> "NE", to |-> N + 1]
  <2>1. u \in T /\ u.op = "PHI" /\ Sources(u) = {b, N + 1}
    <3>1. IsPhiOf(u, n + 4, N + 2, b, N + 1)
      BY <1>1, PhiOfTwo, Zenon DEF ShiftPhi
    <3>. HIDE DEF u
    <3>. QED
      BY <1>2, <3>1 DEF IsPhiOf
  <2>2. v \in T /\ v.op = "PHI" /\ Sources(v) = {b, N + 1}
    <3>1. IsPhiOf(v, n + 4, N + 2, b, N + 1)
      BY <1>1, PhiOfTwo, Zenon DEF ShiftCount
    <3>. HIDE DEF v
    <3>. QED
      BY <1>2, <3>1 DEF IsPhiOf
  <2>3. x \in T /\ y \in T
    BY <1>1, <1>2 DEF Instrs, Computations
  <2>4. z \in T
    BY <1>1, <1>2 DEF Instrs, Leavings, Conds
  <2>5. x.op # "PHI" /\ y.op # "PHI" /\ z.op # "PHI"
    OBVIOUS
  <2>6. ShiftBody(mi, b, n, N + 1) = <<u, v>> \o <<x, y, z>>
    BY DEF ShiftBody, LoopBody, Shift, Br
  <2>. HIDE DEF u, v, x, y, z
  <2> DEFINE w == <<u, v>> \o <<x, y, z>>
  <2>7. <<u, v>> \in Seq(T) /\ Len(<<u, v>>) = 2 /\ <<u, v>>[1] = u /\ <<u, v>>[2] = v
    BY <2>1, <2>2
  <2>a. <<x, y, z>> \in Seq(T) /\ Len(<<x, y, z>>) = 3
        /\ <<x, y, z>>[1] = x /\ <<x, y, z>>[2] = y /\ <<x, y, z>>[3] = z
    BY <2>3, <2>4
  <2>b. w \in Seq(T) /\ IsJoined(w, <<u, v>>, <<x, y, z>>)
    BY <2>7, <2>a, JoinedBlocks
  <2>. HIDE DEF w
  <2>8. w \in Seq(T) /\ Len(w) = 5 /\ w[1] = u /\ w[2] = v /\ w[3] = x /\ w[4] = y /\ w[5] = z
    <3>1. 1 \in 1..2 /\ 2 \in 1..2 /\ 1 \in 1..3 /\ 2 \in 1..3 /\ 3 \in 1..3
          /\ 2 + 1 = 3 /\ 2 + 2 = 4 /\ 2 + 3 = 5
      OBVIOUS
    <3>2. \A i \in 1..2 : w[i] = <<u, v>>[i]
      BY <2>7, <2>a, <2>b DEF IsJoined
    <3>3. \A i \in 1..3 : w[2 + i] = <<x, y, z>>[i]
      BY <2>7, <2>a, <2>b DEF IsJoined
    <3>4. Len(w) = 5
      BY <2>7, <2>a, <2>b DEF IsJoined
    <3>5. w[1] = u /\ w[2] = v
      BY <2>7, <3>1, <3>2
    <3>6. w[2 + 1] = x /\ w[2 + 2] = y /\ w[2 + 3] = z
      BY <2>a, <3>1, <3>3
    <3>. QED
      BY <2>b, <3>1, <3>4, <3>5, <3>6
  <2>. HIDE DEF w
  <2>9. \A i \in 1..5 : i = 1 \/ i = 2 \/ i = 3 \/ i = 4 \/ i = 5
    OBVIOUS
  <2>10. \A i \in 1..5 : w[i].op = "PHI" <=> i \in 1..2
    BY <2>1, <2>2, <2>5, <2>8, <2>9
  <2>11. PhisLead(w)
    <3>1. \A i \in 1..2 : \A j \in 1..i : j \in 1..2 /\ j \in 1..5
      OBVIOUS
    <3>. QED
      BY <2>8, <2>10, <3>1 DEF PhisLead
  <2>12. Matched(w, {b, N + 1})
    <3>1. \A i \in 1..2 : i = 1 \/ i = 2
      OBVIOUS
    <3>. QED
      BY <2>1, <2>2, <2>8, <2>10, <3>1 DEF Matched
  <2>. QED
    BY <2>6, <2>8, <2>11, <2>12 DEF w
<1>6. PhisOfSplit(ShiftPhi(mi.d, mi, b, n, N + 1), ShiftBody(mi, b, n, N + 1),
                  b, N + 2, N + 1, {N + 2, N + 1})
  BY <1>4, <1>5 DEF PhisOfSplit
<1>. QED
  BY <1>2, <1>3, <1>4, <1>5, <1>6

LEMMA SelectParts ==
  ASSUME NEW n \in Nat, NEW N \in Nat, NEW b \in 1..N, NEW mi \in Selects(n)
  PROVE  /\ DiamondEnds(mi.cond, N + 1, N + 2) \in Seq(Instrs(n, N + 2))
         /\ \A i \in 1..Len(DiamondEnds(mi.cond, N + 1, N + 2)) :
               DiamondEnds(mi.cond, N + 1, N + 2)[i].op # "PHI"
         /\ SelectPhi(mi, b, N + 2) \in Instrs(n, N + 2)
         /\ <<Rjmp(N + 1)>> \in Seq(Instrs(n, N + 2))
         /\ PhisOfSplit(SelectPhi(mi, b, N + 2), <<Rjmp(N + 1)>>, b, N + 1, N + 2, {N + 1})
<1>1. mi.d \in 1..n /\ mi.t \in 1..n /\ mi.f \in 1..n /\ mi.cond \in Conds
      /\ N + 2 \in Nat /\ N + 1 # N + 2
      /\ b \in 1..(N + 2) /\ N + 1 \in 1..(N + 2) /\ N + 2 \in 1..(N + 2)
  BY DEF Selects
<1>2. PICK T : T = Instrs(n, N + 2)
  OBVIOUS
<1> DEFINE x == [op |-> "BR", cond |-> mi.cond, to |-> N + 1]
           y == [op |-> "RJMPk", to |-> N + 2]
           z == [op |-> "RJMPk", to |-> N + 1]
<1>3. x \in T /\ y \in T /\ z \in T
  BY <1>1, <1>2 DEF Instrs, Leavings
<1>4. x.op # "PHI" /\ y.op # "PHI" /\ z.op # "PHI"
  OBVIOUS
<1>5. DiamondEnds(mi.cond, N + 1, N + 2) = <<x, y>> /\ Rjmp(N + 1) = z
  BY DEF DiamondEnds, Br, Rjmp
<1> HIDE DEF x, y, z
<1>6. SelectPhi(mi, b, N + 2) \in T /\ SelectPhi(mi, b, N + 2).op = "PHI"
      /\ Sources(SelectPhi(mi, b, N + 2)) = {b, N + 2}
  <2>1. IsPhiOf(SelectPhi(mi, b, N + 2), n, N + 2, b, N + 2)
    BY <1>1, PhiOfTwo, Zenon DEF SelectPhi
  <2>. QED
    BY <1>2, <2>1 DEF IsPhiOf
<1>7. <<x, y>> \in Seq(T) /\ \A i \in 1..Len(<<x, y>>) : <<x, y>>[i].op # "PHI"
  BY <1>3, <1>4
<1>8. <<z>> \in Seq(T) /\ Len(<<z>>) = 1 /\ <<z>>[1] = z
  BY <1>3
<1>9. \A i \in 1..1 : i = 1
  OBVIOUS
<1>10. PhisLead(<<z>>) /\ Matched(<<z>>, {b})
  BY <1>4, <1>8, <1>9 DEF PhisLead, Matched
<1>11. PhisOfSplit(SelectPhi(mi, b, N + 2), <<z>>, b, N + 1, N + 2, {N + 1})
  <2>1. N + 2 \notin {N + 1}
    BY <1>1
  <2>. QED
    BY <1>6, <1>10, <2>1 DEF PhisOfSplit
<1>. QED
  BY <1>2, <1>5, <1>6, <1>7, <1>8, <1>11

----------------------------------------------------------------------------
(***************************************************************************)
(* The inductive invariant.                                                 *)
(***************************************************************************)
JoinOK(code) == Len(code[Join]) = 2 /\ code[Join][1].op = "PHI" /\ code[Join][2].op = "RET"

CompilerInv ==
  /\ f \in Functions
  /\ GraphOK(mbbs, succs, nregs, Len(mbbs)) /\ nregs >= Res
  /\ LayoutOK(layout, Len(mbbs))
  /\ JoinOK(mbbs)
  /\ I \in 1..Len(mbbs) /\ mbbi \in Nat \ {0}

ProcessorInv ==
  /\ phase \in {"expand", "run", "done", "stuck"}
  /\ bb \in 1..Len(mbbs) /\ from \in 1..Len(mbbs) /\ pc \in Nat \ {0}
  /\ bb = Join => pc <= 2
  /\ phase = "expand" => regs = << >>
  /\ phase # "expand" => regs \in [1..nregs -> Nat]
  /\ P \in FlagsType

LoweringInv == CompilerInv /\ ProcessorInv

\* What InsertShift and InsertSelect do to the graph.
ShiftSplits(b, mi) ==
  /\ Splittable(mbbs, succs, nregs, nregs + 4, Len(mbbs), b, mbbi, Len(mbbs) + 2, Len(mbbs) + 1,
                ShiftEnds(mi, Len(mbbs) + 2), ShiftPhi(mi.d, mi, b, nregs, Len(mbbs) + 1),
                ShiftBody(mi, b, nregs, Len(mbbs) + 1), {Len(mbbs) + 2, Len(mbbs) + 1})
  /\ SplitOf(mbbs, succs, mbbs', succs', b, mbbi, Len(mbbs) + 2, Len(mbbs) + 1,
             ShiftEnds(mi, Len(mbbs) + 2), ShiftPhi(mi.d, mi, b, nregs, Len(mbbs) + 1),
             ShiftBody(mi, b, nregs, Len(mbbs) + 1), {Len(mbbs) + 2, Len(mbbs) + 1})
  /\ GraphOK(mbbs', succs', nregs + 4, Len(mbbs) + 2)
  /\ LayoutWith(layout, layout', 1, Len(mbbs) + 1, Len(mbbs) + 2, Len(mbbs))
  /\ LayoutOK(layout', Len(mbbs) + 2)

SelectSplits(b, mi) ==
  /\ Splittable(mbbs, succs, nregs, nregs, Len(mbbs), b, mbbi, Len(mbbs) + 1, Len(mbbs) + 2,
                DiamondEnds(mi.cond, Len(mbbs) + 1, Len(mbbs) + 2), SelectPhi(mi, b, Len(mbbs) + 2),
                <<Rjmp(Len(mbbs) + 1)>>, {Len(mbbs) + 1})
  /\ SplitOf(mbbs, succs, mbbs', succs', b, mbbi, Len(mbbs) + 1, Len(mbbs) + 2,
             DiamondEnds(mi.cond, Len(mbbs) + 1, Len(mbbs) + 2), SelectPhi(mi, b, Len(mbbs) + 2),
             <<Rjmp(Len(mbbs) + 1)>>, {Len(mbbs) + 1})
  /\ GraphOK(mbbs', succs', nregs, Len(mbbs) + 2)
  /\ LayoutWith(layout, layout', Place(b), Len(mbbs) + 1, Len(mbbs) + 2, Len(mbbs))
  /\ LayoutOK(layout', Len(mbbs) + 2)

\* insertShift splits its block at the pseudo.
LEMMA ShiftIsSplit ==
  ASSUME CompilerInv, AtInstr, mbbs[I][mbbi].op = "ShiftLoop", InsertShift(I, mbbs[I][mbbi])
  PROVE  ShiftSplits(I, mbbs[I][mbbi])
<1> DEFINE N == Len(mbbs)
           n == nregs
           mi == mbbs[I][mbbi]
           ends == ShiftEnds(mi, N + 2)
           phi == ShiftPhi(mi.d, mi, I, n, N + 1)
           extra == ShiftBody(mi, I, n, N + 1)
           back == {N + 2, N + 1}
<1>1. /\ GraphOK(mbbs, succs, n, N) /\ LayoutOK(layout, N)
      /\ I \in 1..N /\ mbbi \in 1..Len(mbbs[I]) /\ n \in Nat /\ N \in Nat
      /\ MachineCode(mbbs, n, N) /\ succs \in Seq(SUBSET (1..N)) /\ Len(succs) = N
  <2>1. GraphOK(mbbs, succs, n, N) /\ LayoutOK(layout, N) /\ I \in 1..N /\ mbbi \in Nat \ {0}
    BY DEF CompilerInv
  <2>2. n \in Nat /\ N \in Nat
      /\ MachineCode(mbbs, n, N) /\ succs \in Seq(SUBSET (1..N)) /\ Len(succs) = N
    BY <2>1 DEF GraphOK
  <2>3. mbbs[I] \in Seq(Instrs(n, N))
    BY <2>1, <2>2, SeqElements DEF MachineCode
  <2>. QED
    BY <2>1, <2>2, <2>3 DEF AtInstr
<1>2. mi \in Loops(n) /\ mi.op # "PHI"
  <2>1. mbbs[I] \in Seq(Instrs(n, N))
    BY <1>1, SeqElements DEF MachineCode
  <2>2. mi \in Instrs(n, N)
    BY <1>1, <2>1, SeqElements
  <2>. QED
    BY <1>1, <2>2, InstrKinds
<1>3. mbbs' = CodeSplit(mbbs, succs, I, mbbi, N + 2, N, ends, phi, extra)
  <2>1. N + 2 # N + 1
    BY <1>1
  <2>. QED
    BY <2>1 DEF InsertShift, CodeSplit, HeadOf, RestOf, ShiftEnds, ShiftPhi, ShiftBody, ShiftCount, TwoIns
<1>4. succs' = SuccSplit(succs, I, N + 2, N + 1, N, back)
  <2>1. N + 2 # N + 1 /\ {N + 1, N + 2} = {N + 2, N + 1}
    BY <1>1
  <2>. QED
    BY <2>1 DEF InsertShift, SuccSplit
<1>5. layout' = <<layout[1], N + 1, N + 2>> \o Tail(layout)
  BY DEF InsertShift, BehindFirst
<1> HIDE DEF mi
<1>6. /\ ends \in Seq(Instrs(n + 4, N + 2))
      /\ \A i \in 1..Len(ends) : ends[i].op # "PHI"
      /\ phi \in Instrs(n + 4, N + 2)
      /\ extra \in Seq(Instrs(n + 4, N + 2))
      /\ PhisOfSplit(phi, extra, I, N + 2, N + 1, back)
  BY <1>1, <1>2, ShiftParts
<1> HIDE DEF ends, phi, extra, back, N, n
<1>7. n + 4 \in Nat /\ n <= n + 4 /\ back \in SUBSET (1..(N + 2))
  BY <1>1 DEF back
<1>8. Splittable(mbbs, succs, n, n + 4, N, I, mbbi, N + 2, N + 1, ends, phi, extra, back)
  BY <1>1, <1>6, <1>7 DEF Splittable
<1>9. /\ MachineCode(mbbs', n + 4, N + 2)
      /\ succs' \in Seq(SUBSET (1..(N + 2)))
      /\ SplitOf(mbbs, succs, mbbs', succs', I, mbbi, N + 2, N + 1, ends, phi, extra, back)
  BY <1>3, <1>4, <1>8, SplitIsSplit, Zenon
<1>10. mbbs[I][mbbi].op # "PHI"
  BY <1>2 DEF mi
<1>11. GraphOK(mbbs', succs', n + 4, N + 2)
  BY <1>1, <1>6, <1>8, <1>9, <1>10, SplitKeepsGraph, Zenon
<1>12. LayoutWith(layout, layout', 1, N + 1, N + 2, N)
  BY <1>1, <1>5, InsertBehindFirst, Zenon
<1>13. LayoutOK(layout', N + 2)
  <2>1. 1 \in 1..(N - 1)
    BY <1>1 DEF LayoutOK
  <2>. QED
    BY <1>1, <1>12, <2>1, LayoutKeeps, Zenon
<1>. QED
  BY <1>8, <1>9, <1>11, <1>12, <1>13, Zenon DEF ShiftSplits, N, n, mi, ends, phi, extra, back

\* So does the diamond of a Select.
LEMMA SelectIsSplit ==
  ASSUME CompilerInv, AtInstr, mbbs[I][mbbi].op = "Select", InsertSelect(I, mbbs[I][mbbi])
  PROVE  SelectSplits(I, mbbs[I][mbbi])
<1> DEFINE N == Len(mbbs)
           n == nregs
           mi == mbbs[I][mbbi]
           ends == DiamondEnds(mi.cond, N + 1, N + 2)
           phi == SelectPhi(mi, I, N + 2)
           extra == <<Rjmp(N + 1)>>
           back == {N + 1}
<1>1. /\ GraphOK(mbbs, succs, n, N) /\ LayoutOK(layout, N) /\ JoinOK(mbbs)
      /\ I \in 1..N /\ mbbi \in 1..Len(mbbs[I]) /\ n \in Nat /\ N \in Nat
      /\ MachineCode(mbbs, n, N) /\ succs \in Seq(SUBSET (1..N)) /\ Len(succs) = N
  <2>1. GraphOK(mbbs, succs, n, N) /\ LayoutOK(layout, N) /\ I \in 1..N /\ mbbi \in Nat \ {0}
        /\ JoinOK(mbbs)
    BY DEF CompilerInv
  <2>2. n \in Nat /\ N \in Nat
      /\ MachineCode(mbbs, n, N) /\ succs \in Seq(SUBSET (1..N)) /\ Len(succs) = N
    BY <2>1 DEF GraphOK
  <2>3. mbbs[I] \in Seq(Instrs(n, N))
    BY <2>1, <2>2, SeqElements DEF MachineCode
  <2>. QED
    BY <2>1, <2>2, <2>3 DEF AtInstr
<1>2. mi \in Selects(n) /\ mi.op # "PHI"
  <2>1. mbbs[I] \in Seq(Instrs(n, N))
    BY <1>1, SeqElements DEF MachineCode
  <2>2. mi \in Instrs(n, N)
    BY <1>1, <2>1, SeqElements
  <2>. QED
    BY <1>1, <2>2, InstrKinds
<1>3. mbbs' = CodeSplit(mbbs, succs, I, mbbi, N + 1, N, ends, phi, extra)
  BY DEF InsertSelect, CodeSplit, HeadOf, RestOf, SelectPhi, TwoIns
<1>4. succs' = SuccSplit(succs, I, N + 1, N + 2, N, back)
  BY DEF InsertSelect, SuccSplit
<1>5. layout' = SubSeq(layout, 1, Place(I)) \o <<N + 1, N + 2>>
                     \o SubSeq(layout, Place(I) + 1, Len(layout))
  BY DEF InsertSelect
<1>a. Place(I) \in 1..(N - 1)
  <2>1. Place(I) \in 1..N /\ layout[Place(I)] = I
    BY <1>1, PlaceIsPlace
  <2>2. I # Join
    <3>1. ASSUME I = Join
          PROVE  FALSE
      <4>1. mbbi \in 1..2
        BY <1>1, <3>1 DEF JoinOK
      <4>2. mbbi = 1 \/ mbbi = 2
        BY <4>1
      <4>. QED
        BY <1>1, <3>1, <4>2 DEF JoinOK
    <3>. QED
      BY <3>1
  <2>3. layout[N] = Join
    BY <1>1 DEF LayoutOK
  <2>4. Place(I) # N
    BY <2>1, <2>2, <2>3
  <2>. QED
    BY <1>1, <2>1, <2>4
<1> HIDE DEF mi
<1>6. /\ ends \in Seq(Instrs(n, N + 2))
      /\ \A i \in 1..Len(ends) : ends[i].op # "PHI"
      /\ phi \in Instrs(n, N + 2)
      /\ extra \in Seq(Instrs(n, N + 2))
      /\ PhisOfSplit(phi, extra, I, N + 1, N + 2, back)
  BY <1>1, <1>2, SelectParts, Zenon
<1> HIDE DEF ends, phi, extra, back, N, n
<1>7. n <= n /\ back \in SUBSET (1..(N + 2))
  BY <1>1 DEF back
<1>8. Splittable(mbbs, succs, n, n, N, I, mbbi, N + 1, N + 2, ends, phi, extra, back)
  BY <1>1, <1>6, <1>7 DEF Splittable
<1>9. /\ MachineCode(mbbs', n, N + 2)
      /\ succs' \in Seq(SUBSET (1..(N + 2)))
      /\ SplitOf(mbbs, succs, mbbs', succs', I, mbbi, N + 1, N + 2, ends, phi, extra, back)
  BY <1>3, <1>4, <1>8, SplitIsSplit, Zenon
<1>10. mbbs[I][mbbi].op # "PHI"
  BY <1>2 DEF mi
<1>11. GraphOK(mbbs', succs', n, N + 2)
  BY <1>1, <1>6, <1>8, <1>9, <1>10, SplitKeepsGraph, Zenon
<1>12. LayoutWith(layout, layout', Place(I), N + 1, N + 2, N)
  <2>1. layout \in Seq(1..N) /\ Len(layout) = N
    BY <1>1 DEF LayoutOK
  <2>2. Place(I) \in 1..N
    BY <1>1, <1>a
  <2>. QED
    BY <1>1, <1>5, <2>1, <2>2, InsertTwo, Zenon
<1>13. LayoutOK(layout', N + 2)
  BY <1>1, <1>a, <1>12, LayoutKeeps, Zenon
<1>. QED
  BY <1>8, <1>9, <1>11, <1>12, <1>13, Zenon DEF SelectSplits, N, n, mi, ends, phi, extra, back

----------------------------------------------------------------------------
(***************************************************************************)
(* Every step keeps it.                                                     *)
(***************************************************************************)
LEMMA CompilerFacts ==
  ASSUME CompilerInv
  PROVE  /\ Len(mbbs) \in Nat /\ nregs \in Nat /\ nregs >= Res
         /\ MachineCode(mbbs, nregs, Len(mbbs))
         /\ \A b \in 1..Len(mbbs) : mbbs[b] \in Seq(Instrs(nregs, Len(mbbs)))
         /\ \A b \in 1..Len(mbbs) : Len(mbbs[b]) \in Nat
         /\ \A b \in 1..Len(mbbs) : \A i \in 1..Len(mbbs[b]) : mbbs[b][i] \in Instrs(nregs, Len(mbbs))
         /\ Join \in 1..Len(mbbs) /\ Entry \in 1..Len(mbbs) /\ Body \in 1..Len(mbbs)
<1>1. /\ GraphOK(mbbs, succs, nregs, Len(mbbs)) /\ nregs >= Res
      /\ LayoutOK(layout, Len(mbbs))
  BY DEF CompilerInv
<1>2. /\ Len(mbbs) \in Nat /\ nregs \in Nat /\ MachineCode(mbbs, nregs, Len(mbbs))
  BY <1>1 DEF GraphOK
<1>3. \A b \in 1..Len(mbbs) : mbbs[b] \in Seq(Instrs(nregs, Len(mbbs)))
  BY <1>2, SeqElements DEF MachineCode
<1>4. Len(mbbs) >= 3
  BY <1>1 DEF LayoutOK
<1>5. Join \in 1..Len(mbbs) /\ Entry \in 1..Len(mbbs) /\ Body \in 1..Len(mbbs)
  BY <1>2, <1>4 DEF Join, Entry, Body
<1>6. \A b \in 1..Len(mbbs) : Len(mbbs[b]) \in Nat
  BY <1>3, SeqElements
<1>7. \A b \in 1..Len(mbbs) : \A i \in 1..Len(mbbs[b]) : mbbs[b][i] \in Instrs(nregs, Len(mbbs))
  BY <1>3, SeqElements
<1>. QED
  BY <1>1, <1>2, <1>3, <1>5, <1>6, <1>7

\* Join has a PHI and the return, and neither is a pseudo.
LEMMA PseudoNotInJoin ==
  ASSUME CompilerInv, NEW b \in 1..Len(mbbs), NEW i \in 1..Len(mbbs[b]), mbbs[b][i].op \in Pseudos
  PROVE  b # Join
<1>1. JoinOK(mbbs)
  BY DEF CompilerInv
<1>2. ASSUME b = Join
      PROVE  FALSE
  <2>1. i \in 1..2
    BY <1>1, <1>2 DEF JoinOK
  <2>2. i = 1 \/ i = 2
    BY <2>1
  <2>. QED
    BY <1>1, <1>2, <2>2 DEF JoinOK, Pseudos
<1>. QED
  BY <1>2

LEMMA RenamedOp ==
  ASSUME NEW n \in Nat, NEW N \in Nat, NEW instr \in Instrs(n, N), NEW old \in 1..N, NEW to
  PROVE  Renamed(instr, old, to).op = instr.op
<1>1. CASE instr.op # "PHI"
  BY <1>1 DEF Renamed
<1>2. CASE instr.op = "PHI"
  <2>1. instr \in Phis(n, N)
    BY <1>2, InstrKinds
  <2>. QED
    BY <1>2, <2>1 DEF Renamed, Phis
<1>. QED
  BY <1>1, <1>2

\* No split but that of Join changes what Join does.
LEMMA JoinKept ==
  ASSUME CompilerInv, NEW b \in 1..Len(mbbs), b # Join,
         NEW k, NEW to, NEW other, NEW ends, NEW phi, NEW extra, NEW back,
         SplitOf(mbbs, succs, mbbs', succs', b, k, to, other, ends, phi, extra, back)
  PROVE  JoinOK(mbbs')
<1>1. JoinOK(mbbs) /\ Join \in 1..Len(mbbs)
  BY CompilerFacts DEF CompilerInv
<1>2. /\ Len(mbbs'[Join]) = Len(mbbs[Join])
      /\ \A i \in 1..Len(mbbs[Join]) : mbbs'[Join][i] =
              IF Join \in succs[b] THEN Renamed(mbbs[Join][i], b, to) ELSE mbbs[Join][i]
  BY <1>1 DEF SplitOf
<1>3. 1 \in 1..Len(mbbs[Join]) /\ 2 \in 1..Len(mbbs[Join]) /\ Len(mbbs[Join]) = 2
  BY <1>1 DEF JoinOK
<1>4. \A i \in 1..Len(mbbs[Join]) : mbbs'[Join][i].op = mbbs[Join][i].op
  <2> TAKE i \in 1..Len(mbbs[Join])
  <2>1. mbbs[Join][i] \in Instrs(nregs, Len(mbbs)) /\ nregs \in Nat /\ Len(mbbs) \in Nat
    BY <1>1, CompilerFacts
  <2>2. Renamed(mbbs[Join][i], b, to).op = mbbs[Join][i].op
    BY <2>1, RenamedOp
  <2>. QED
    BY <1>2, <2>2
<1>. QED
  BY <1>1, <1>2, <1>3, <1>4 DEF JoinOK

LEMMA ExpandKeeps ==
  ASSUME LoweringInv, Expand
  PROVE  LoweringInv'
<1> DEFINE N == Len(mbbs)
           mi == mbbs[I][mbbi]
<1>1. CompilerInv /\ ProcessorInv /\ AtInstr /\ phase = "expand" /\ mbbi' = 1
      /\ f' = f /\ phase' = phase /\ bb' = bb /\ pc' = pc /\ from' = from /\ regs' = regs /\ P' = P
  BY DEF LoweringInv, Expand, AtInstr
<1>2. N \in Nat /\ nregs \in Nat /\ nregs >= Res /\ I \in 1..N /\ mbbi \in 1..Len(mbbs[I])
  <2>1. I \in 1..N /\ mbbi \in Nat \ {0} /\ mbbi <= Len(mbbs[I])
    BY <1>1 DEF CompilerInv, AtInstr
  <2>2. Len(mbbs[I]) \in Nat
    BY <1>1, <2>1, CompilerFacts
  <2>. QED
    BY <1>1, <2>1, <2>2, CompilerFacts
<1>3. \/ mi.op = "ShiftLoop" /\ InsertShift(I, mi)
      \/ mi.op = "Select" /\ InsertSelect(I, mi)
  BY DEF Expand
<1>4. I # Join
  BY <1>1, <1>2, <1>3, PseudoNotInJoin DEF Pseudos
<1>5. /\ nregs' \in Nat /\ nregs' >= Res
      /\ GraphOK(mbbs', succs', nregs', N + 2) /\ LayoutOK(layout', N + 2)
      /\ JoinOK(mbbs') /\ Len(mbbs') = N + 2 /\ I' \in 1..(N + 2)
  <2>1. CASE mi.op = "ShiftLoop" /\ InsertShift(I, mi)
    <3>1. ShiftSplits(I, mi)
      BY <1>1, <2>1, ShiftIsSplit
    <3>2. nregs' = nregs + 4 /\ I' = N + 2
      BY <2>1 DEF InsertShift
    <3>3. Len(mbbs') = N + 2
      BY <3>1 DEF ShiftSplits, SplitOf
    <3>4. JoinOK(mbbs')
      BY <1>1, <1>2, <1>4, <3>1, JoinKept, Zenon DEF ShiftSplits
    <3>5. GraphOK(mbbs', succs', nregs', N + 2) /\ LayoutOK(layout', N + 2)
      BY <3>1, <3>2 DEF ShiftSplits
    <3>. QED
      BY <1>2, <3>2, <3>3, <3>4, <3>5 DEF Res
  <2>2. CASE mi.op = "Select" /\ InsertSelect(I, mi)
    <3>1. SelectSplits(I, mi)
      BY <1>1, <2>2, SelectIsSplit
    <3>2. nregs' = nregs /\ I' = N + 1
      BY <2>2 DEF InsertSelect
    <3>3. Len(mbbs') = N + 2
      BY <3>1 DEF SelectSplits, SplitOf
    <3>4. JoinOK(mbbs')
      BY <1>1, <1>2, <1>4, <3>1, JoinKept, Zenon DEF SelectSplits
    <3>5. GraphOK(mbbs', succs', nregs', N + 2) /\ LayoutOK(layout', N + 2)
      BY <3>1, <3>2 DEF SelectSplits
    <3>. QED
      BY <1>2, <3>2, <3>3, <3>4, <3>5
  <2>. QED
    BY <1>3, <2>1, <2>2
<1>6. CompilerInv'
  BY <1>1, <1>5 DEF CompilerInv
<1>7. 1..N \subseteq 1..(N + 2)
  BY <1>2
<1>8. ProcessorInv'
  BY <1>1, <1>5, <1>7 DEF ProcessorInv
<1>. QED
  BY <1>6, <1>8 DEF LoweringInv

LEMMA PassKeeps ==
  ASSUME LoweringInv, Pass
  PROVE  LoweringInv'
BY DEF LoweringInv, CompilerInv, ProcessorInv, Pass

\* The place behind a block that is not the last one.
LEMMA NextInLayout ==
  ASSUME CompilerInv, NEW b \in 1..Len(mbbs), b # Join
  PROVE  Place(b) \in 1..(Len(mbbs) - 1) /\ layout[Place(b) + 1] \in 1..Len(mbbs)
<1>1. LayoutOK(layout, Len(mbbs)) /\ Len(mbbs) \in Nat
  BY CompilerFacts DEF CompilerInv
<1>2. Place(b) \in 1..Len(mbbs) /\ layout[Place(b)] = b
  BY <1>1, PlaceIsPlace
<1>3. layout[Len(mbbs)] = Join /\ layout \in Seq(1..Len(mbbs)) /\ Len(layout) = Len(mbbs)
  BY <1>1 DEF LayoutOK
<1>4. Place(b) \in 1..(Len(mbbs) - 1)
  BY <1>1, <1>2, <1>3
<1>5. Place(b) + 1 \in 1..Len(layout)
  <2>1. \A n \in Nat : \A p \in 1..(n - 1) : p + 1 \in 1..n
    OBVIOUS
  <2>. QED
    BY <1>1, <1>3, <1>4, <2>1
<1>. QED
  BY <1>3, <1>4, <1>5, SeqElements

LEMMA NextBlockKeeps ==
  ASSUME LoweringInv, NextBlock
  PROVE  LoweringInv'
<1> DEFINE N == Len(mbbs)
<1>1. CompilerInv /\ ProcessorInv /\ phase = "expand" /\ mbbi' = 1
      /\ f' = f /\ mbbs' = mbbs /\ succs' = succs /\ layout' = layout /\ nregs' = nregs
      /\ bb' = bb /\ pc' = pc /\ from' = from /\ P' = P
  BY DEF LoweringInv, NextBlock
<1>2. N \in Nat /\ I \in 1..N /\ LayoutOK(layout, N)
  BY <1>1, CompilerFacts DEF CompilerInv
<1>3. layout \in Seq(1..N) /\ Len(layout) = N
  BY <1>2 DEF LayoutOK
<1>4. CASE Place(I) < Len(layout)
  <2>1. I' = layout[Place(I) + 1] /\ phase' = phase /\ regs' = regs
    BY <1>4 DEF NextBlock
  <2>2. Place(I) \in 1..N
    BY <1>2, PlaceIsPlace
  <2>3. Place(I) + 1 \in 1..Len(layout)
    <3>1. \A n \in Nat : \A p \in 1..n : p < n => p + 1 \in 1..n
      OBVIOUS
    <3>. QED
      BY <1>2, <1>3, <1>4, <2>2, <3>1
  <2>4. I' \in 1..N
    BY <1>3, <2>1, <2>3, SeqElements
  <2>. QED
    BY <1>1, <2>1, <2>4 DEF LoweringInv, CompilerInv, ProcessorInv
<1>5. CASE ~(Place(I) < Len(layout))
  <2>1. I' = I /\ phase' = "run"
        /\ regs' = [r \in 1..nregs |->
                          CASE r = W -> f.w [] r = Amount -> f.amount [] r = LReg -> f.l
                            [] r = RReg -> f.r [] r = Other -> f.other [] r = One -> 1
                            [] OTHER -> 0]
    BY <1>5 DEF NextBlock
  <2>2. IsFunction(f)
    BY <1>1, FunctionsAssumption DEF CompilerInv
  <2>3. f.w \in Nat /\ f.amount \in Nat /\ f.l \in Nat /\ f.r \in Nat /\ f.other \in Nat
    BY <2>2 DEF IsFunction, Byte
  <2>4. regs' \in [1..nregs -> Nat]
    BY <2>1, <2>3
  <2>. QED
    BY <1>1, <2>1, <2>4 DEF LoweringInv, CompilerInv, ProcessorInv
<1>. QED
  BY <1>4, <1>5
----------------------------------------------------------------------------
LEMMA ThisFacts ==
  ASSUME LoweringInv, Running
  PROVE  /\ This \in Instrs(nregs, Len(mbbs)) /\ nregs \in Nat /\ Len(mbbs) \in Nat
         /\ bb \in 1..Len(mbbs) /\ pc \in 1..Len(mbbs[bb])
         /\ regs \in [1..nregs -> Nat] /\ phase = "run"
         /\ This.op # "RET" /\ bb = Join => pc + 1 <= 2
<1>1. CompilerInv /\ ProcessorInv /\ phase = "run" /\ pc <= Len(mbbs[bb])
  BY DEF LoweringInv, Running
<1>2. bb \in 1..Len(mbbs) /\ pc \in Nat \ {0} /\ regs \in [1..nregs -> Nat]
      /\ (bb = Join => pc <= 2)
  BY <1>1 DEF ProcessorInv
<1>3. Len(mbbs[bb]) \in Nat /\ nregs \in Nat /\ Len(mbbs) \in Nat
  BY <1>1, <1>2, CompilerFacts
<1>4. pc \in 1..Len(mbbs[bb])
  BY <1>1, <1>2, <1>3
<1>5. This \in Instrs(nregs, Len(mbbs))
  BY <1>1, <1>2, <1>4, CompilerFacts DEF This
<1>6. This.op # "RET" /\ bb = Join => pc # 2
  BY <1>1 DEF CompilerInv, JoinOK, This
<1>. QED
  BY <1>1, <1>2, <1>3, <1>4, <1>5, <1>6

\* The running program changes no code.
LEMMA CodeKept ==
  ASSUME CompilerInv, UNCHANGED Code
  PROVE  CompilerInv' /\ mbbs' = mbbs /\ nregs' = nregs
BY DEF CompilerInv, Code

LEMMA RunPhiKeeps ==
  ASSUME LoweringInv, RunPhi
  PROVE  LoweringInv'
<1>1. Running /\ This.op = "PHI" /\ CompilerInv /\ ProcessorInv /\ UNCHANGED Code
      /\ bb' = bb /\ from' = from /\ P' = P
  BY DEF RunPhi, LoweringInv
<1>2. CompilerInv' /\ mbbs' = mbbs /\ nregs' = nregs
  BY <1>1, CodeKept
<1>3. This \in Phis(nregs, Len(mbbs)) /\ regs \in [1..nregs -> Nat] /\ phase = "run"
      /\ pc \in Nat \ {0} /\ (bb = Join => pc + 1 <= 2)
  BY <1>1, ThisFacts, InstrKinds DEF ProcessorInv
<1>4. CASE \E i \in DOMAIN This.ins :
             /\ This.ins[i].mbb = from
             /\ regs' = [regs EXCEPT ![This.d] = regs[This.ins[i].reg]]
             /\ pc' = pc + 1 /\ phase' = phase
  <2>1. PICK i \in DOMAIN This.ins :
             /\ regs' = [regs EXCEPT ![This.d] = regs[This.ins[i].reg]]
             /\ pc' = pc + 1 /\ phase' = phase
    BY <1>4
  <2>2. This.ins \in Seq([reg : 1..nregs, mbb : 1..Len(mbbs)])
    BY <1>3 DEF Phis
  <2>3. This.ins[i] \in [reg : 1..nregs, mbb : 1..Len(mbbs)]
    <3>1. i \in 1..Len(This.ins)
      BY <2>2, SeqElements
    <3>. QED
      BY <2>2, <3>1, SeqElements
  <2>4. regs[This.ins[i].reg] \in Nat
    BY <1>3, <2>3
  <2>5. regs' \in [1..nregs -> Nat]
    BY <1>3, <2>1, <2>4
  <2>. QED
    BY <1>1, <1>2, <1>3, <2>1, <2>5 DEF LoweringInv, ProcessorInv
<1>5. CASE phase' = "stuck" /\ UNCHANGED <<pc, regs>>
  BY <1>1, <1>2, <1>3, <1>5 DEF LoweringInv, ProcessorInv
<1>. QED
  BY <1>4, <1>5 DEF RunPhi

LEMMA FlagsOf ==
  /\ \A a, b, borrow, zBelow, M : Subtracted(a, b, borrow, zBelow, M) \in FlagsType
  /\ \A a, M : P \in FlagsType => Tested(a, M) \in FlagsType
  /\ \A a, M : TopBit(a, M) \in {0, 1}
<1>1. \A b : Bit(b) \in {0, 1}
  BY DEF Bit
<1>2. \A a, M : TopBit(a, M) \in {0, 1}
  BY DEF TopBit
<1>3. \A a, b, borrow, M : SubWith(a, b, borrow, M).carry \in {0, 1}
  BY DEF SubWith
<1>4. \A a, b, borrow, zBelow, M : Subtracted(a, b, borrow, zBelow, M) \in FlagsType
  BY <1>1, <1>2, <1>3 DEF Subtracted, FlagsType
<1>5. \A a, M : P \in FlagsType => Tested(a, M) \in FlagsType
  BY <1>1, <1>2 DEF Tested, FlagsType
<1>. QED
  BY <1>2, <1>4, <1>5

LEMMA ByOneType ==
  ASSUME NEW how, NEW a \in Nat, NEW M \in Nat, M > 0
  PROVE  ByOne(how, a, M).val \in Nat /\ ByOne(how, a, M).carry \in {0, 1}
<1>1. M \div 2 \in Nat /\ a \div 2 \in Nat /\ a % 2 \in {0, 1} /\ (2 * a + 0) % M \in Nat
  OBVIOUS
<1>2. ShiftLeft(a, 0, M).val \in Nat /\ ShiftLeft(a, 0, M).carry \in {0, 1}
  BY <1>1 DEF ShiftLeft
<1>3. \A c : ShiftRight(a, c, M).val \in Nat /\ ShiftRight(a, c, M).carry \in {0, 1}
  BY <1>1 DEF ShiftRight
<1>. QED
  BY <1>2, <1>3 DEF ByOne

LEMMA SizesType == ByteSize \in Nat /\ ByteSize > 1 /\ WordSize \in Nat /\ WordSize > 1
BY ByteSizeAssumption DEF WordSize

LEMMA ComputeKeeps ==
  ASSUME LoweringInv, Compute
  PROVE  LoweringInv'
<1>1. Running /\ CompilerInv /\ ProcessorInv /\ UNCHANGED Code /\ phase' = phase
      /\ bb' = bb /\ from' = from /\ pc' = pc + 1
  BY DEF Compute, LoweringInv
<1>2. CompilerInv' /\ mbbs' = mbbs /\ nregs' = nregs
  BY <1>1, CodeKept
<1>3. This \in Instrs(nregs, Len(mbbs)) /\ regs \in [1..nregs -> Nat] /\ phase = "run"
      /\ nregs \in Nat /\ Len(mbbs) \in Nat
      /\ pc \in Nat \ {0} /\ (This.op # "RET" /\ bb = Join => pc + 1 <= 2) /\ P \in FlagsType
  BY <1>1, ThisFacts DEF ProcessorInv
<1>4. ASSUME This.op # "RET", regs' \in [1..nregs -> Nat], P' \in FlagsType
      PROVE  LoweringInv'
  BY <1>1, <1>2, <1>3, <1>4 DEF LoweringInv, ProcessorInv
<1>5. CASE This.op \in {"CMP", "CMPC", "TST"} /\ P' = CompareParts(This) /\ UNCHANGED regs
  <2>1. P' \in FlagsType
    BY <1>3, <1>5, FlagsOf DEF CompareParts
  <2>. QED
    BY <1>3, <1>4, <1>5, <2>1
<1>6. CASE /\ This.op = "CPI"
           /\ P' = Subtracted(regs[This.d], This.k, 0, 1, ByteSize) /\ UNCHANGED regs
  BY <1>3, <1>4, <1>6, FlagsOf
<1>7. CASE /\ This.op = "SUBI"
           /\ P' = Subtracted(regs[This.s], This.k, 0, 1, ByteSize)
           /\ regs' = [regs EXCEPT ![This.d] = SubWith(regs[This.s], This.k, 0, ByteSize).val]
  <2>1. This \in Computations(nregs)
    BY <1>3, <1>7, InstrKinds
  <2>2. This.s \in 1..nregs /\ This.k \in Nat
    BY <1>7, <2>1 DEF Computations
  <2>3. (regs[This.s] - This.k - 0) % ByteSize \in Nat
    BY <1>3, <2>2, SizesType
  <2>4. regs' \in [1..nregs -> Nat]
    BY <1>3, <1>7, <2>3 DEF SubWith
  <2>. QED
    BY <1>4, <1>7, <2>4, FlagsOf
<1>8. CASE /\ This.op = "SHIFT"
           /\ regs' = [regs EXCEPT ![This.d] = ByOne(This.how, regs[This.s], f.size).val]
           /\ P' = [Tested(ByOne(This.how, regs[This.s], f.size).val, f.size) EXCEPT
                      !.c = ByOne(This.how, regs[This.s], f.size).carry]
  <2>1. This \in Computations(nregs)
    BY <1>3, <1>8, InstrKinds
  <2>2. This.s \in 1..nregs
    BY <1>8, <2>1 DEF Computations
  <2>3. IsFunction(f)
    BY <1>1, FunctionsAssumption DEF CompilerInv
  <2>4. f.size \in Nat /\ f.size > 0
    BY <2>3, SizesType DEF IsFunction
  <2>5. regs[This.s] \in Nat
    BY <1>3, <2>2
  <2> DEFINE r == ByOne(This.how, regs[This.s], f.size)
  <2>6. r.val \in Nat /\ r.carry \in {0, 1}
    BY <2>4, <2>5, ByOneType
  <2>7. Tested(r.val, f.size) \in FlagsType
    BY <1>3, FlagsOf
  <2>. HIDE DEF r
  <2>8. regs' \in [1..nregs -> Nat]
    BY <1>3, <1>8, <2>6 DEF r
  <2>9. P' = [Tested(r.val, f.size) EXCEPT !.c = r.carry]
    BY <1>8 DEF r
  <2>10. P' \in FlagsType
    BY <2>6, <2>7, <2>9 DEF FlagsType
  <2>. QED
    BY <1>4, <1>8, <2>8, <2>10
<1>. QED
  BY <1>5, <1>6, <1>7, <1>8 DEF Compute

LEMMA BranchKeeps ==
  ASSUME LoweringInv, Branch
  PROVE  LoweringInv'
<1>1. Running /\ CompilerInv /\ ProcessorInv /\ UNCHANGED Code /\ phase' = phase
      /\ regs' = regs /\ P' = P
      /\ (This.op = "RJMPk" \/ This.op = "BR")
      /\ (GoTo(This.to) \/ (pc' = pc + 1 /\ UNCHANGED <<bb, from>>))
  <2>1. Running /\ UNCHANGED Code /\ phase' = phase /\ regs' = regs /\ P' = P
    BY DEF Branch
  <2>2. (This.op = "RJMPk" \/ This.op = "BR")
        /\ (GoTo(This.to) \/ (pc' = pc + 1 /\ UNCHANGED <<bb, from>>))
    BY DEF Branch
  <2>. QED
    BY <2>1, <2>2 DEF LoweringInv
<1>2. CompilerInv' /\ mbbs' = mbbs /\ nregs' = nregs
  BY <1>1, CodeKept
<1>3. This \in Leavings(Len(mbbs)) /\ bb \in 1..Len(mbbs)
      /\ pc \in Nat \ {0} /\ (bb = Join => pc + 1 <= 2)
  BY <1>1, ThisFacts, InstrKinds DEF ProcessorInv
<1>4. This.to \in 1..Len(mbbs)
  BY <1>3 DEF Leavings
<1>5. bb' \in 1..Len(mbbs) /\ from' \in 1..Len(mbbs) /\ pc' \in Nat \ {0} /\ (bb' = Join => pc' <= 2)
  BY <1>1, <1>3, <1>4 DEF GoTo, ProcessorInv
<1>. QED
  BY <1>1, <1>2, <1>5 DEF LoweringInv, ProcessorInv

LEMMA FallThroughKeeps ==
  ASSUME LoweringInv, FallThrough
  PROVE  LoweringInv'
<1>1. CompilerInv /\ ProcessorInv /\ UNCHANGED Code /\ phase' = phase
      /\ regs' = regs /\ P' = P /\ pc > Len(mbbs[bb])
      /\ GoTo(layout[Place(bb) + 1])
  BY DEF FallThrough, LoweringInv
<1>2. CompilerInv' /\ mbbs' = mbbs /\ nregs' = nregs
  BY <1>1, CodeKept
<1>3. bb \in 1..Len(mbbs) /\ pc \in Nat \ {0} /\ (bb = Join => pc <= 2)
  BY <1>1 DEF ProcessorInv
<1>4. bb # Join
  BY <1>1, <1>3 DEF CompilerInv, JoinOK
<1>5. layout[Place(bb) + 1] \in 1..Len(mbbs)
  BY <1>1, <1>3, <1>4, NextInLayout
<1>6. bb' \in 1..Len(mbbs) /\ from' \in 1..Len(mbbs) /\ pc' = 1
  BY <1>1, <1>3, <1>5 DEF GoTo
<1>. QED
  BY <1>1, <1>2, <1>6 DEF LoweringInv, ProcessorInv

LEMMA LoweringStep ==
  ASSUME LoweringInv, [Next]_vars
  PROVE  LoweringInv'
<1>1. CASE Ret
  <2>1. CompilerInv /\ ProcessorInv /\ UNCHANGED Code
    BY <1>1 DEF Ret, LoweringInv
  <2>2. CompilerInv' /\ mbbs' = mbbs /\ nregs' = nregs
    BY <2>1, CodeKept
  <2>. QED
    BY <1>1, <2>1, <2>2 DEF Ret, Running, LoweringInv, ProcessorInv
<1>2. CASE UNCHANGED vars
  BY <1>2 DEF vars, LoweringInv, CompilerInv, ProcessorInv
<1>. QED
  BY <1>1, <1>2, ExpandKeeps, PassKeeps, NextBlockKeeps, RunPhiKeeps, ComputeKeeps, BranchKeeps,
     FallThroughKeeps DEF Next, Stopped

----------------------------------------------------------------------------
(***************************************************************************)
(* What the DAG lowering hands over.                                        *)
(***************************************************************************)
\* What the operations of the source become: nothing that leaves the block.
OpInstrs(n) == CompareInstrs(n) \cup Computations(n) \cup Loops(n) \cup Selects(n)

LEMMA OpInstrKinds ==
  ASSUME NEW n, NEW N, NEW instr \in OpInstrs(n)
  PROVE  instr \in Instrs(n, N) /\ instr.op \notin {"PHI", "BR", "RJMPk", "RET"}
BY DEF OpInstrs, Instrs, CompareInstrs, Computations, Loops, Selects

LEMMA SizeType ==
  ASSUME NEW bytes \in {1, 2, 4, 8}
  PROVE  /\ SizeOf(bytes) \in Nat /\ SizeOf(bytes) > 0 /\ SizeOf(bytes) \div ByteSize \in Nat
         /\ bytes # 1 => \A i \in 1..(bytes \div 2) : Words[i] \in Nat
<1>1. WordSize * WordSize \in Nat /\ WordSize * WordSize > 0
  BY SizesType
<1>2. WordSize * WordSize * WordSize \in Nat /\ WordSize * WordSize * WordSize > 0
  BY <1>1, SizesType
<1>3. WordSize * WordSize * WordSize * WordSize \in Nat
      /\ WordSize * WordSize * WordSize * WordSize > 0
  BY <1>2, SizesType
<1>4. SizeOf(bytes) \in Nat /\ SizeOf(bytes) > 0
  BY <1>1, <1>3, SizesType DEF SizeOf
<1>5. SizeOf(bytes) \div ByteSize \in Nat
  BY <1>4, SizesType
<1>6. \A i \in 1..4 : i = 1 \/ i = 2 \/ i = 3 \/ i = 4
  OBVIOUS
<1>7. \A i \in 1..4 : Words[i] \in Nat
  BY <1>1, <1>2, <1>6, SizesType DEF Words
<1>8. \A i \in 1..(bytes \div 2) : i \in 1..4
  BY bytes = 1 \/ bytes = 2 \/ bytes = 4 \/ bytes = 8
<1>. QED
  BY <1>4, <1>5, <1>7, <1>8

IsCompare(cmp, n) ==
  cmp.test \in BOOLEAN /\ cmp.l \in Operands(n) /\ cmp.r \in Operands(n) /\ cmp.cc \in Conds

\* What getSNESCmp returns names a register or a constant and a condition.
LEMMA GetSNESCmpType ==
  ASSUME NEW n \in Nat, NEW M \in Nat, M > 0, NEW cc \in Conditions,
         NEW lhs \in Operands(n), NEW rhs \in Operands(n), NEW cmp, cmp = GetSNESCmp(cc, lhs, rhs, M)
  PROVE  IsCompare(cmp, n)
<1>1. /\ SNESCC["SETEQ"] = "EQ" /\ SNESCC["SETNE"] = "NE" /\ SNESCC["SETGE"] = "GE"
      /\ SNESCC["SETLT"] = "LT" /\ SNESCC["SETUGE"] = "SH" /\ SNESCC["SETULT"] = "LO"
  BY DEF SNESCC
<1>2. ASSUME NEW x \in Operands(n), NEW y \in Operands(n),
             NEW c \in {"SETEQ", "SETNE", "SETGE", "SETLT", "SETUGE", "SETULT"}
      PROVE  IsCompare(Compare(x, y, c), n)
  BY <1>1 DEF IsCompare, Compare, Conds
<1>3. ASSUME NEW x \in Operands(n), NEW c \in {"PL", "MI"}
      PROVE  IsCompare(Test(x, c), n)
  BY DEF IsCompare, Test, Conds
<1>4. Const(0) \in Operands(n)
  BY DEF Const, Operands
<1>5. NextConst(Signed(rhs.k, M), M) \in Operands(n)
  <2>1. rhs.k \in Nat
    BY DEF Operands
  <2>2. Signed(rhs.k, M) \in Int
    BY <2>1 DEF Signed
  <2>3. (Signed(rhs.k, M) + 1) % M \in Nat
    BY <2>2
  <2>. QED
    BY <2>3 DEF NextConst, Const, Operands
<1> DEFINE c == Signed(rhs.k, M)
           isConst == rhs.reg = 0
<1>6. cmp = CASE cc = "SETLE" -> Compare(rhs, lhs, "SETGE")
        [] cc = "SETGT" /\ isConst /\ c = -1 -> Test(lhs, "PL")
        [] cc = "SETGT" /\ isConst /\ c = 0 -> Compare(Const(0), lhs, "SETLT")
        [] cc = "SETGT" /\ isConst /\ c \notin {-1, 0} -> Compare(lhs, NextConst(c, M), "SETGE")
        [] cc = "SETGT" /\ ~isConst -> Compare(rhs, lhs, "SETLT")
        [] cc = "SETLT" /\ isConst /\ c = 1 -> Compare(Const(0), lhs, "SETGE")
        [] cc = "SETLT" /\ isConst /\ c = 0 -> Test(lhs, "MI")
        [] cc = "SETULE" -> Compare(rhs, lhs, "SETUGE")
        [] cc = "SETUGT" /\ isConst -> Compare(lhs, NextConst(c, M), "SETUGE")
        [] cc = "SETUGT" /\ ~isConst -> Compare(rhs, lhs, "SETULT")
        [] OTHER -> Compare(lhs, rhs, cc)
  BY DEF GetSNESCmp
<1> HIDE DEF c, isConst
<1>7. NextConst(c, M) \in Operands(n)
  BY <1>5 DEF c
<1>8. \/ \E x \in Operands(n), y \in Operands(n),
            d \in {"SETEQ", "SETNE", "SETGE", "SETLT", "SETUGE", "SETULT"} : cmp = Compare(x, y, d)
      \/ \E x \in Operands(n), d \in {"PL", "MI"} : cmp = Test(x, d)
  <2>1. CASE cc = "SETLE"
    BY <1>6, <2>1
  <2>2. CASE cc = "SETGT"
    BY <1>4, <1>6, <1>7, <2>2
  <2>3. CASE cc = "SETLT"
    BY <1>4, <1>6, <2>3
  <2>4. CASE cc = "SETULE"
    BY <1>6, <2>4
  <2>5. CASE cc = "SETUGT"
    BY <1>6, <1>7, <2>5
  <2>6. CASE cc \in {"SETEQ", "SETNE", "SETGE", "SETUGE", "SETULT"}
    BY <1>6, <2>6
  <2>. QED
    BY <2>1, <2>2, <2>3, <2>4, <2>5, <2>6 DEF Conditions
<1>. QED
  BY <1>2, <1>3, <1>8

\* The compares of any width are compares.
LEMMA CmpNodesType ==
  ASSUME NEW n \in Nat, NEW cmp, IsCompare(cmp, n), NEW bytes \in {1, 2, 4, 8}
  PROVE  CmpNodes(cmp, bytes) \in Seq(CompareInstrs(n)) /\ CmpNodes(cmp, bytes) # << >>
<1>1. ASSUME NEW op \in {"CMP", "CMPC", "TST"}, NEW below \in Nat, NEW size \in Nat
      PROVE  Part(op, cmp, below, size) \in CompareInstrs(n)
  BY DEF Part, CompareInstrs, IsCompare
<1>2. CASE cmp.test
  <2>1. CmpNodes(cmp, bytes) = <<Part("TST", cmp, SizeOf(bytes) \div ByteSize, ByteSize)>>
    BY <1>2 DEF CmpNodes
  <2>2. Part("TST", cmp, SizeOf(bytes) \div ByteSize, ByteSize) \in CompareInstrs(n)
    BY <1>1, SizeType, SizesType
  <2>. QED
    BY <2>1, <2>2
<1>3. CASE ~cmp.test /\ bytes = 1
  <2>1. CmpNodes(cmp, bytes) = <<Part("CMP", cmp, 1, ByteSize)>>
    BY <1>3 DEF CmpNodes
  <2>2. Part("CMP", cmp, 1, ByteSize) \in CompareInstrs(n)
    BY <1>1, SizesType
  <2>. QED
    BY <2>1, <2>2
<1>4. CASE ~cmp.test /\ bytes # 1
  <2> DEFINE k == bytes \div 2
             g == [i \in 1..k |-> Part(IF i = 1 THEN "CMP" ELSE "CMPC", cmp, Words[i], WordSize)]
  <2>1. CmpNodes(cmp, bytes) = g
    BY <1>4 DEF CmpNodes
  <2>2. k \in Nat /\ k > 0
    BY <1>4
  <2>3. \A i \in 1..k : Part(IF i = 1 THEN "CMP" ELSE "CMPC", cmp, Words[i], WordSize) \in CompareInstrs(n)
    BY <1>1, <1>4, SizeType, SizesType
  <2>. HIDE DEF k
  <2>4. g \in [1..k -> CompareInstrs(n)]
    BY <2>3
  <2>. HIDE DEF g
  <2>5. g \in Seq(CompareInstrs(n)) /\ Len(g) = k
    BY <2>2, <2>4
  <2>. QED
    BY <2>1, <2>2, <2>5
<1>. QED
  BY <1>2, <1>3, <1>4 DEF IsCompare

NumOps == Len(f.ops)

LEMMA FunctionFacts ==
  ASSUME f \in Functions
  PROVE  /\ IsFunction(f) /\ NumOps \in Nat /\ f.ops \in Seq(SourceOps) /\ DOMAIN f.ops = 1..NumOps
         /\ f.cmp.bytes \in {1, 2, 4, 8} /\ f.cmp.cc \in Conditions /\ f.cmp.const \in BOOLEAN
         /\ CmpSize(f.cmp) \in Nat /\ CmpSize(f.cmp) > 0
         /\ f.r \in Nat
<1>1. IsFunction(f)
  BY FunctionsAssumption
<1>2. f.ops \in Seq(SourceOps) /\ f.cmp \in [cc : Conditions, bytes : {1, 2, 4, 8}, const : BOOLEAN]
      /\ f.r \in 0..(CmpSize(f.cmp) - 1)
  BY <1>1 DEF IsFunction
<1>3. f.cmp.bytes \in {1, 2, 4, 8} /\ f.cmp.cc \in Conditions /\ f.cmp.const \in BOOLEAN
  BY <1>2
<1>4. CmpSize(f.cmp) \in Nat /\ CmpSize(f.cmp) > 0
  BY <1>3, SizeType DEF CmpSize
<1>5. NumOps \in Nat /\ DOMAIN f.ops = 1..NumOps
  BY <1>2, SeqElements DEF NumOps
<1>6. f.r \in Nat
  BY <1>2
<1>. QED
  BY <1>1, <1>2, <1>3, <1>4, <1>5, <1>6

LEMMA CmpType ==
  ASSUME f \in Functions, NEW n \in Nat, n >= Res
  PROVE  IsCompare(Cmp, n)
<1> DEFINE lhs == Reg(LReg)
           rhs == IF f.cmp.const THEN Const(f.r) ELSE Reg(RReg)
<1>1. lhs \in Operands(n) /\ rhs \in Operands(n)
  <2>1. LReg \in 0..n /\ RReg \in 0..n
    BY DEF LReg, RReg, Res
  <2>. QED
    BY <2>1, FunctionFacts DEF Reg, Const, Operands
<1>2. Cmp = GetSNESCmp(f.cmp.cc, lhs, rhs, CmpSize(f.cmp))
  BY DEF Cmp
<1> HIDE DEF lhs, rhs
<1>. QED
  BY <1>1, <1>2, FunctionFacts, GetSNESCmpType

LEMMA OpRegType ==
  ASSUME f \in Functions, NEW i \in 0..NumOps
  PROVE  OpReg(i) \in 1..(Res + NumOps)
BY FunctionFacts DEF OpReg, W, Res

\* An operation is lowered to instructions that do not leave the block.
LEMMA LowerOpType ==
  ASSUME f \in Functions, NEW i \in 1..NumOps
  PROVE  LowerOp(i) \in Seq(OpInstrs(Res + NumOps))
<1> DEFINE n == Res + NumOps
           op == f.ops[i]
           s == OpReg(i - 1)
           d == OpReg(i)
<1>1. n \in Nat /\ n >= Res /\ s \in 1..n /\ d \in 1..n
      /\ Amount \in 1..n /\ One \in 1..n /\ Zero \in 1..n /\ Other \in 1..n
  <2>1. NumOps \in Nat /\ i - 1 \in 0..NumOps /\ i \in 0..NumOps
    BY FunctionFacts
  <2>2. n \in Nat /\ n >= Res
    BY <2>1 DEF Res
  <2>3. s \in 1..n /\ d \in 1..n
    BY <2>1, OpRegType
  <2>4. Amount \in 1..n /\ One \in 1..n /\ Zero \in 1..n /\ Other \in 1..n
    BY <2>2 DEF Res, Amount, One, Zero, Other
  <2>. QED
    BY <2>2, <2>3, <2>4
<1>2. op \in SourceOps
  BY FunctionFacts, SeqElements
<1>3. op.kind \in {"const", "loop", "select", "setcc"}
      /\ (op.kind \in {"const", "loop"} => op.how \in Hows)
      /\ (op.kind = "const" => op.n \in Nat)
  BY <1>2 DEF SourceOps
<1>4. CASE op.kind \in {"const", "loop"}
  <2>1. LowerOp(i) = LowerShifts(op, s, d)
    BY <1>4 DEF LowerOp
  <2>2. CASE op.kind = "const"
    <3>1. LowerOp(i) = [j \in 1..op.n |-> Shift(d, IF j = 1 THEN s ELSE d, op.how)]
      BY <2>1, <2>2 DEF LowerShifts
    <3>2. \A x \in 1..n : Shift(d, x, op.how) \in OpInstrs(n)
      BY <1>1, <1>3, <2>2 DEF Shift, OpInstrs, Computations
    <3>. HIDE DEF n, op, s, d
    <3>3. LowerOp(i) \in [1..op.n -> OpInstrs(n)]
      BY <1>1, <3>1, <3>2
    <3>4. LowerOp(i) \in Seq(OpInstrs(n))
      BY <1>3, <2>2, <3>3
    <3>. QED
      BY <3>4 DEF n
  <2>3. CASE op.kind = "loop"
    <3> DEFINE x == [op |-> "ShiftLoop", d |-> d, s |-> s, n |-> Amount, how |-> op.how]
    <3>1. LowerOp(i) = <<x>>
      BY <2>1, <2>3 DEF LowerShifts
    <3>2. x \in OpInstrs(n)
      BY <1>1, <1>3, <2>3 DEF OpInstrs, Loops
    <3>. HIDE DEF x
    <3>. QED
      BY <3>1, <3>2
  <2>. QED
    BY <1>4, <2>2, <2>3
<1>5. CASE op.kind \notin {"const", "loop"}
  <2> DEFINE x == [op |-> "Select", d |-> d, cond |-> Cmp.cc,
                   t |-> IF op.kind = "select" THEN s ELSE One,
                   f |-> IF op.kind = "select" THEN Other ELSE Zero]
  <2>1. LowerOp(i) = Append(CmpNodes(Cmp, f.cmp.bytes), x)
    BY <1>5 DEF LowerOp, LowerSelect
  <2>2. IsCompare(Cmp, n)
    BY <1>1, CmpType
  <2>3. x \in OpInstrs(n)
    BY <1>1, <2>2 DEF OpInstrs, Selects, IsCompare
  <2>4. CmpNodes(Cmp, f.cmp.bytes) \in Seq(CompareInstrs(n))
    BY <1>1, <2>2, CmpNodesType, FunctionFacts
  <2>5. CmpNodes(Cmp, f.cmp.bytes) \in Seq(OpInstrs(n))
    <3>1. CompareInstrs(n) \subseteq OpInstrs(n)
      BY DEF OpInstrs
    <3>2. \A A, B : A \subseteq B => Seq(A) \subseteq Seq(B)
      OBVIOUS
    <3>. QED
      BY <2>4, <3>1, <3>2
  <2>. HIDE DEF x, n
  <2>6. Append(CmpNodes(Cmp, f.cmp.bytes), x) \in Seq(OpInstrs(n))
    BY <2>3, <2>5
  <2>. QED
    BY <2>1, <2>6 DEF n
<1>. QED
  BY <1>4, <1>5

\* So are all the operations of a block.
LEMMA OpsType ==
  ASSUME f \in Functions, NEW b
  PROVE  Ops(b) \in Seq(OpInstrs(Res + NumOps))
<1> DEFINE q == [i \in DOMAIN f.ops |-> LowerOp(i)]
<1>1. PICK T : T = OpInstrs(Res + NumOps)
  OBVIOUS
<1>2. \A i \in 1..NumOps : LowerOp(i) \in Seq(T)
  BY <1>1, LowerOpType
<1>3. q = [i \in 1..NumOps |-> LowerOp(i)] /\ NumOps \in Nat
  BY FunctionFacts
<1>4. q \in Seq(Seq(T))
  BY <1>2, <1>3
<1> HIDE DEF q
<1>5. FlattenSeq(q) \in Seq(T)
  BY <1>4, FlattenSeqSegments
<1>6. Ops(b) = IF b = f.place THEN FlattenSeq(q) ELSE << >>
  BY DEF Ops, q
<1>7. << >> \in Seq(T)
  OBVIOUS
<1>8. CASE b = f.place
  BY <1>1, <1>5, <1>6, <1>8
<1>9. CASE b # f.place
  <2>1. Ops(b) = << >>
    BY <1>6, <1>9
  <2>. QED
    BY <1>1, <1>7, <2>1
<1>. QED
  BY <1>8, <1>9

\* How the blocks end: with the branch and the jump, with a jump, or with nothing.
LEMMA EndingIs ==
  ASSUME f \in Functions, NEW b \in {Entry, Body}
  PROVE  /\ b = Entry /\ f.branches =>
               Ending(b) = CmpNodes(Cmp, f.cmp.bytes) \o <<Br(Cmp.cc, Join), Rjmp(Body)>>
         /\ ~(b = Entry /\ f.branches) /\ ~f.optimized => Ending(b) = <<Rjmp(b + 1)>>
         /\ ~(b = Entry /\ f.branches) /\ f.optimized => Ending(b) = << >>
BY DEF Ending, JumpToNext

NoPhi(block) == \A i \in 1..Len(block) : block[i].op # "PHI"

LEMMA EndingType ==
  ASSUME f \in Functions, NEW b \in {Entry, Body}, NEW n \in Nat, n >= Res
  PROVE  Ending(b) \in Seq(Instrs(n, 3)) /\ NoPhi(Ending(b))
<1>0. PICK T : T = Instrs(n, 3)
  OBVIOUS
<1>1. CASE b = Entry /\ f.branches
  <2> DEFINE c == CmpNodes(Cmp, f.cmp.bytes)
             x == Br(Cmp.cc, Join)
             y == Rjmp(Body)
  <2>1. IsCompare(Cmp, n)
    BY CmpType
  <2>2. c \in Seq(CompareInstrs(n))
    BY <2>1, CmpNodesType, FunctionFacts
  <2>3. x \in T /\ y \in T /\ x.op # "PHI" /\ y.op # "PHI"
    BY <1>0, <2>1 DEF Br, Rjmp, Instrs, Leavings, IsCompare, Join, Body
  <2>4. CompareInstrs(n) \subseteq T /\ \A z \in CompareInstrs(n) : z.op # "PHI"
    BY <1>0 DEF Instrs, CompareInstrs
  <2>. HIDE DEF c, x, y
  <2>5. c \in Seq(T)
    <3>1. \A A, B : A \subseteq B => Seq(A) \subseteq Seq(B)
      OBVIOUS
    <3>. QED
      BY <2>2, <2>4, <3>1
  <2>6. \A i \in 1..Len(c) : c[i].op # "PHI"
    BY <2>2, <2>4, SeqElements
  <2>7. Ending(b) = WithTwo(c, x, y)
    BY <1>1, EndingIs DEF WithTwo, c, x, y
  <2>8. Ending(b) \in Seq(T) /\ IsTwoMore(Ending(b), c, x, y)
    BY <2>3, <2>5, <2>7, TwoMore
  <2>9. NoPhi(Ending(b))
    <3>1. \A i \in 1..Len(Ending(b)) : i \in 1..Len(c) \/ i = Len(c) + 1 \/ i = Len(c) + 2
      BY <2>5, <2>8 DEF IsTwoMore
    <3>. QED
      BY <2>3, <2>6, <2>8, <3>1 DEF NoPhi, IsTwoMore
  <2>. QED
    BY <1>0, <2>8, <2>9
<1>2. CASE ~(b = Entry /\ f.branches) /\ ~f.optimized
  <2>1. Ending(b) = <<Rjmp(b + 1)>>
    BY <1>2, EndingIs
  <2>2. Rjmp(b + 1) \in T /\ Rjmp(b + 1).op # "PHI"
    BY <1>0 DEF Rjmp, Instrs, Leavings, Entry, Body
  <2>. QED
    BY <1>0, <2>1, <2>2 DEF NoPhi
<1>3. CASE ~(b = Entry /\ f.branches) /\ f.optimized
  <2>1. Ending(b) = << >>
    BY <1>3, EndingIs
  <2>2. << >> \in Seq(T) /\ NoPhi(<< >>)
    BY DEF NoPhi
  <2>. QED
    BY <1>0, <2>1, <2>2
<1>4. f.branches \in BOOLEAN /\ f.optimized \in BOOLEAN
  BY FunctionFacts DEF IsFunction
<1>. QED
  BY <1>1, <1>2, <1>3, <1>4

LEMMA StartBlockType ==
  ASSUME f \in Functions, NEW b \in {Entry, Body}, NEW n, n = Res + NumOps
  PROVE  Ops(b) \o Ending(b) \in Seq(Instrs(n, 3)) /\ NoPhi(Ops(b) \o Ending(b))
<1>0. PICK T : T = Instrs(n, 3)
  OBVIOUS
<1>1. n \in Nat /\ n >= Res
  BY FunctionFacts DEF Res
<1>2. Ending(b) \in Seq(T) /\ NoPhi(Ending(b))
  BY <1>0, <1>1, EndingType
<1>3. Ops(b) \in Seq(OpInstrs(n))
  BY OpsType
<1>4. OpInstrs(n) \subseteq T /\ \A z \in OpInstrs(n) : z.op # "PHI"
  BY <1>0, OpInstrKinds
<1>5. Ops(b) \in Seq(T)
  <2>1. \A A, B : A \subseteq B => Seq(A) \subseteq Seq(B)
    OBVIOUS
  <2>. QED
    BY <1>3, <1>4, <2>1
<1>6. \A i \in 1..Len(Ops(b)) : Ops(b)[i].op # "PHI"
  BY <1>3, <1>4, SeqElements
<1>7. Ops(b) \o Ending(b) \in Seq(T) /\ IsJoined(Ops(b) \o Ending(b), Ops(b), Ending(b))
  BY <1>2, <1>5, JoinedBlocks
<1> DEFINE s == Ops(b)
           t == Ending(b)
           r == s \o t
<1>8. s \in Seq(T) /\ t \in Seq(T) /\ IsJoined(r, s, t)
      /\ (\A i \in 1..Len(s) : s[i].op # "PHI") /\ (\A i \in 1..Len(t) : t[i].op # "PHI")
  BY <1>2, <1>5, <1>6, <1>7 DEF NoPhi
<1> HIDE DEF s, t, r
<1>9. NoPhi(r)
  <2>1. SUFFICES ASSUME NEW i \in 1..Len(r) PROVE r[i].op # "PHI"
    BY DEF NoPhi
  <2>2. Len(s) \in Nat /\ Len(t) \in Nat /\ Len(r) = Len(s) + Len(t)
    BY <1>8, SeqElements DEF IsJoined
  <2>3. CASE i <= Len(s)
    BY <1>8, <2>2, <2>3 DEF IsJoined
  <2>4. CASE i > Len(s)
    <3>1. i - Len(s) \in 1..Len(t) /\ Len(s) + (i - Len(s)) = i
      BY <2>2, <2>4
    <3>2. r[Len(s) + (i - Len(s))] = t[i - Len(s)]
      BY <1>8, <3>1 DEF IsJoined
    <3>. QED
      BY <1>8, <3>1, <3>2
  <2>. QED
    BY <2>2, <2>3, <2>4
<1>. QED
  BY <1>0, <1>7, <1>9 DEF r, s, t

\* The PHI of Join, and the predecessors it is for.
LEMMA JoinPhi ==
  ASSUME f \in Functions, NEW n, n = Res + NumOps
  PROVE  /\ Phi(Res, Incoming) \in Instrs(n, 3) /\ Phi(Res, Incoming).op = "PHI"
         /\ Sources(Phi(Res, Incoming)) = IF f.branches THEN {Entry, Body} ELSE {Body}
<1>1. n \in Nat /\ n >= Res /\ OpReg(Len(f.ops)) \in 1..n /\ Other \in 1..n /\ Res \in 1..n
  <2>1. NumOps \in Nat /\ NumOps \in 0..NumOps
    BY FunctionFacts
  <2>2. OpReg(NumOps) \in 1..n
    BY <2>1, OpRegType
  <2>. QED
    BY <2>1, <2>2 DEF Res, Other, NumOps
<1> DEFINE x == [reg |-> Other, mbb |-> Entry]
           y == [reg |-> OpReg(Len(f.ops)), mbb |-> Body]
<1>2. PICK T : T = [reg : 1..n, mbb : 1..3]
  OBVIOUS
<1>3. x \in T /\ y \in T /\ x.mbb = Entry /\ y.mbb = Body
  BY <1>1, <1>2 DEF Entry, Body
<1>4. Incoming = IF f.branches THEN Append(<<x>>, y) ELSE Append(<< >>, y)
  BY DEF Incoming
<1> HIDE DEF x, y
<1>5. Phi(Res, Incoming) = [op |-> "PHI", d |-> Res, ins |-> Incoming]
  BY DEF Phi
<1>6. CASE f.branches
  <2> DEFINE s == Append(<<x>>, y)
  <2>1. s \in Seq(T) /\ DOMAIN s = 1..2 /\ s[1] = x /\ s[2] = y
    BY <1>3
  <2>2. Incoming = s
    BY <1>4, <1>6
  <2>. HIDE DEF s
  <2>3. Phi(Res, Incoming) \in Phis(n, 3)
    BY <1>1, <1>2, <1>5, <2>1, <2>2 DEF Phis
  <2>4. \A i \in 1..2 : i = 1 \/ i = 2
    OBVIOUS
  <2>5. Sources(Phi(Res, Incoming)) = {Entry, Body}
    <3>1. Sources(Phi(Res, Incoming)) = {s[k].mbb : k \in 1..2}
      BY <1>5, <2>1, <2>2 DEF Sources
    <3>2. 1 \in 1..2 /\ 2 \in 1..2
      OBVIOUS
    <3>. QED
      BY <1>3, <2>1, <2>4, <3>1, <3>2
  <2>. QED
    BY <1>5, <1>6, <2>3, <2>5 DEF Instrs
<1>7. CASE ~f.branches
  <2> DEFINE s == Append(<< >>, y)
  <2>1. s \in Seq(T) /\ DOMAIN s = 1..1 /\ s[1] = y
    BY <1>3
  <2>2. Incoming = s
    BY <1>4, <1>7
  <2>. HIDE DEF s
  <2>3. Phi(Res, Incoming) \in Phis(n, 3)
    BY <1>1, <1>2, <1>5, <2>1, <2>2 DEF Phis
  <2>4. \A i \in 1..1 : i = 1
    OBVIOUS
  <2>5. Sources(Phi(Res, Incoming)) = {Body}
    <3>1. Sources(Phi(Res, Incoming)) = {s[k].mbb : k \in 1..1}
      BY <1>5, <2>1, <2>2 DEF Sources
    <3>2. 1 \in 1..1
      OBVIOUS
    <3>. QED
      BY <1>3, <2>1, <2>4, <3>1, <3>2
  <2>. QED
    BY <1>5, <1>7, <2>3, <2>5 DEF Instrs
<1>. QED
  BY <1>6, <1>7

\* The DAG lowering establishes the invariant.
LEMMA LoweringInit ==
  ASSUME Init
  PROVE  LoweringInv
<1> DEFINE n == Res + NumOps
           x == Ops(Entry) \o Ending(Entry)
           y == Ops(Body) \o Ending(Body)
           phi == Phi(Res, Incoming)
           ret == [op |-> "RET"]
           z == <<phi, ret>>
<1>1. /\ f \in Functions /\ nregs = n
      /\ mbbs = <<x, y, z>>
      /\ succs = <<IF f.branches THEN {Body, Join} ELSE {Body}, {Join}, {}>>
      /\ layout = <<Entry, Body, Join>>
      /\ I = 1 /\ mbbi = 1 /\ phase = "expand" /\ bb = Entry /\ pc = 1 /\ from = Entry
      /\ regs = << >>
      /\ P = [c |-> 0, z |-> 0, s |-> 0, n |-> 0]
  BY DEF Init, NumOps
<1>2. PICK T : T = Instrs(n, 3)
  OBVIOUS
<1>3. x \in Seq(T) /\ NoPhi(x) /\ y \in Seq(T) /\ NoPhi(y)
  BY <1>1, <1>2, StartBlockType
<1>4. phi \in T /\ phi.op = "PHI" /\ Sources(phi) = IF f.branches THEN {Entry, Body} ELSE {Body}
  BY <1>1, <1>2, JoinPhi
<1>5. ret \in T /\ ret.op = "RET"
  BY <1>2 DEF Instrs
<1>6. n \in Nat /\ n >= Res
  BY <1>1, FunctionFacts DEF Res
<1> HIDE DEF n, x, y, phi, ret
<1>7. z \in Seq(T) /\ Len(z) = 2 /\ z[1] = phi /\ z[2] = ret
  BY <1>4, <1>5
<1> HIDE DEF z
<1>8. mbbs \in Seq(Seq(T)) /\ Len(mbbs) = 3 /\ mbbs[1] = x /\ mbbs[2] = y /\ mbbs[3] = z
  BY <1>1, <1>3, <1>7
<1>9. MachineCode(mbbs, nregs, 3)
  BY <1>1, <1>2, <1>8 DEF MachineCode
<1>10. /\ succs \in Seq(SUBSET (1..3)) /\ Len(succs) = 3
       /\ succs[1] = (IF f.branches THEN {2, 3} ELSE {2}) /\ succs[2] = {3} /\ succs[3] = {}
  BY <1>1 DEF Body, Join
<1>11. \A i \in 1..3 : i = 1 \/ i = 2 \/ i = 3
  OBVIOUS
<1>12. Preds(succs, 3) = IF f.branches THEN {1, 2} ELSE {2}
  <2>1. DOMAIN succs = 1..3
    BY <1>10
  <2>. QED
    BY <1>10, <1>11, <2>1 DEF Preds
<1>13. PhisLead(z) /\ Matched(z, Preds(succs, 3))
  <2>1. \A i \in 1..2 : i = 1 \/ i = 2
    OBVIOUS
  <2>2. \A i \in 1..Len(z) : z[i].op = "PHI" => i = 1
    BY <1>5, <1>7, <2>1
  <2>3. PhisLead(z)
    <3>1. \A j \in 1..1 : j = 1
      OBVIOUS
    <3>. QED
      BY <1>4, <1>7, <2>2, <3>1 DEF PhisLead
  <2>4. Sources(phi) = Preds(succs, 3)
    BY <1>4, <1>12 DEF Entry, Body
  <2>5. Matched(z, Preds(succs, 3))
    BY <1>7, <2>2, <2>4 DEF Matched
  <2>. QED
    BY <2>3, <2>5
<1>14. \A s : NoPhi(s) => PhisLead(s) /\ \A ps : Matched(s, ps)
  BY DEF NoPhi, PhisLead, Matched
<1>15. \A b \in 1..3 : PhisLead(mbbs[b]) /\ Matched(mbbs[b], Preds(succs, b))
  BY <1>3, <1>8, <1>11, <1>13, <1>14
<1>16. GraphOK(mbbs, succs, nregs, Len(mbbs))
  BY <1>1, <1>6, <1>8, <1>9, <1>10, <1>15 DEF GraphOK
<1>17. LayoutOK(layout, 3)
  <2>1. layout = <<1, 2, 3>>
    BY <1>1 DEF Entry, Body, Join
  <2>2. layout \in Seq(1..3) /\ Len(layout) = 3 /\ layout[1] = 1 /\ layout[2] = 2 /\ layout[3] = 3
    BY <2>1
  <2>3. \A b \in 1..3 : \E i \in 1..3 : layout[i] = b
    BY <1>11, <2>2
  <2>4. \A i, j \in 1..3 : layout[i] = layout[j] => i = j
    BY <1>11, <2>2
  <2>. QED
    BY <2>2, <2>3, <2>4 DEF LayoutOK, Entry, Join
<1>18. JoinOK(mbbs)
  BY <1>4, <1>5, <1>7, <1>8 DEF JoinOK, Join
<1>19. CompilerInv
  BY <1>1, <1>6, <1>8, <1>16, <1>17, <1>18 DEF CompilerInv
<1>20. P \in FlagsType
  BY <1>1 DEF FlagsType
<1>21. ProcessorInv
  BY <1>1, <1>8, <1>20 DEF ProcessorInv, Entry, Join
<1>. QED
  BY <1>19, <1>21 DEF LoweringInv

LEMMA LoweringIsInv == Spec => []LoweringInv
<1>1. Init => LoweringInv
  BY LoweringInit
<1>2. LoweringInv /\ [Next]_vars => LoweringInv'
  BY LoweringStep
<1>. QED
  BY <1>1, <1>2, PTL DEF Spec

----------------------------------------------------------------------------
(***************************************************************************)
(* The properties the invariant implies.                                    *)
(***************************************************************************)
\* The conditions LoweringTypeOK makes of every instruction.
LEMMA InstrTypeOK ==
  ASSUME NEW n \in Nat, NEW N \in Nat, NEW instr \in Instrs(n, N)
  PROVE  /\ instr.op \in Opcodes
         /\ RegsOf(instr) \subseteq 1..n
         /\ instr.op \in {"BR", "RJMPk"} => instr.to \in 1..N
<1>1. CASE instr.op = "PHI"
  <2>1. instr.d \in 1..n /\ instr.ins \in Seq([reg : 1..n, mbb : 1..N])
    BY <1>1, InstrKinds DEF Phis
  <2>2. \A i \in DOMAIN instr.ins : instr.ins[i] \in [reg : 1..n, mbb : 1..N]
    BY <2>1, SeqElements
  <2>3. \A i \in DOMAIN instr.ins : instr.ins[i].reg \in 1..n
    BY <2>2
  <2>4. RegsOf(instr) = {instr.d} \cup {instr.ins[i].reg : i \in DOMAIN instr.ins}
    BY <1>1 DEF RegsOf
  <2>. QED
    BY <1>1, <2>1, <2>3, <2>4, InstrKinds
<1>2. CASE instr.op \in {"CMP", "CMPC", "TST"}
  <2>1. instr.a.reg \in 0..n /\ instr.b.reg \in 0..n
    BY <1>2, InstrKinds DEF CompareInstrs, Operands
  <2>2. RegsOf(instr) = {instr.a.reg, instr.b.reg} \ {0}
    BY <1>2 DEF RegsOf
  <2>. QED
    BY <1>2, <2>1, <2>2, InstrKinds
<1>3. CASE instr.op \in {"SHIFT", "SUBI", "CPI"}
  <2>1. instr \in Computations(n)
    BY <1>3, InstrKinds
  <2>2. instr.d \in 1..n /\ (instr.op # "CPI" => instr.s \in 1..n)
    BY <2>1 DEF Computations
  <2>3. RegsOf(instr) = IF instr.op = "CPI" THEN {instr.d} ELSE {instr.d, instr.s}
    BY <1>3 DEF RegsOf
  <2>. QED
    BY <1>3, <2>2, <2>3, InstrKinds
<1>4. CASE instr.op \in {"BR", "RJMPk"}
  <2>1. instr.to \in 1..N
    BY <1>4, InstrKinds DEF Leavings
  <2>2. RegsOf(instr) = {}
    BY <1>4 DEF RegsOf
  <2>. QED
    BY <2>1, <2>2, InstrKinds
<1>5. CASE instr.op = "ShiftLoop"
  <2>1. instr.d \in 1..n /\ instr.s \in 1..n /\ instr.n \in 1..n
    BY <1>5, InstrKinds DEF Loops
  <2>. QED
    BY <1>5, <2>1, InstrKinds DEF RegsOf
<1>6. CASE instr.op = "Select"
  <2>1. instr.d \in 1..n /\ instr.t \in 1..n /\ instr.f \in 1..n
    BY <1>6, InstrKinds DEF Selects
  <2>. QED
    BY <1>6, <2>1, InstrKinds DEF RegsOf
<1>7. CASE instr.op = "RET"
  BY <1>7, InstrKinds DEF RegsOf
<1>. QED
  BY <1>1, <1>2, <1>3, <1>4, <1>5, <1>6, <1>7, InstrKinds DEF Opcodes, Pseudos

LEMMA InvTypeOK ==
  ASSUME LoweringInv
  PROVE  LoweringTypeOK
<1> DEFINE N == Len(mbbs)
<1>1. CompilerInv /\ ProcessorInv
  BY DEF LoweringInv
<1>2. /\ N \in Nat /\ nregs \in Nat /\ LayoutOK(layout, N) /\ I \in 1..N /\ mbbi \in Nat
      /\ succs \in Seq(SUBSET (1..N)) /\ Len(succs) = N
  BY <1>1, CompilerFacts DEF CompilerInv, GraphOK
<1>3. /\ layout \in Seq(1..N) /\ Len(layout) = N
      /\ \A x \in 1..N : \E i \in 1..N : layout[i] = x
  BY <1>2 DEF LayoutOK
<1>4. ToSet(layout) = 1..N
  <2>1. DOMAIN layout = 1..N /\ \A i \in 1..N : layout[i] \in 1..N
    BY <1>2, <1>3, SeqElements
  <2>. QED
    BY <1>3, <2>1 DEF ToSet
<1>5. ASSUME NEW b \in 1..N, NEW i \in DOMAIN mbbs[b]
      PROVE  /\ mbbs[b][i].op \in Opcodes
             /\ RegsOf(mbbs[b][i]) \subseteq 1..nregs
             /\ mbbs[b][i].op \in {"BR", "RJMPk"} => mbbs[b][i].to \in 1..N
  <2>1. mbbs[b] \in Seq(Instrs(nregs, N))
    BY <1>1, CompilerFacts
  <2>2. mbbs[b][i] \in Instrs(nregs, N)
    BY <2>1, SeqElements
  <2>. QED
    BY <1>2, <2>2, InstrTypeOK, Zenon
<1>6. /\ phase \in {"expand", "run", "done", "stuck"}
      /\ bb \in 1..N /\ from \in 1..N /\ pc \in Nat
      /\ P \in [c : {0, 1}, z : {0, 1}, s : {0, 1}, n : {0, 1}]
  BY <1>1 DEF ProcessorInv, FlagsType
<1>7. DOMAIN regs = (IF phase = "expand" THEN {} ELSE 1..nregs) /\ \A r \in DOMAIN regs : regs[r] \in Nat
  <2>1. CASE phase = "expand"
    <3>1. regs = << >>
      BY <1>1, <2>1 DEF ProcessorInv
    <3>. QED
      BY <2>1, <3>1
  <2>2. CASE phase # "expand"
    <3>1. regs \in [1..nregs -> Nat]
      BY <1>1, <2>2 DEF ProcessorInv
    <3>. QED
      BY <2>2, <3>1
  <2>. QED
    BY <2>1, <2>2
<1>. QED
  BY <1>2, <1>3, <1>4, <1>5, <1>6, <1>7 DEF LoweringTypeOK

\* The types are never left, whatever functions are lowered.
THEOREM LoweringTypes == Spec => []LoweringTypeOK
BY LoweringIsInv, InvTypeOK, PTL

LEMMA InvPhisMatch ==
  ASSUME LoweringInv
  PROVE  PhisMatchPredecessors
<1>1. CompilerInv
  BY DEF LoweringInv
<1>2. \A b \in 1..Len(mbbs) : Matched(mbbs[b], Preds(succs, b))
  BY <1>1 DEF CompilerInv, GraphOK
<1>3. DOMAIN mbbs = 1..Len(mbbs) /\ \A b \in 1..Len(mbbs) : DOMAIN mbbs[b] = 1..Len(mbbs[b])
  <2>1. mbbs \in Seq(Seq(Instrs(nregs, Len(mbbs))))
    BY <1>1, CompilerFacts DEF MachineCode
  <2>2. DOMAIN mbbs = 1..Len(mbbs)
    BY <2>1, SeqElements
  <2>. QED
    BY <1>1, <2>2, CompilerFacts, SeqElements
<1>. QED
  BY <1>2, <1>3 DEF PhisMatchPredecessors, Matched, Sources, Preds

\* At every step of the pass each PHI has a value for exactly the predecessors
\* of its block, in whatever order the pseudos stand and however many.
THEOREM PhisMatch == Spec => []PhisMatchPredecessors
BY LoweringIsInv, InvPhisMatch, PTL

----------------------------------------------------------------------------
(***************************************************************************)
(* Where control goes: what a block leaves for, and what a split changes.   *)
(***************************************************************************)
LeavesTo(block) == {block[i].to : i \in {i \in DOMAIN block : block[i].op \in {"BR", "RJMPk"}}}
FallsOff(block) == ~(block # << >> /\ Last(block).op \in {"RJMPk", "RET"})
NextIn(lay, b) == lay[PlaceIn(lay, b) + 1]
ExitsOf(block, lay, b) == LeavesTo(block) \cup (IF FallsOff(block) THEN {NextIn(lay, b)} ELSE {})

NoPseudo(block) == \A i \in 1..Len(block) : block[i].op \notin Pseudos

\* Nothing in front of a pseudo leaves the block.
EndsLeave(block) ==
  \A i \in 1..Len(block) : \A j \in 1..i :
     block[i].op \in Pseudos => block[j].op \notin {"BR", "RJMPk", "RET"}

\* The same block but for its PHIs.
SameFlow(block2, block) ==
  /\ Len(block2) = Len(block)
  /\ \A i \in 1..Len(block) :
        block2[i].op = block[i].op /\ (block[i].op # "PHI" => block2[i] = block[i])

IsBlock(block) == Len(block) \in Nat /\ DOMAIN block = 1..Len(block) /\ (block = << >> <=> Len(block) = 0)

LEMMA BlockFacts ==
  ASSUME NEW T, NEW block \in Seq(T)
  PROVE  IsBlock(block)
BY DEF IsBlock

\* Renaming the blocks of PHIs changes nothing about leaving.
LEMMA SameFlowKeeps ==
  ASSUME NEW block, NEW block2, IsBlock(block), IsBlock(block2), SameFlow(block2, block)
  PROVE  /\ LeavesTo(block2) = LeavesTo(block)
         /\ FallsOff(block2) <=> FallsOff(block)
         /\ NoPseudo(block2) <=> NoPseudo(block)
         /\ EndsLeave(block2) <=> EndsLeave(block)
<1>1. /\ Len(block) \in Nat /\ DOMAIN block = 1..Len(block) /\ DOMAIN block2 = 1..Len(block)
      /\ Len(block2) = Len(block)
      /\ (block = << >> <=> Len(block) = 0) /\ (block2 = << >> <=> Len(block) = 0)
      /\ \A i \in 1..Len(block) :
            block2[i].op = block[i].op /\ (block[i].op # "PHI" => block2[i] = block[i])
  BY DEF IsBlock, SameFlow
<1>2. LeavesTo(block2) = LeavesTo(block)
  <2>1. \A i \in 1..Len(block) : block[i].op \in {"BR", "RJMPk"} => block2[i].to = block[i].to
    BY <1>1
  <2>2. {i \in DOMAIN block2 : block2[i].op \in {"BR", "RJMPk"}}
          = {i \in DOMAIN block : block[i].op \in {"BR", "RJMPk"}}
    BY <1>1
  <2>. QED
    BY <1>1, <2>1, <2>2 DEF LeavesTo
<1>3. FallsOff(block2) <=> FallsOff(block)
  <2>1. CASE Len(block) = 0
    BY <1>1, <2>1 DEF FallsOff
  <2>2. CASE Len(block) # 0
    <3>1. Len(block) \in 1..Len(block)
      BY <1>1, <2>2
    <3>2. block2[Len(block2)].op = block[Len(block)].op
      BY <1>1, <3>1
    <3>. QED
      BY <1>1, <2>2, <3>2 DEF FallsOff, Last
  <2>. QED
    BY <2>1, <2>2
<1>4. NoPseudo(block2) <=> NoPseudo(block)
  BY <1>1 DEF NoPseudo
<1>5. EndsLeave(block2) <=> EndsLeave(block)
  <2>1. \A i \in 1..Len(block) : \A j \in 1..i : j \in 1..Len(block)
    BY <1>1
  <2>. QED
    BY <1>1, <2>1 DEF EndsLeave
<1>. QED
  BY <1>2, <1>3, <1>4, <1>5

\* What is left of a block split at its first pseudo leaves as the ends do.
IsHeadFlow(h, block, k, ends) ==
  /\ Len(h) = k - 1 + Len(ends)
  /\ \A i \in 1..(k - 1) : h[i].op = block[i].op /\ (block[i].op # "PHI" => h[i] = block[i])
  /\ \A i \in 1..Len(ends) : h[k - 1 + i] = ends[i]

\* The head of a block split at its first pseudo leaves as the ends do.
LEMMA HeadFlow ==
  ASSUME NEW block, NEW h, NEW ends, IsBlock(block), IsBlock(h), IsBlock(ends),
         NEW k \in 1..Len(block), IsHeadFlow(h, block, k, ends), Len(ends) > 0,
         block[k].op \in Pseudos, \A j \in 1..(k - 1) : block[j].op \notin Pseudos,
         EndsLeave(block), NoPseudo(ends)
  PROVE  /\ NoPseudo(h)
         /\ LeavesTo(h) = LeavesTo(ends)
         /\ FallsOff(h) <=> FallsOff(ends)
<1>1. /\ Len(block) \in Nat /\ Len(ends) \in Nat /\ Len(ends) > 0 /\ k \in Nat /\ k - 1 \in Nat
      /\ DOMAIN h = 1..Len(h) /\ DOMAIN ends = 1..Len(ends) /\ h # << >> /\ ends # << >>
      /\ Len(h) = (k - 1) + Len(ends)
  BY DEF IsBlock, IsHeadFlow
<1>2. \A i \in 1..Len(ends) : h[(k - 1) + i] = ends[i]
  BY DEF IsHeadFlow
<1>3. \A i \in 1..(k - 1) : h[i].op \notin Pseudos /\ h[i].op \notin {"BR", "RJMPk", "RET"}
  <2> TAKE i \in 1..(k - 1)
  <2>1. i \in 1..k /\ h[i].op = block[i].op
    BY <1>1 DEF IsHeadFlow
  <2>. QED
    BY <2>1 DEF EndsLeave
<1>4. \A i \in 1..Len(h) :
         \/ i \in 1..(k - 1)
         \/ i - (k - 1) \in 1..Len(ends) /\ h[i] = ends[i - (k - 1)]
  <2> TAKE i \in 1..Len(h)
  <2>1. CASE i > k - 1
    <3>1. i - (k - 1) \in 1..Len(ends) /\ (k - 1) + (i - (k - 1)) = i
      BY <1>1, <2>1
    <3>2. h[(k - 1) + (i - (k - 1))] = ends[i - (k - 1)]
      BY <1>2, <3>1
    <3>. QED
      BY <3>1, <3>2
  <2>. QED
    BY <1>1, <2>1
<1>5. \A j \in 1..Len(ends) : (k - 1) + j \in 1..Len(h)
  BY <1>1
<1>6. NoPseudo(h)
  BY <1>3, <1>4 DEF NoPseudo
<1>7. LeavesTo(h) = LeavesTo(ends)
  <2>1. ASSUME NEW t \in LeavesTo(h)
        PROVE  t \in LeavesTo(ends)
    <3>1. PICK i \in 1..Len(h) : h[i].op \in {"BR", "RJMPk"} /\ t = h[i].to
      BY <1>1 DEF LeavesTo
    <3>2. i - (k - 1) \in 1..Len(ends) /\ h[i] = ends[i - (k - 1)]
      BY <1>3, <1>4, <3>1
    <3>. QED
      BY <1>1, <3>1, <3>2 DEF LeavesTo
  <2>2. ASSUME NEW t \in LeavesTo(ends)
        PROVE  t \in LeavesTo(h)
    <3>1. PICK j \in 1..Len(ends) : ends[j].op \in {"BR", "RJMPk"} /\ t = ends[j].to
      BY <1>1 DEF LeavesTo
    <3>2. (k - 1) + j \in 1..Len(h) /\ h[(k - 1) + j] = ends[j]
      BY <1>2, <1>5
    <3>. QED
      BY <1>1, <3>1, <3>2 DEF LeavesTo
  <2>. QED
    BY <2>1, <2>2
<1>8. FallsOff(h) <=> FallsOff(ends)
  <2>1. Len(ends) \in 1..Len(ends)
    BY <1>1
  <2>2. h[Len(h)] = ends[Len(ends)]
    BY <1>1, <1>2, <2>1
  <2>. QED
    BY <1>1, <2>2 DEF FallsOff, Last
<1>. QED
  BY <1>6, <1>7, <1>8

\* The rest of a block split at its first pseudo leaves as the block did.
LEMMA RestFlow ==
  ASSUME NEW block, NEW r, IsBlock(block), IsBlock(r),
         NEW k \in 1..Len(block), NEW phi, IsRest(r, block, k, phi), phi.op = "PHI",
         block[k].op \in Pseudos, EndsLeave(block)
  PROVE  /\ LeavesTo(r) = LeavesTo(block)
         /\ FallsOff(r) <=> FallsOff(block)
         /\ EndsLeave(r)
<1>1. /\ Len(block) \in Nat /\ k \in Nat /\ k >= 1 /\ k <= Len(block) /\ Len(r) = Len(block) - k + 1
      /\ DOMAIN r = 1..Len(r) /\ DOMAIN block = 1..Len(block) /\ r # << >> /\ block # << >>
      /\ r[1] = phi
  BY DEF IsBlock, IsRest
<1>2. \A i \in 1..(Len(block) - k) : r[i + 1] = block[k + i]
  BY DEF IsRest
<1>3. \A i \in 1..k : block[i].op \notin {"BR", "RJMPk", "RET"}
  BY DEF EndsLeave
<1>4. \A i \in 1..Len(r) : i # 1 =>
         k + (i - 1) \in 1..Len(block) /\ k + (i - 1) > k /\ r[i] = block[k + (i - 1)]
  <2> TAKE i \in 1..Len(r)
  <2>1. CASE i # 1
    <3>1. i - 1 \in 1..(Len(block) - k) /\ (i - 1) + 1 = i
      BY <1>1, <2>1
    <3>2. r[(i - 1) + 1] = block[k + (i - 1)]
      BY <1>2, <3>1
    <3>. QED
      BY <1>1, <3>1, <3>2
  <2>. QED
    BY <2>1
<1>5. \A i \in 1..Len(block) : i > k => (i - k) + 1 \in 1..Len(r) /\ r[(i - k) + 1] = block[i]
  <2> TAKE i \in 1..Len(block)
  <2>1. CASE i > k
    <3>1. i - k \in 1..(Len(block) - k) /\ k + (i - k) = i /\ (i - k) + 1 \in 1..Len(r)
      BY <1>1, <2>1
    <3>2. r[(i - k) + 1] = block[k + (i - k)]
      BY <1>2, <3>1
    <3>. QED
      BY <3>1, <3>2
  <2>. QED
    BY <2>1
<1>6. LeavesTo(r) = LeavesTo(block)
  <2>1. ASSUME NEW t \in LeavesTo(r)
        PROVE  t \in LeavesTo(block)
    <3>1. PICK i \in 1..Len(r) : r[i].op \in {"BR", "RJMPk"} /\ t = r[i].to
      BY <1>1 DEF LeavesTo
    <3>2. i # 1
      BY <1>1, <3>1
    <3>3. k + (i - 1) \in 1..Len(block) /\ r[i] = block[k + (i - 1)]
      BY <1>4, <3>2
    <3>. QED
      BY <1>1, <3>1, <3>3 DEF LeavesTo
  <2>2. ASSUME NEW t \in LeavesTo(block)
        PROVE  t \in LeavesTo(r)
    <3>1. PICK i \in 1..Len(block) : block[i].op \in {"BR", "RJMPk"} /\ t = block[i].to
      BY <1>1 DEF LeavesTo
    <3>2. i > k
      BY <1>1, <1>3, <3>1
    <3>3. (i - k) + 1 \in 1..Len(r) /\ r[(i - k) + 1] = block[i]
      BY <1>5, <3>2
    <3>. QED
      BY <1>1, <3>1, <3>3 DEF LeavesTo
  <2>. QED
    BY <2>1, <2>2
<1>7. FallsOff(r) <=> FallsOff(block)
  <2>1. CASE Len(block) = k
    <3>1. Len(r) = 1 /\ k \in 1..k
      BY <1>1, <2>1
    <3>2. block[Len(block)].op \notin {"RJMPk", "RET"}
      BY <1>3, <2>1, <3>1
    <3>. QED
      BY <1>1, <3>1, <3>2 DEF FallsOff, Last
  <2>2. CASE Len(block) # k
    <3>1. Len(block) \in 1..Len(block) /\ Len(block) > k /\ (Len(block) - k) + 1 = Len(r)
      <4>1. \A l, m \in Nat : m >= 1 /\ m <= l /\ l # m => l \in 1..l /\ l > m /\ (l - m) + 1 = l - m + 1
        OBVIOUS
      <4>. QED
        BY <1>1, <2>2, <4>1
    <3>2. r[Len(r)] = block[Len(block)]
      BY <1>5, <3>1
    <3>. QED
      BY <1>1, <3>2 DEF FallsOff, Last
  <2>. QED
    BY <2>1, <2>2
<1>8. EndsLeave(r)
  <2>1. SUFFICES ASSUME NEW i \in 1..Len(r), NEW j \in 1..i, r[i].op \in Pseudos
                 PROVE  r[j].op \notin {"BR", "RJMPk", "RET"}
    BY DEF EndsLeave
  <2>2. i # 1
    BY <1>1, <2>1 DEF Pseudos
  <2>3. k + (i - 1) \in 1..Len(block) /\ block[k + (i - 1)].op \in Pseudos
    BY <1>4, <2>1, <2>2
  <2>4. CASE j = 1
    BY <1>1, <2>4
  <2>5. CASE j # 1
    <3>1. j \in 1..Len(r) /\ k + (j - 1) \in 1..(k + (i - 1))
      BY <1>1, <2>5
    <3>2. r[j] = block[k + (j - 1)]
      BY <1>4, <2>5, <3>1
    <3>. QED
      BY <2>3, <3>1, <3>2 DEF EndsLeave
  <2>. QED
    BY <2>4, <2>5
<1>. QED
  BY <1>6, <1>7, <1>8

\* Where control goes after a split of block b at its first pseudo.
FlowOfSplit(code, succ, code2, succ2, N, b, k, to, other, ends, phi, extra, back) ==
  /\ \A x \in 1..N : x # b => SameFlow(code2[x], code[x]) /\ succ2[x] = succ[x]
  /\ NoPseudo(code2[b]) /\ LeavesTo(code2[b]) = LeavesTo(ends) /\ (FallsOff(code2[b]) <=> FallsOff(ends))
  /\ succ2[b] = {to, other}
  /\ IsRest(code2[to], code[b], k, phi)
  /\ LeavesTo(code2[to]) = LeavesTo(code[b]) /\ (FallsOff(code2[to]) <=> FallsOff(code[b]))
  /\ EndsLeave(code2[to]) /\ succ2[to] = succ[b]
  /\ code2[other] = extra /\ NoPseudo(extra) /\ succ2[other] = back

AllEndLeave(code, N) == \A x \in 1..N : EndsLeave(code[x])

\* The ends and the loop or the false block are neither empty nor to be expanded.
PlainParts(ends, phi, extra) ==
  Len(ends) > 0 /\ NoPseudo(ends) /\ phi.op = "PHI" /\ NoPseudo(extra)

AtFirstPseudo(block, k) == block[k].op \in Pseudos /\ \A j \in 1..(k - 1) : block[j].op \notin Pseudos

LEMMA NoPseudoEndsLeave ==
  ASSUME NEW block, NoPseudo(block)
  PROVE  EndsLeave(block)
BY DEF NoPseudo, EndsLeave

\* What a split does to every block it is about.
LEMMA SplitFlows ==
  ASSUME NEW n, NEW n2, NEW code, NEW N, NEW succ, NEW b, NEW k, NEW to, NEW other, NEW ends,
         NEW phi, NEW extra, NEW back,
         Splittable(code, succ, n, n2, N, b, k, to, other, ends, phi, extra, back),
         AllEndLeave(code, N), AtFirstPseudo(code[b], k), PlainParts(ends, phi, extra),
         NEW code2, NEW succ2, MachineCode(code2, n2, N + 2),
         SplitOf(code, succ, code2, succ2, b, k, to, other, ends, phi, extra, back)
  PROVE  /\ FlowOfSplit(code, succ, code2, succ2, N, b, k, to, other, ends, phi, extra, back)
         /\ AllEndLeave(code2, N + 2)
<1>1. /\ n \in Nat /\ N \in Nat /\ b \in 1..N /\ k \in 1..Len(code[b])
      /\ (to = N + 1 /\ other = N + 2) \/ (to = N + 2 /\ other = N + 1)
      /\ MachineCode(code, n, N) /\ Len(code) = N
      /\ IsBlock(ends)
  BY BlockFacts DEF Splittable, MachineCode
<1>2. \A x \in 1..N : IsBlock(code[x]) /\ \A i \in 1..Len(code[x]) : code[x][i] \in Instrs(n, N)
  <2> TAKE x \in 1..N
  <2>1. code[x] \in Seq(Instrs(n, N))
    BY <1>1, SeqElements DEF MachineCode
  <2>. QED
    BY <2>1, BlockFacts, SeqElements
<1>3. \A x \in 1..(N + 2) : IsBlock(code2[x])
  <2> TAKE x \in 1..(N + 2)
  <2>1. code2[x] \in Seq(Instrs(n2, N + 2))
    BY SeqElements DEF MachineCode
  <2>. QED
    BY <2>1, BlockFacts
<1>4. b \in 1..(N + 2) /\ to \in 1..(N + 2) /\ other \in 1..(N + 2)
      /\ \A x \in 1..(N + 2) : x \in 1..N \/ x = to \/ x = other
  <2>1. /\ N \in Nat /\ b \in 1..N
        /\ (to = N + 1 /\ other = N + 2) \/ (to = N + 2 /\ other = N + 1)
    BY <1>1
  <2>. QED
    BY <2>1
<1>5. \A x \in 1..N : \A i \in 1..Len(code[x]) :
         /\ Renamed(code[x][i], b, to).op = code[x][i].op
         /\ code[x][i].op # "PHI" => Renamed(code[x][i], b, to) = code[x][i]
  <2> TAKE x \in 1..N
  <2> TAKE i \in 1..Len(code[x])
  <2>1. code[x][i] \in Instrs(n, N)
    BY <1>2
  <2>2. Renamed(code[x][i], b, to).op = code[x][i].op
    BY <1>1, <2>1, RenamedOp
  <2>. QED
    BY <2>2 DEF Renamed
<1>6. ASSUME NEW x \in 1..N, x # b
      PROVE  SameFlow(code2[x], code[x]) /\ succ2[x] = succ[x] /\ EndsLeave(code2[x])
  <2>1. /\ Len(code2[x]) = Len(code[x]) /\ succ2[x] = succ[x]
        /\ \A i \in 1..Len(code[x]) : code2[x][i] =
              IF x \in succ[b] THEN Renamed(code[x][i], b, to) ELSE code[x][i]
    BY <1>1, <1>6 DEF SplitOf
  <2>2. SameFlow(code2[x], code[x])
    BY <1>5, <2>1 DEF SameFlow
  <2>3. x \in 1..(N + 2)
    BY <1>1
  <2>4. EndsLeave(code2[x])
    BY <1>2, <1>3, <2>2, <2>3, SameFlowKeeps DEF AllEndLeave
  <2>. QED
    BY <2>1, <2>2, <2>4
<1>7. /\ NoPseudo(code2[b]) /\ LeavesTo(code2[b]) = LeavesTo(ends)
      /\ (FallsOff(code2[b]) <=> FallsOff(ends))
  <2>1. /\ Len(code2[b]) = k - 1 + Len(ends)
        /\ \A i \in 1..(k - 1) : code2[b][i] =
              IF b \in succ[b] THEN Renamed(code[b][i], b, to) ELSE code[b][i]
        /\ \A i \in 1..Len(ends) : code2[b][k - 1 + i] = ends[i]
    BY DEF SplitOf
  <2>2. \A i \in 1..(k - 1) : i \in 1..Len(code[b])
    BY <1>1, <1>2 DEF IsBlock
  <2>3. IsHeadFlow(code2[b], code[b], k, ends)
    BY <1>1, <1>5, <2>1, <2>2 DEF IsHeadFlow
  <2>4. IsBlock(code[b]) /\ IsBlock(code2[b]) /\ EndsLeave(code[b])
    BY <1>1, <1>2, <1>3, <1>4 DEF AllEndLeave
  <2>. QED
    BY <1>1, <2>3, <2>4, HeadFlow DEF PlainParts, AtFirstPseudo
<1>8. /\ IsRest(code2[to], code[b], k, phi)
      /\ LeavesTo(code2[to]) = LeavesTo(code[b]) /\ (FallsOff(code2[to]) <=> FallsOff(code[b]))
      /\ EndsLeave(code2[to])
  <2>1. IsRest(code2[to], code[b], k, phi)
    BY DEF SplitOf, IsRest
  <2>2. IsBlock(code[b]) /\ IsBlock(code2[to]) /\ EndsLeave(code[b])
    BY <1>1, <1>2, <1>3, <1>4 DEF AllEndLeave
  <2>. QED
    BY <1>1, <2>1, <2>2, RestFlow DEF PlainParts, AtFirstPseudo
<1>9. succ2[b] = {to, other} /\ succ2[to] = succ[b] /\ succ2[other] = back /\ code2[other] = extra
  BY DEF SplitOf
<1>10. NoPseudo(extra)
  BY DEF PlainParts
<1>11. FlowOfSplit(code, succ, code2, succ2, N, b, k, to, other, ends, phi, extra, back)
  BY <1>6, <1>7, <1>8, <1>9, <1>10 DEF FlowOfSplit
<1>12. AllEndLeave(code2, N + 2)
  <2>1. SUFFICES ASSUME NEW x \in 1..(N + 2) PROVE EndsLeave(code2[x])
    BY DEF AllEndLeave
  <2>2. CASE x = b
    BY <1>7, <2>2, NoPseudoEndsLeave
  <2>3. CASE x = to
    BY <1>8, <2>3
  <2>4. CASE x = other
    BY <1>9, <1>10, <2>4, NoPseudoEndsLeave
  <2>5. CASE x \in 1..N /\ x # b
    BY <1>6, <2>5
  <2>. QED
    BY <1>4, <2>2, <2>3, <2>4, <2>5
<1>. QED
  BY <1>11, <1>12

\* Where a block falls through to, when two are put behind the p-th.
NextMoved(lay, lay2, N, p) ==
  /\ \A b \in 1..N : b # Join /\ b # lay[p] =>
        NextIn(lay2, b) = NextIn(lay, b) /\ NextIn(lay, b) \in 1..N
  /\ NextIn(lay2, lay[p]) = N + 1
  /\ NextIn(lay2, N + 1) = N + 2
  /\ NextIn(lay2, N + 2) = NextIn(lay, lay[p])
  /\ PlaceIn(lay2, lay[p]) = p /\ PlaceIn(lay2, N + 1) = p + 1 /\ PlaceIn(lay2, N + 2) = p + 2

InsertedAt(lay, lay2, N, p) ==
  /\ p \in 1..(N - 1) /\ LayoutOK(lay, N) /\ LayoutOK(lay2, N + 2)
  /\ LayoutWith(lay, lay2, p, N + 1, N + 2, N)

\* Only the block in front of the new ones falls through to another.
LEMMA NextAfterInsert ==
  ASSUME NEW lay, NEW lay2, NEW N, NEW p, InsertedAt(lay, lay2, N, p)
  PROVE  NextMoved(lay, lay2, N, p)
<1>0. /\ p \in 1..(N - 1) /\ LayoutOK(lay, N) /\ LayoutOK(lay2, N + 2)
      /\ LayoutWith(lay, lay2, p, N + 1, N + 2, N)
  BY DEF InsertedAt
<1>1. /\ N \in Nat /\ Len(lay) = N /\ lay[N] = Join
      /\ \A x \in 1..N : \E i \in 1..N : lay[i] = x
      /\ \A i \in 1..N : lay[i] \in 1..N
  BY <1>0, SeqElements DEF LayoutOK
<1>2. /\ \A i \in 1..p : lay2[i] = lay[i]
      /\ lay2[p + 1] = N + 1 /\ lay2[p + 2] = N + 2
      /\ \A i \in (p + 1)..N : lay2[i + 2] = lay[i]
  BY <1>0 DEF LayoutWith
<1>3. p \in 1..N /\ p \in 1..(N + 2) /\ p + 1 \in 1..(N + 2) /\ p + 2 \in 1..(N + 2)
      /\ p + 1 \in (p + 1)..N /\ p \in 1..p /\ (p + 1) + 1 = p + 2 /\ (p + 2) + 1 = (p + 1) + 2
  BY <1>0, <1>1
<1>4. PlaceIn(lay2, lay[p]) = p /\ PlaceIn(lay2, N + 1) = p + 1 /\ PlaceIn(lay2, N + 2) = p + 2
      /\ PlaceIn(lay, lay[p]) = p
  <2>1. PlaceIn(lay2, lay2[p]) = p /\ PlaceIn(lay2, lay2[p + 1]) = p + 1
        /\ PlaceIn(lay2, lay2[p + 2]) = p + 2
    BY <1>0, <1>3, PlaceOf
  <2>2. PlaceIn(lay, lay[p]) = p
    BY <1>0, <1>3, PlaceOf
  <2>. QED
    BY <1>2, <1>3, <2>1, <2>2
<1>5. /\ NextIn(lay2, lay[p]) = N + 1 /\ NextIn(lay2, N + 1) = N + 2
      /\ NextIn(lay2, N + 2) = NextIn(lay, lay[p])
  BY <1>2, <1>3, <1>4 DEF NextIn
<1>6. ASSUME NEW b \in 1..N, b # Join, b # lay[p]
      PROVE  NextIn(lay2, b) = NextIn(lay, b) /\ NextIn(lay, b) \in 1..N
  <2>1. PICK i \in 1..N : lay[i] = b
    BY <1>1
  <2>2. i # N /\ i # p
    BY <1>1, <1>6, <2>1
  <2>3. i + 1 \in 1..N /\ (i < p \/ i > p)
    BY <1>0, <1>1, <2>2
  <2>4. PlaceIn(lay, b) = i
    BY <1>0, <2>1, PlaceOf
  <2>5. CASE i < p
    <3>1. i \in 1..p /\ i + 1 \in 1..p /\ i \in 1..(N + 2)
      BY <1>0, <1>1, <2>5
    <3>2. lay2[i] = b /\ lay2[i + 1] = lay[i + 1]
      BY <1>2, <2>1, <3>1
    <3>3. PlaceIn(lay2, lay2[i]) = i
      BY <1>0, <3>1, PlaceOf
    <3>. QED
      BY <1>1, <2>3, <2>4, <3>2, <3>3 DEF NextIn
  <2>6. CASE i > p
    <3>1. i \in (p + 1)..N /\ i + 1 \in (p + 1)..N /\ i + 2 \in 1..(N + 2) /\ (i + 1) + 2 = (i + 2) + 1
      BY <1>0, <1>1, <2>3, <2>6
    <3>2. lay2[i + 2] = b /\ lay2[(i + 2) + 1] = lay[i + 1]
      BY <1>2, <2>1, <3>1
    <3>3. PlaceIn(lay2, lay2[i + 2]) = i + 2
      BY <1>0, <3>1, PlaceOf
    <3>. QED
      BY <1>1, <2>3, <2>4, <3>2, <3>3 DEF NextIn
  <2>. QED
    BY <2>3, <2>5, <2>6
<1>. QED
  BY <1>4, <1>5, <1>6 DEF NextMoved

----------------------------------------------------------------------------
(***************************************************************************)
(* Safe functions keep their edges; in any other one is wrong in the end.   *)
(***************************************************************************)
Flows(code, succ, lay, N) == \A b \in 1..N : ExitsOf(code[b], lay, b) = succ[b]

LoopFirst(code, N) ==
  \A b \in 1..N : \A i \in 1..Len(code[b]) : code[b][i].op = "ShiftLoop" =>
     b = Entry /\ \A j \in 1..(i - 1) : code[b][j].op \notin Pseudos

SelectsLeave(code, N) ==
  \A b \in 1..N : \A i \in 1..Len(code[b]) : code[b][i].op = "Select" => ~FallsOff(code[b])

\* A safe function: edges as in the CFG, the only loop in front of every
\* other pseudo, and no Select in a block that falls through.
SafeFlow(code, succ, lay, N) ==
  Flows(code, succ, lay, N) /\ LoopFirst(code, N) /\ SelectsLeave(code, N)

\* Any other: an edge is wrong for good, or a pseudo will make one so: a loop
\* to be put behind Entry but not reached from there, or a Select in a block
\* that falls through.
Broken(code, succ, lay, N) ==
  \E b \in 1..N : b # Entry /\ b # Join /\ NoPseudo(code[b]) /\ ExitsOf(code[b], lay, b) # succ[b]

LateLoop(code, N) ==
  \E b \in 1..N : \E i \in 1..Len(code[b]) :
     /\ code[b][i].op = "ShiftLoop"
     /\ b # Entry \/ \E j \in 1..(i - 1) : code[b][j].op \in Pseudos

FallingSelect(code, N) ==
  \E b \in 1..N : \E i \in 1..Len(code[b]) : code[b][i].op = "Select" /\ FallsOff(code[b])

UnsafeFlow(code, succ, lay, N) ==
  Broken(code, succ, lay, N) \/ LateLoop(code, N) \/ FallingSelect(code, N)

\* A split of a block, with its layout.
Blocks(code, code2, lay, lay2, N, b, k, p, to, other) ==
  /\ N \in Nat /\ InsertedAt(lay, lay2, N, p)
  /\ b \in 1..N /\ b # Join /\ k \in 1..Len(code[b]) /\ AtFirstPseudo(code[b], k)
  /\ (to = N + 1 /\ other = N + 2) \/ (to = N + 2 /\ other = N + 1)
  /\ \A x \in 1..N : IsBlock(code[x])
  /\ \A x \in 1..(N + 2) : IsBlock(code2[x])
  /\ ~FallsOff(code[Join])

SplitFlow(code, succ, code2, succ2, lay, lay2, N, b, k, p, to, other, ends, phi, extra, back) ==
  /\ Blocks(code, code2, lay, lay2, N, b, k, p, to, other)
  /\ phi.op = "PHI"
  /\ FlowOfSplit(code, succ, code2, succ2, N, b, k, to, other, ends, phi, extra, back)

\* Every pseudo was there before, in the same block or in the one split.
PseudoFrom(code, code2, N, b, k, to, x, i) ==
  \/ x \in 1..N /\ x # b /\ i \in 1..Len(code[x]) /\ SameFlow(code2[x], code[x])
     /\ code2[x][i].op = code[x][i].op
  \/ x = to /\ i # 1 /\ k + (i - 1) \in 1..Len(code[b]) /\ k \in 1..((k + (i - 1)) - 1)
     /\ code2[x][i].op = code[b][k + (i - 1)].op

\* A split makes no pseudo.
LEMMA PseudoOrigin ==
  ASSUME NEW code, NEW succ, NEW code2, NEW succ2, NEW lay, NEW lay2, NEW N, NEW b, NEW k, NEW p,
         NEW to, NEW other, NEW ends, NEW phi, NEW extra, NEW back,
         SplitFlow(code, succ, code2, succ2, lay, lay2, N, b, k, p, to, other, ends, phi, extra, back),
         NEW x \in 1..(N + 2), NEW i \in 1..Len(code2[x]), code2[x][i].op \in Pseudos
  PROVE  PseudoFrom(code, code2, N, b, k, to, x, i)
<1>1. /\ N \in Nat /\ b \in 1..N /\ k \in 1..Len(code[b])
      /\ (to = N + 1 /\ other = N + 2) \/ (to = N + 2 /\ other = N + 1)
      /\ Len(code[b]) \in Nat /\ phi.op = "PHI"
  BY DEF SplitFlow, Blocks, IsBlock
<1>2. x \in 1..N \/ x = to \/ x = other
  BY <1>1
<1>3. FlowOfSplit(code, succ, code2, succ2, N, b, k, to, other, ends, phi, extra, back)
  BY DEF SplitFlow
<1>4. x # b /\ x # other
  BY <1>3 DEF FlowOfSplit, NoPseudo
<1>5. CASE x = to
  <2>1. /\ Len(code2[x]) = Len(code[b]) - k + 1 /\ code2[x][1].op = "PHI"
        /\ \A c \in 1..(Len(code[b]) - k) : code2[x][c + 1] = code[b][k + c]
    BY <1>1, <1>3, <1>5 DEF FlowOfSplit, IsRest
  <2>2. i # 1
    BY <2>1 DEF Pseudos
  <2>3. k \in Nat /\ i \in Nat /\ k >= 1 /\ k <= Len(code[b]) /\ i >= 1 /\ i <= Len(code[b]) - k + 1
    BY <1>1, <2>1
  <2>4. i - 1 \in 1..(Len(code[b]) - k) /\ (i - 1) + 1 = i
        /\ k + (i - 1) \in 1..Len(code[b]) /\ k \in 1..((k + (i - 1)) - 1)
    BY <1>1, <2>2, <2>3
  <2>5. code2[x][(i - 1) + 1] = code[b][k + (i - 1)]
    BY <2>1, <2>4
  <2>6. code2[x][i].op = code[b][k + (i - 1)].op
    BY <2>4, <2>5
  <2>. QED
    BY <1>5, <2>2, <2>4, <2>6 DEF PseudoFrom
<1>6. CASE x \in 1..N
  <2>1. SameFlow(code2[x], code[x])
    BY <1>3, <1>4, <1>6 DEF FlowOfSplit
  <2>2. i \in 1..Len(code[x]) /\ code2[x][i].op = code[x][i].op
    BY <2>1 DEF SameFlow
  <2>. QED
    BY <1>4, <1>6, <2>1, <2>2 DEF PseudoFrom
<1>. QED
  BY <1>2, <1>4, <1>5, <1>6

\* A split keeps the loop in front and the Selects in blocks that leave.
LEMMA LoopStaysFirst ==
  ASSUME NEW code, NEW succ, NEW code2, NEW succ2, NEW lay, NEW lay2, NEW N, NEW b, NEW k, NEW p,
         NEW to, NEW other, NEW ends, NEW phi, NEW extra, NEW back,
         SplitFlow(code, succ, code2, succ2, lay, lay2, N, b, k, p, to, other, ends, phi, extra, back),
         LoopFirst(code, N), SelectsLeave(code, N)
  PROVE  LoopFirst(code2, N + 2) /\ SelectsLeave(code2, N + 2)
<1>1. /\ b \in 1..N /\ k \in 1..Len(code[b]) /\ code[b][k].op \in Pseudos
      /\ \A x \in 1..N : IsBlock(code[x])
      /\ \A x \in 1..(N + 2) : IsBlock(code2[x])
      /\ N \in Nat /\ ((to = N + 1 /\ other = N + 2) \/ (to = N + 2 /\ other = N + 1))
  BY DEF SplitFlow, Blocks, AtFirstPseudo
<1>2. to \in 1..(N + 2)
  BY <1>1
<1>3. ASSUME NEW x \in 1..(N + 2), NEW i \in 1..Len(code2[x]), code2[x][i].op = "ShiftLoop"
      PROVE  x = Entry /\ \A j \in 1..(i - 1) : code2[x][j].op \notin Pseudos
  <2>1. PseudoFrom(code, code2, N, b, k, to, x, i)
    BY <1>3, PseudoOrigin, Zenon DEF Pseudos
  <2>2. CASE x \in 1..N /\ i \in 1..Len(code[x]) /\ SameFlow(code2[x], code[x])
             /\ code2[x][i].op = code[x][i].op
    <3>1. x = Entry /\ \A j \in 1..(i - 1) : code[x][j].op \notin Pseudos
      BY <1>3, <2>2 DEF LoopFirst
    <3>2. Len(code[x]) \in Nat
      BY <1>1, <2>2 DEF IsBlock
    <3>3. \A j \in 1..(i - 1) : j \in 1..Len(code[x])
      BY <2>2, <3>2
    <3>. QED
      BY <2>2, <3>1, <3>3 DEF SameFlow
  <2>3. CASE /\ k + (i - 1) \in 1..Len(code[b]) /\ k \in 1..((k + (i - 1)) - 1)
             /\ code2[x][i].op = code[b][k + (i - 1)].op
    BY <1>1, <1>3, <2>3 DEF LoopFirst
  <2>. QED
    BY <2>1, <2>2, <2>3 DEF PseudoFrom
<1>4. ASSUME NEW x \in 1..(N + 2), NEW i \in 1..Len(code2[x]), code2[x][i].op = "Select"
      PROVE  ~FallsOff(code2[x])
  <2>1. PseudoFrom(code, code2, N, b, k, to, x, i)
    BY <1>4, PseudoOrigin, Zenon DEF Pseudos
  <2>2. CASE x \in 1..N /\ i \in 1..Len(code[x]) /\ SameFlow(code2[x], code[x])
             /\ code2[x][i].op = code[x][i].op
    <3>1. ~FallsOff(code[x])
      BY <1>4, <2>2 DEF SelectsLeave
    <3>2. IsBlock(code[x]) /\ IsBlock(code2[x])
      BY <1>1, <2>2
    <3>. QED
      BY <2>2, <3>1, <3>2, SameFlowKeeps
  <2>3. CASE x = to /\ k + (i - 1) \in 1..Len(code[b]) /\ code2[x][i].op = code[b][k + (i - 1)].op
    <3>1. ~FallsOff(code[b])
      BY <1>1, <1>4, <2>3 DEF SelectsLeave
    <3>. QED
      BY <2>3, <3>1 DEF SplitFlow, FlowOfSplit
  <2>. QED
    BY <2>1, <2>2, <2>3 DEF PseudoFrom
<1>5. LoopFirst(code2, N + 2)
  BY <1>3 DEF LoopFirst
<1>6. SelectsLeave(code2, N + 2)
  BY <1>4 DEF SelectsLeave
<1>. QED
  BY <1>5, <1>6

\* A block that is neither split nor in front of the new ones leaves as before.
LEMMA ExitsKept ==
  ASSUME NEW code, NEW succ, NEW code2, NEW succ2, NEW lay, NEW lay2, NEW N, NEW b, NEW k, NEW p,
         NEW to, NEW other, NEW ends, NEW phi, NEW extra, NEW back,
         SplitFlow(code, succ, code2, succ2, lay, lay2, N, b, k, p, to, other, ends, phi, extra, back),
         NEW x \in 1..N, x # b, x # lay[p]
  PROVE  /\ ExitsOf(code2[x], lay2, x) = ExitsOf(code[x], lay, x)
         /\ NoPseudo(code2[x]) <=> NoPseudo(code[x])
         /\ succ2[x] = succ[x]
<1>1. /\ IsBlock(code[x]) /\ x \in 1..(N + 2) /\ ~FallsOff(code[Join])
  BY DEF SplitFlow, Blocks
<1>2. IsBlock(code2[x])
  BY <1>1 DEF SplitFlow, Blocks
<1>3. SameFlow(code2[x], code[x]) /\ succ2[x] = succ[x]
  BY DEF SplitFlow, FlowOfSplit
<1>4. LeavesTo(code2[x]) = LeavesTo(code[x]) /\ (FallsOff(code2[x]) <=> FallsOff(code[x]))
      /\ (NoPseudo(code2[x]) <=> NoPseudo(code[x]))
  BY <1>1, <1>2, <1>3, SameFlowKeeps
<1>5. x # Join => NextIn(lay2, x) = NextIn(lay, x)
  <2>1. InsertedAt(lay, lay2, N, p)
    BY DEF SplitFlow, Blocks
  <2>2. NextMoved(lay, lay2, N, p)
    BY <2>1, NextAfterInsert
  <2>. QED
    BY <2>2 DEF NextMoved
<1>6. ExitsOf(code2[x], lay2, x) = ExitsOf(code[x], lay, x)
  <2>1. CASE x = Join
    BY <1>1, <1>4, <2>1 DEF ExitsOf
  <2>2. CASE x # Join
    BY <1>4, <1>5, <2>2 DEF ExitsOf
  <2>. QED
    BY <2>1, <2>2
<1>. QED
  BY <1>3, <1>4, <1>6

\* The two splits: where the ends and the second new block leave for.
IsShiftFlow(N, b, p, lay, to, other, ends, extra, back) ==
  /\ to = N + 2 /\ other = N + 1 /\ p = 1 /\ lay[1] = Entry
  /\ LeavesTo(ends) = {N + 2} /\ FallsOff(ends)
  /\ LeavesTo(extra) = {N + 1} /\ FallsOff(extra) /\ back = {N + 2, N + 1}

IsSelectFlow(N, b, p, lay, to, other, ends, extra, back) ==
  /\ to = N + 1 /\ other = N + 2 /\ lay[p] = b
  /\ LeavesTo(ends) = {N + 1, N + 2} /\ ~FallsOff(ends)
  /\ LeavesTo(extra) = {N + 1} /\ ~FallsOff(extra) /\ back = {N + 1}

\* In a safe function both splits leave every edge where the CFG has it.
LEMMA SafeSplit ==
  ASSUME NEW code, NEW succ, NEW code2, NEW succ2, NEW lay, NEW lay2, NEW N, NEW b, NEW k, NEW p,
         NEW to, NEW other, NEW ends, NEW phi, NEW extra, NEW back,
         SplitFlow(code, succ, code2, succ2, lay, lay2, N, b, k, p, to, other, ends, phi, extra, back),
         SafeFlow(code, succ, lay, N),
         \/ code[b][k].op = "ShiftLoop" /\ IsShiftFlow(N, b, p, lay, to, other, ends, extra, back)
         \/ code[b][k].op = "Select" /\ IsSelectFlow(N, b, p, lay, to, other, ends, extra, back)
  PROVE  SafeFlow(code2, succ2, lay2, N + 2)
<1>1. Flows(code, succ, lay, N) /\ LoopFirst(code, N) /\ SelectsLeave(code, N)
  BY DEF SafeFlow
<1>2. LoopFirst(code2, N + 2) /\ SelectsLeave(code2, N + 2)
  BY <1>1, LoopStaysFirst, Zenon
<1>3. N \in Nat /\ b \in 1..N /\ k \in 1..Len(code[b]) /\ InsertedAt(lay, lay2, N, p)
  BY DEF SplitFlow, Blocks
<1>4. lay[p] = b
  <2>1. CASE code[b][k].op = "ShiftLoop" /\ IsShiftFlow(N, b, p, lay, to, other, ends, extra, back)
    BY <1>1, <1>3, <2>1 DEF LoopFirst, IsShiftFlow
  <2>2. CASE code[b][k].op = "Select" /\ IsSelectFlow(N, b, p, lay, to, other, ends, extra, back)
    BY <2>2 DEF IsSelectFlow
  <2>. QED
    BY <2>1, <2>2
<1>5. /\ NextIn(lay2, b) = N + 1 /\ NextIn(lay2, N + 1) = N + 2
      /\ NextIn(lay2, N + 2) = NextIn(lay, b)
  <2>1. NextMoved(lay, lay2, N, p)
    BY <1>3, NextAfterInsert
  <2>. QED
    BY <1>4, <2>1 DEF NextMoved
<1>6. /\ LeavesTo(code2[b]) = LeavesTo(ends) /\ (FallsOff(code2[b]) <=> FallsOff(ends))
      /\ succ2[b] = {to, other}
      /\ LeavesTo(code2[to]) = LeavesTo(code[b]) /\ (FallsOff(code2[to]) <=> FallsOff(code[b]))
      /\ succ2[to] = succ[b]
      /\ code2[other] = extra /\ succ2[other] = back
  BY DEF SplitFlow, FlowOfSplit
<1>7. succ[b] = LeavesTo(code[b]) \cup (IF FallsOff(code[b]) THEN {NextIn(lay, b)} ELSE {})
  BY <1>1, <1>3 DEF Flows, ExitsOf
<1>8. /\ ExitsOf(code2[b], lay2, b) = succ2[b]
      /\ ExitsOf(code2[to], lay2, to) = succ2[to]
      /\ ExitsOf(code2[other], lay2, other) = succ2[other]
  <2>1. CASE code[b][k].op = "ShiftLoop" /\ IsShiftFlow(N, b, p, lay, to, other, ends, extra, back)
    <3>1. /\ to = N + 2 /\ other = N + 1
          /\ LeavesTo(ends) = {N + 2} /\ FallsOff(ends)
          /\ LeavesTo(extra) = {N + 1} /\ FallsOff(extra) /\ back = {N + 2, N + 1}
      BY <2>1 DEF IsShiftFlow
    <3>. QED
      BY <1>5, <1>6, <1>7, <3>1 DEF ExitsOf
  <2>2. CASE code[b][k].op = "Select" /\ IsSelectFlow(N, b, p, lay, to, other, ends, extra, back)
    <3>1. /\ to = N + 1 /\ other = N + 2
          /\ LeavesTo(ends) = {N + 1, N + 2} /\ ~FallsOff(ends)
          /\ LeavesTo(extra) = {N + 1} /\ ~FallsOff(extra) /\ back = {N + 1}
      BY <2>2 DEF IsSelectFlow
    <3>2. ~FallsOff(code[b])
      BY <1>1, <1>3, <2>2 DEF SelectsLeave
    <3>. QED
      BY <1>5, <1>6, <1>7, <3>1, <3>2 DEF ExitsOf
  <2>. QED
    BY <2>1, <2>2
<1>9. \A x \in 1..N : x # b => ExitsOf(code2[x], lay2, x) = succ2[x]
  <2> TAKE x \in 1..N
  <2>1. CASE x # b
    <3>1. ExitsOf(code2[x], lay2, x) = ExitsOf(code[x], lay, x) /\ succ2[x] = succ[x]
      <4>1. x # lay[p]
        BY <1>4, <2>1
      <4>. QED
        BY <2>1, <4>1, ExitsKept
    <3>. QED
      BY <1>1, <3>1 DEF Flows
  <2>. QED
    BY <2>1
<1>10. \A x \in 1..(N + 2) : x \in 1..N \/ x = to \/ x = other
  <2>1. N \in Nat /\ ((to = N + 1 /\ other = N + 2) \/ (to = N + 2 /\ other = N + 1))
    BY DEF SplitFlow, Blocks
  <2>. QED
    BY <2>1
<1>11. Flows(code2, succ2, lay2, N + 2)
  BY <1>8, <1>9, <1>10 DEF Flows
<1>. QED
  BY <1>2, <1>11 DEF SafeFlow

\* A wrong edge stays, as its block is not split again.
LEMMA BrokenStays ==
  ASSUME NEW code, NEW succ, NEW code2, NEW succ2, NEW lay, NEW lay2, NEW N, NEW b, NEW k, NEW p,
         NEW to, NEW other, NEW ends, NEW phi, NEW extra, NEW back,
         SplitFlow(code, succ, code2, succ2, lay, lay2, N, b, k, p, to, other, ends, phi, extra, back),
         lay[p] = b \/ lay[p] = Entry,
         Broken(code, succ, lay, N)
  PROVE  Broken(code2, succ2, lay2, N + 2)
<1>1. PICK x \in 1..N : x # Entry /\ x # Join /\ NoPseudo(code[x]) /\ ExitsOf(code[x], lay, x) # succ[x]
  BY DEF Broken
<1>2. k \in 1..Len(code[b]) /\ code[b][k].op \in Pseudos /\ N \in Nat
  BY DEF SplitFlow, Blocks, AtFirstPseudo
<1>3. x # b /\ x # lay[p]
  BY <1>1, <1>2 DEF NoPseudo
<1>4. /\ ExitsOf(code2[x], lay2, x) = ExitsOf(code[x], lay, x)
      /\ NoPseudo(code2[x]) /\ succ2[x] = succ[x]
  <2>1. /\ ExitsOf(code2[x], lay2, x) = ExitsOf(code[x], lay, x)
        /\ NoPseudo(code2[x]) <=> NoPseudo(code[x])
        /\ succ2[x] = succ[x]
    BY <1>3, ExitsKept
  <2>. QED
    BY <1>1, <2>1
<1>5. x \in 1..(N + 2)
  BY <1>2
<1>. QED
  BY <1>1, <1>4, <1>5 DEF Broken

\* A pseudo that is not expanded stays, perhaps in the rest of its block.
PseudoStays(code, code2, N, b, k, to, x, i) ==
  \/ x # b /\ SameFlow(code2[x], code[x]) /\ i \in 1..Len(code2[x])
  \/ /\ x = b /\ i > k /\ (i - k) + 1 \in 1..Len(code2[to])
     /\ code2[to][(i - k) + 1].op = code[b][i].op

\* And it loses none but the one it expands.
LEMMA PseudoKept ==
  ASSUME NEW code, NEW succ, NEW code2, NEW succ2, NEW lay, NEW lay2, NEW N, NEW b, NEW k, NEW p,
         NEW to, NEW other, NEW ends, NEW phi, NEW extra, NEW back,
         SplitFlow(code, succ, code2, succ2, lay, lay2, N, b, k, p, to, other, ends, phi, extra, back),
         NEW x \in 1..N, NEW i \in 1..Len(code[x]), code[x][i].op \in Pseudos, ~(x = b /\ i = k)
  PROVE  PseudoStays(code, code2, N, b, k, to, x, i)
<1>1. /\ b \in 1..N /\ k \in 1..Len(code[b]) /\ IsBlock(code[b])
      /\ \A j \in 1..(k - 1) : code[b][j].op \notin Pseudos
  BY DEF SplitFlow, Blocks, AtFirstPseudo
<1>2. IsRest(code2[to], code[b], k, phi)
  BY DEF SplitFlow, FlowOfSplit
<1>3. CASE x # b
  <2>1. SameFlow(code2[x], code[x])
    BY <1>3 DEF SplitFlow, FlowOfSplit
  <2>. QED
    BY <1>3, <2>1 DEF SameFlow, PseudoStays
<1>4. CASE x = b
  <2>1. Len(code[b]) \in Nat /\ i \in 1..Len(code[b]) /\ i # k
    BY <1>1, <1>4 DEF IsBlock
  <2>2. i \notin 1..(k - 1)
    BY <1>1, <1>4
  <2>3. i > k
    BY <1>1, <2>1, <2>2
  <2>4. /\ Len(code2[to]) = Len(code[b]) - k + 1
        /\ \A c \in 1..(Len(code[b]) - k) : code2[to][c + 1] = code[b][k + c]
    BY <1>2 DEF IsRest
  <2>5. i - k \in 1..(Len(code[b]) - k) /\ k + (i - k) = i /\ (i - k) + 1 \in 1..(Len(code[b]) - k + 1)
    <3>1. k \in Nat /\ k >= 1 /\ k <= Len(code[b]) /\ i \in Nat /\ i <= Len(code[b])
      BY <1>1, <2>1
    <3>. QED
      BY <2>1, <2>3, <3>1
  <2>6. code2[to][(i - k) + 1] = code[b][k + (i - k)]
    BY <2>4, <2>5
  <2>. QED
    BY <1>4, <2>3, <2>4, <2>5, <2>6 DEF PseudoStays
<1>. QED
  BY <1>3, <1>4

\* A loop put behind Entry and left from another block, or the rest of a
\* block that falls through to the false block: an edge is wrong.
LEMMA ShiftBreaks ==
  ASSUME NEW code, NEW succ, NEW code2, NEW succ2, NEW lay, NEW lay2, NEW N, NEW b, NEW k, NEW p,
         NEW to, NEW other, NEW ends, NEW phi, NEW extra, NEW back,
         SplitFlow(code, succ, code2, succ2, lay, lay2, N, b, k, p, to, other, ends, phi, extra, back),
         IsShiftFlow(N, b, p, lay, to, other, ends, extra, back), b # Entry
  PROVE  Broken(code2, succ2, lay2, N + 2)
<1>1. /\ N \in Nat /\ b \in 1..N /\ b # Join /\ InsertedAt(lay, lay2, N, p)
      /\ to = N + 2 /\ other = N + 1 /\ lay[p] = Entry /\ LeavesTo(ends) = {N + 2} /\ FallsOff(ends)
  BY DEF SplitFlow, Blocks, IsShiftFlow
<1>2. /\ NoPseudo(code2[b]) /\ LeavesTo(code2[b]) = LeavesTo(ends) /\ succ2[b] = {to, other}
      /\ (FallsOff(code2[b]) <=> FallsOff(ends))
  BY DEF SplitFlow, FlowOfSplit
<1>3. NextIn(lay2, b) \in 1..N
  <2>1. NextMoved(lay, lay2, N, p)
    BY <1>1, NextAfterInsert
  <2>. QED
    BY <1>1, <2>1 DEF NextMoved
<1>4. NextIn(lay2, b) # N + 1 /\ N + 2 # N + 1
  BY <1>1, <1>3
<1>5. ExitsOf(code2[b], lay2, b) # succ2[b]
  BY <1>1, <1>2, <1>4 DEF ExitsOf
<1>6. b \in 1..(N + 2)
  BY <1>1
<1>. QED
  BY <1>1, <1>2, <1>5, <1>6 DEF Broken

\* So it is with the diamond of a Select in a block that falls through.
LEMMA SelectBreaks ==
  ASSUME NEW code, NEW succ, NEW code2, NEW succ2, NEW lay, NEW lay2, NEW N, NEW b, NEW k, NEW p,
         NEW to, NEW other, NEW ends, NEW phi, NEW extra, NEW back,
         SplitFlow(code, succ, code2, succ2, lay, lay2, N, b, k, p, to, other, ends, phi, extra, back),
         IsSelectFlow(N, b, p, lay, to, other, ends, extra, back), FallsOff(code[b]),
         succ[b] \subseteq 1..N
  PROVE  UnsafeFlow(code2, succ2, lay2, N + 2)
<1>1. /\ N \in Nat /\ b \in 1..N /\ InsertedAt(lay, lay2, N, p) /\ IsBlock(code2[N + 1])
      /\ to = N + 1 /\ lay[p] = b
  <2>1. /\ N \in Nat /\ b \in 1..N /\ InsertedAt(lay, lay2, N, p)
        /\ \A x \in 1..(N + 2) : IsBlock(code2[x])
    BY DEF SplitFlow, Blocks
  <2>2. N + 1 \in 1..(N + 2)
    BY <2>1
  <2>. QED
    BY <2>1, <2>2 DEF IsSelectFlow
<1>2. FallsOff(code2[to]) /\ succ2[to] = succ[b]
  BY DEF SplitFlow, FlowOfSplit
<1>3. NextIn(lay2, to) = N + 2
  <2>1. NextMoved(lay, lay2, N, p)
    BY <1>1, NextAfterInsert
  <2>. QED
    BY <1>1, <2>1 DEF NextMoved
<1>4. to \in 1..(N + 2) /\ N + 2 \notin 1..N /\ to # Entry /\ to # Join
  <2>1. N >= 3
    BY <1>1 DEF InsertedAt, LayoutOK
  <2>. QED
    BY <1>1, <2>1 DEF Entry, Join
<1>5. ExitsOf(code2[to], lay2, to) # succ2[to]
  BY <1>2, <1>3, <1>4 DEF ExitsOf
<1>6. CASE NoPseudo(code2[to])
  BY <1>4, <1>5, <1>6 DEF Broken, UnsafeFlow
<1>7. CASE ~NoPseudo(code2[to])
  <2>1. PICK i \in 1..Len(code2[to]) : code2[to][i].op \in Pseudos
    BY <1>7 DEF NoPseudo
  <2>2. CASE code2[to][i].op = "ShiftLoop"
    BY <1>4, <2>2 DEF LateLoop, UnsafeFlow
  <2>3. CASE code2[to][i].op = "Select"
    BY <1>2, <1>4, <2>3 DEF FallingSelect, UnsafeFlow
  <2>. QED
    BY <2>1, <2>2, <2>3 DEF Pseudos
<1>. QED
  BY <1>6, <1>7

\* A loop that comes late stays, or is expanded now and breaks an edge.
LEMMA LateLoopStays ==
  ASSUME NEW code, NEW succ, NEW code2, NEW succ2, NEW lay, NEW lay2, NEW N, NEW b, NEW k, NEW p,
         NEW to, NEW other, NEW ends, NEW phi, NEW extra, NEW back,
         SplitFlow(code, succ, code2, succ2, lay, lay2, N, b, k, p, to, other, ends, phi, extra, back),
         LateLoop(code, N),
         code[b][k].op = "ShiftLoop" => IsShiftFlow(N, b, p, lay, to, other, ends, extra, back)
  PROVE  UnsafeFlow(code2, succ2, lay2, N + 2)
<1>1. PICK x \in 1..N : \E i \in 1..Len(code[x]) :
         /\ code[x][i].op = "ShiftLoop"
         /\ x # Entry \/ \E j \in 1..(i - 1) : code[x][j].op \in Pseudos
  BY DEF LateLoop
<1>2. PICK i \in 1..Len(code[x]) :
         /\ code[x][i].op = "ShiftLoop"
         /\ x # Entry \/ \E j \in 1..(i - 1) : code[x][j].op \in Pseudos
  BY <1>1
<1>3. /\ N \in Nat /\ \A j \in 1..(k - 1) : code[b][j].op \notin Pseudos
      /\ (to = N + 1 \/ to = N + 2) /\ Len(code[x]) \in Nat /\ N >= 3
  BY DEF SplitFlow, Blocks, AtFirstPseudo, IsBlock, InsertedAt, LayoutOK
<1>4. to \in 1..(N + 2) /\ x \in 1..(N + 2) /\ to # Entry
  BY <1>3 DEF Entry
<1>5. CASE x = b /\ i = k
  <2>1. x # Entry
    BY <1>2, <1>3, <1>5
  <2>2. IsShiftFlow(N, b, p, lay, to, other, ends, extra, back) /\ b # Entry
    BY <1>2, <1>5, <2>1
  <2>3. Broken(code2, succ2, lay2, N + 2)
    BY <2>2, ShiftBreaks, Zenon
  <2>. QED
    BY <2>3 DEF UnsafeFlow
<1>6. CASE ~(x = b /\ i = k)
  <2>1. PseudoStays(code, code2, N, b, k, to, x, i)
    BY <1>2, <1>6, PseudoKept, Zenon DEF Pseudos
  <2>2. CASE SameFlow(code2[x], code[x]) /\ i \in 1..Len(code2[x])
    <3>1. code2[x][i].op = "ShiftLoop"
      BY <1>2, <2>2 DEF SameFlow
    <3>2. ASSUME NEW j \in 1..(i - 1), code[x][j].op \in Pseudos
          PROVE  code2[x][j].op \in Pseudos
      <4>1. j \in 1..Len(code[x])
        BY <1>3
      <4>. QED
        BY <2>2, <3>2, <4>1 DEF SameFlow
    <3>. QED
      BY <1>2, <1>4, <2>2, <3>1, <3>2 DEF LateLoop, UnsafeFlow
  <2>3. CASE /\ x = b /\ (i - k) + 1 \in 1..Len(code2[to])
             /\ code2[to][(i - k) + 1].op = code[b][i].op
    <3>1. code2[to][(i - k) + 1].op = "ShiftLoop"
      BY <1>2, <2>3
    <3>. QED
      BY <1>4, <2>3, <3>1 DEF LateLoop, UnsafeFlow
  <2>. QED
    BY <2>1, <2>2, <2>3 DEF PseudoStays
<1>. QED
  BY <1>5, <1>6

\* So does a Select in a block that falls through.
LEMMA FallingSelectStays ==
  ASSUME NEW code, NEW succ, NEW code2, NEW succ2, NEW lay, NEW lay2, NEW N, NEW b, NEW k, NEW p,
         NEW to, NEW other, NEW ends, NEW phi, NEW extra, NEW back,
         SplitFlow(code, succ, code2, succ2, lay, lay2, N, b, k, p, to, other, ends, phi, extra, back),
         FallingSelect(code, N), succ[b] \subseteq 1..N,
         code[b][k].op = "Select" => IsSelectFlow(N, b, p, lay, to, other, ends, extra, back)
  PROVE  UnsafeFlow(code2, succ2, lay2, N + 2)
<1>1. PICK x \in 1..N : \E i \in 1..Len(code[x]) : code[x][i].op = "Select" /\ FallsOff(code[x])
  BY DEF FallingSelect
<1>2. PICK i \in 1..Len(code[x]) : code[x][i].op = "Select" /\ FallsOff(code[x])
  BY <1>1
<1>3. /\ N \in Nat /\ (to = N + 1 \/ to = N + 2)
      /\ IsBlock(code[x]) /\ \A y \in 1..(N + 2) : IsBlock(code2[y])
  BY DEF SplitFlow, Blocks
<1>4. to \in 1..(N + 2) /\ x \in 1..(N + 2)
  BY <1>3
<1>5. CASE x = b /\ i = k
  <2>1. IsSelectFlow(N, b, p, lay, to, other, ends, extra, back) /\ FallsOff(code[b])
    BY <1>2, <1>5
  <2>. QED
    BY <2>1, SelectBreaks, Zenon
<1>6. CASE ~(x = b /\ i = k)
  <2>1. PseudoStays(code, code2, N, b, k, to, x, i)
    BY <1>2, <1>6, PseudoKept, Zenon DEF Pseudos
  <2>2. CASE SameFlow(code2[x], code[x]) /\ i \in 1..Len(code2[x])
    <3>1. code2[x][i].op = "Select"
      BY <1>2, <2>2 DEF SameFlow
    <3>2. FallsOff(code2[x])
      BY <1>2, <1>3, <1>4, <2>2, SameFlowKeeps
    <3>. QED
      BY <1>4, <2>2, <3>1, <3>2 DEF FallingSelect, UnsafeFlow
  <2>3. CASE /\ x = b /\ (i - k) + 1 \in 1..Len(code2[to])
             /\ code2[to][(i - k) + 1].op = code[b][i].op
    <3>1. code2[to][(i - k) + 1].op = "Select"
      BY <1>2, <2>3
    <3>2. FallsOff(code2[to])
      BY <1>2, <2>3 DEF SplitFlow, FlowOfSplit
    <3>. QED
      BY <1>4, <2>3, <3>1, <3>2 DEF FallingSelect, UnsafeFlow
  <2>. QED
    BY <2>1, <2>2, <2>3 DEF PseudoStays
<1>. QED
  BY <1>5, <1>6

\* What is or will be wrong stays so.
LEMMA UnsafeSplit ==
  ASSUME NEW code, NEW succ, NEW code2, NEW succ2, NEW lay, NEW lay2, NEW N, NEW b, NEW k, NEW p,
         NEW to, NEW other, NEW ends, NEW phi, NEW extra, NEW back,
         SplitFlow(code, succ, code2, succ2, lay, lay2, N, b, k, p, to, other, ends, phi, extra, back),
         UnsafeFlow(code, succ, lay, N), succ[b] \subseteq 1..N,
         \/ code[b][k].op = "ShiftLoop" /\ IsShiftFlow(N, b, p, lay, to, other, ends, extra, back)
         \/ code[b][k].op = "Select" /\ IsSelectFlow(N, b, p, lay, to, other, ends, extra, back)
  PROVE  UnsafeFlow(code2, succ2, lay2, N + 2)
<1>1. lay[p] = b \/ lay[p] = Entry
  BY DEF IsShiftFlow, IsSelectFlow
<1>2. /\ code[b][k].op = "ShiftLoop" => IsShiftFlow(N, b, p, lay, to, other, ends, extra, back)
      /\ code[b][k].op = "Select" => IsSelectFlow(N, b, p, lay, to, other, ends, extra, back)
  OBVIOUS
<1>3. CASE Broken(code, succ, lay, N)
  <2>1. Broken(code2, succ2, lay2, N + 2)
    BY <1>1, <1>3, BrokenStays, Zenon
  <2>. QED
    BY <2>1 DEF UnsafeFlow
<1>4. CASE LateLoop(code, N)
  BY <1>2, <1>4, LateLoopStays, Zenon
<1>5. CASE FallingSelect(code, N)
  BY <1>2, <1>5, FallingSelectStays, Zenon
<1>. QED
  BY <1>3, <1>4, <1>5 DEF UnsafeFlow

IsFive(w, u, v, x, y, z) ==
  Len(w) = 5 /\ DOMAIN w = 1..5 /\ w[1] = u /\ w[2] = v /\ w[3] = x /\ w[4] = y /\ w[5] = z

LEMMA TwoAndThree ==
  ASSUME NEW u, NEW v, NEW x, NEW y, NEW z
  PROVE  IsFive(<<u, v>> \o <<x, y, z>>, u, v, x, y, z)
<1>1. PICK T : T = {u, v, x, y, z}
  OBVIOUS
<1> DEFINE s == <<u, v>>
           t == <<x, y, z>>
           w == s \o t
<1>2. s \in Seq(T) /\ Len(s) = 2 /\ s[1] = u /\ s[2] = v
  BY <1>1
<1>3. t \in Seq(T) /\ Len(t) = 3 /\ t[1] = x /\ t[2] = y /\ t[3] = z
  BY <1>1
<1> HIDE DEF s, t
<1>4. w \in Seq(T) /\ IsJoined(w, s, t)
  BY <1>2, <1>3, JoinedBlocks
<1> HIDE DEF w
<1>5. 1 \in 1..2 /\ 2 \in 1..2 /\ 1 \in 1..3 /\ 2 \in 1..3 /\ 3 \in 1..3
      /\ 2 + 1 = 3 /\ 2 + 2 = 4 /\ 2 + 3 = 5
  OBVIOUS
<1>6. Len(w) = 5 /\ (\A i \in 1..2 : w[i] = s[i]) /\ \A i \in 1..3 : w[2 + i] = t[i]
  BY <1>2, <1>3, <1>4 DEF IsJoined
<1>7. w[1] = u /\ w[2] = v /\ w[2 + 1] = x /\ w[2 + 2] = y /\ w[2 + 3] = z
  BY <1>2, <1>3, <1>5, <1>6
<1>8. IsFive(w, u, v, x, y, z)
  BY <1>4, <1>5, <1>6, <1>7 DEF IsFive
<1>. QED
  BY <1>8 DEF w, s, t

\* The parts of the inserters, as control sees them.
LEMMA ShiftPartsFlow ==
  ASSUME NEW mi, NEW b, NEW n, NEW N
  PROVE  /\ PlainParts(ShiftEnds(mi, N + 2), ShiftPhi(mi.d, mi, b, n, N + 1), ShiftBody(mi, b, n, N + 1))
         /\ LeavesTo(ShiftEnds(mi, N + 2)) = {N + 2} /\ FallsOff(ShiftEnds(mi, N + 2))
         /\ LeavesTo(ShiftBody(mi, b, n, N + 1)) = {N + 1} /\ FallsOff(ShiftBody(mi, b, n, N + 1))
<1>1. /\ NoPseudo(ShiftEnds(mi, N + 2)) /\ Len(ShiftEnds(mi, N + 2)) > 0
      /\ LeavesTo(ShiftEnds(mi, N + 2)) = {N + 2} /\ FallsOff(ShiftEnds(mi, N + 2))
  <2> DEFINE x == [op |-> "CPI", d |-> mi.n, k |-> 0]
             y == [op |-> "BR", cond |-> "EQ", to |-> N + 2]
             s == ShiftEnds(mi, N + 2)
  <2>1. s = <<x, y>>
    BY DEF ShiftEnds, Br
  <2>2. x.op = "CPI" /\ y.op = "BR" /\ y.to = N + 2
    OBVIOUS
  <2>. HIDE DEF x, y, s
  <2>3. Len(s) = 2 /\ DOMAIN s = 1..2 /\ s[1] = x /\ s[2] = y
    BY <2>1
  <2>4. \A i \in 1..2 : i = 1 \/ i = 2
    OBVIOUS
  <2>5. LeavesTo(s) = {N + 2}
    BY <2>2, <2>3, <2>4 DEF LeavesTo
  <2>. QED
    BY <2>2, <2>3, <2>4, <2>5 DEF NoPseudo, Pseudos, FallsOff, Last, s
<1>2. /\ NoPseudo(ShiftBody(mi, b, n, N + 1))
      /\ LeavesTo(ShiftBody(mi, b, n, N + 1)) = {N + 1} /\ FallsOff(ShiftBody(mi, b, n, N + 1))
  <2> DEFINE u == ShiftPhi(n + 1, mi, b, n, N + 1)
             v == ShiftCount(mi, b, n, N + 1)
             x == [op |-> "SHIFT", d |-> n + 2, s |-> n + 1, how |-> mi.how]
             y == [op |-> "SUBI", d |-> n + 4, s |-> n + 3, k |-> 1]
             z == [op |-> "BR", cond |-> "NE", to |-> N + 1]
             s == ShiftBody(mi, b, n, N + 1)
  <2>1. s = <<u, v>> \o <<x, y, z>>
    BY DEF ShiftBody, LoopBody, Shift, Br
  <2>2. u.op = "PHI" /\ v.op = "PHI" /\ x.op = "SHIFT" /\ y.op = "SUBI" /\ z.op = "BR" /\ z.to = N + 1
    BY DEF ShiftPhi, ShiftCount, Phi
  <2>. HIDE DEF u, v, x, y, z, s
  <2>4. Len(s) = 5 /\ DOMAIN s = 1..5 /\ s[1] = u /\ s[2] = v /\ s[3] = x /\ s[4] = y /\ s[5] = z
    <3>1. IsFive(s, u, v, x, y, z)
      BY <2>1, TwoAndThree
    <3>. QED
      BY <3>1 DEF IsFive
  <2>5. \A i \in 1..5 : i = 1 \/ i = 2 \/ i = 3 \/ i = 4 \/ i = 5
    OBVIOUS
  <2>6. LeavesTo(s) = {N + 1}
    BY <2>2, <2>4, <2>5 DEF LeavesTo
  <2>7. NoPseudo(s)
    BY <2>2, <2>4, <2>5 DEF NoPseudo, Pseudos
  <2>. QED
    BY <2>2, <2>4, <2>6, <2>7 DEF FallsOff, Last, s
<1>3. ShiftPhi(mi.d, mi, b, n, N + 1).op = "PHI"
  BY DEF ShiftPhi, Phi
<1>. QED
  BY <1>1, <1>2, <1>3 DEF PlainParts

\* The parts of the diamond.
LEMMA SelectPartsFlow ==
  ASSUME NEW mi, NEW b, NEW N \in Nat
  PROVE  /\ PlainParts(DiamondEnds(mi.cond, N + 1, N + 2), SelectPhi(mi, b, N + 2), <<Rjmp(N + 1)>>)
         /\ LeavesTo(DiamondEnds(mi.cond, N + 1, N + 2)) = {N + 1, N + 2}
         /\ ~FallsOff(DiamondEnds(mi.cond, N + 1, N + 2))
         /\ LeavesTo(<<Rjmp(N + 1)>>) = {N + 1} /\ ~FallsOff(<<Rjmp(N + 1)>>)
<1>1. /\ NoPseudo(DiamondEnds(mi.cond, N + 1, N + 2)) /\ Len(DiamondEnds(mi.cond, N + 1, N + 2)) > 0
      /\ LeavesTo(DiamondEnds(mi.cond, N + 1, N + 2)) = {N + 1, N + 2}
      /\ ~FallsOff(DiamondEnds(mi.cond, N + 1, N + 2))
  <2> DEFINE x == [op |-> "BR", cond |-> mi.cond, to |-> N + 1]
             y == [op |-> "RJMPk", to |-> N + 2]
             s == DiamondEnds(mi.cond, N + 1, N + 2)
  <2>1. s = <<x, y>>
    BY DEF DiamondEnds, Br, Rjmp
  <2>2. x.op = "BR" /\ x.to = N + 1 /\ y.op = "RJMPk" /\ y.to = N + 2
    OBVIOUS
  <2>. HIDE DEF x, y, s
  <2>3. Len(s) = 2 /\ DOMAIN s = 1..2 /\ s[1] = x /\ s[2] = y /\ s # << >>
    BY <2>1
  <2>4. \A i \in 1..2 : i = 1 \/ i = 2
    OBVIOUS
  <2>5. 1 \in 1..2 /\ 2 \in 1..2
    OBVIOUS
  <2>6. {i \in DOMAIN s : s[i].op \in {"BR", "RJMPk"}} = 1..2
    BY <2>2, <2>3, <2>4
  <2>7. LeavesTo(s) = {N + 1, N + 2}
    BY <2>2, <2>3, <2>4, <2>5, <2>6 DEF LeavesTo
  <2>. QED
    BY <2>2, <2>3, <2>4, <2>7 DEF NoPseudo, Pseudos, FallsOff, Last, s
<1>2. /\ NoPseudo(<<Rjmp(N + 1)>>)
      /\ LeavesTo(<<Rjmp(N + 1)>>) = {N + 1} /\ ~FallsOff(<<Rjmp(N + 1)>>)
  <2> DEFINE y == [op |-> "RJMPk", to |-> N + 1]
             s == <<Rjmp(N + 1)>>
  <2>1. s = <<y>> /\ y.op = "RJMPk" /\ y.to = N + 1
    BY DEF Rjmp
  <2>. HIDE DEF y, s
  <2>2. Len(s) = 1 /\ DOMAIN s = 1..1 /\ s[1] = y /\ s # << >>
    BY <2>1
  <2>3. \A i \in 1..1 : i = 1
    OBVIOUS
  <2>4. LeavesTo(s) = {N + 1}
    BY <2>1, <2>2, <2>3 DEF LeavesTo
  <2>. QED
    BY <2>1, <2>2, <2>3, <2>4 DEF NoPseudo, Pseudos, FallsOff, Last, s
<1>3. SelectPhi(mi, b, N + 2).op = "PHI"
  BY DEF SelectPhi, Phi
<1>. QED
  BY <1>1, <1>2, <1>3 DEF PlainParts

\* How far the pass is: no pseudo is left behind it.
VisitedUpTo(code, lay, p) == \A q \in 1..(p - 1) : NoPseudo(code[lay[q]])

\* The pass has left no pseudo behind when it goes on in the rest.
LEMMA VisitedAfterSplit ==
  ASSUME NEW code, NEW succ, NEW code2, NEW succ2, NEW lay, NEW lay2, NEW N, NEW b, NEW k, NEW p,
         NEW to, NEW other, NEW ends, NEW phi, NEW extra, NEW back,
         SplitFlow(code, succ, code2, succ2, lay, lay2, N, b, k, p, to, other, ends, phi, extra, back),
         \/ IsShiftFlow(N, b, p, lay, to, other, ends, extra, back)
         \/ IsSelectFlow(N, b, p, lay, to, other, ends, extra, back),
         VisitedUpTo(code, lay, PlaceIn(lay, b))
  PROVE  VisitedUpTo(code2, lay2, PlaceIn(lay2, to))
<1>1. /\ N \in Nat /\ b \in 1..N /\ InsertedAt(lay, lay2, N, p)
      /\ \A x \in 1..N : IsBlock(code[x]) /\ IsBlock(code2[x])
  <2>1. /\ N \in Nat /\ b \in 1..N /\ InsertedAt(lay, lay2, N, p)
        /\ \A x \in 1..N : IsBlock(code[x])
        /\ \A x \in 1..(N + 2) : IsBlock(code2[x])
    BY DEF SplitFlow, Blocks
  <2>2. \A x \in 1..N : x \in 1..(N + 2)
    BY <2>1
  <2>. QED
    BY <2>1, <2>2
<1>2. /\ p \in 1..(N - 1) /\ p \in 1..N /\ LayoutOK(lay, N)
      /\ \A i \in 1..p : lay2[i] = lay[i]
      /\ lay2[p + 1] = N + 1
  BY <1>1 DEF InsertedAt, LayoutWith
<1>3. /\ \A i \in 1..N : lay[i] \in 1..N
      /\ \A i, j \in 1..N : lay[i] = lay[j] => i = j
      /\ \A x \in 1..N : \E i \in 1..N : lay[i] = x
  BY <1>2, SeqElements DEF LayoutOK
<1>4. NextMoved(lay, lay2, N, p)
  BY <1>1, NextAfterInsert
<1>5. NoPseudo(code2[b]) /\ code2[other] = extra /\ NoPseudo(extra)
      /\ \A x \in 1..N : x # b => SameFlow(code2[x], code[x])
  BY DEF SplitFlow, FlowOfSplit
<1>6. \A x \in 1..N : NoPseudo(code[x]) => NoPseudo(code2[x])
  <2> TAKE x \in 1..N
  <2>1. CASE x = b
    BY <1>5, <2>1
  <2>2. CASE x # b
    BY <1>1, <1>5, <2>2, SameFlowKeeps
  <2>. QED
    BY <2>1, <2>2
<1>7. CASE IsShiftFlow(N, b, p, lay, to, other, ends, extra, back)
  <2>1. to = N + 2 /\ other = N + 1 /\ p = 1
    BY <1>7 DEF IsShiftFlow
  <2>2. PlaceIn(lay2, to) = 3 /\ lay2[1] = lay[1] /\ lay2[2] = N + 1
    BY <1>2, <1>4, <2>1 DEF NextMoved
  <2>3. NoPseudo(code2[lay[1]])
    <3>1. CASE b = lay[1]
      BY <1>5, <3>1
    <3>2. CASE b # lay[1]
      <4>1. PICK i \in 1..N : lay[i] = b
        BY <1>1, <1>3
      <4>2. PlaceIn(lay, b) = i
        BY <1>2, <4>1, PlaceOf
      <4>3. i # 1
        BY <3>2, <4>1
      <4>4. 1 \in 1..(i - 1) /\ 1 \in 1..N
        BY <1>1, <4>1, <4>3
      <4>5. NoPseudo(code[lay[1]])
        BY <4>2, <4>4 DEF VisitedUpTo
      <4>. QED
        BY <1>3, <1>6, <4>4, <4>5
    <3>. QED
      BY <3>1, <3>2
  <2>4. \A q \in 1..(3 - 1) : q = 1 \/ q = 2
    OBVIOUS
  <2>. QED
    BY <1>5, <2>1, <2>2, <2>3, <2>4 DEF VisitedUpTo
<1>8. CASE IsSelectFlow(N, b, p, lay, to, other, ends, extra, back)
  <2>1. to = N + 1 /\ lay[p] = b
    BY <1>8 DEF IsSelectFlow
  <2>2. PlaceIn(lay2, to) = p + 1 /\ PlaceIn(lay, b) = p
    BY <1>2, <1>4, <2>1, PlaceOf DEF NextMoved
  <2>3. SUFFICES ASSUME NEW q \in 1..((p + 1) - 1) PROVE NoPseudo(code2[lay2[q]])
    BY <2>2 DEF VisitedUpTo
  <2>4. q \in 1..p /\ q \in 1..N /\ lay2[q] = lay[q]
    BY <1>1, <1>2, <2>3
  <2>5. CASE q = p
    BY <1>5, <2>1, <2>4, <2>5
  <2>6. CASE q # p
    <3>1. q \in 1..(p - 1)
      BY <1>1, <1>2, <2>4, <2>6
    <3>2. NoPseudo(code[lay[q]])
      BY <2>2, <3>1 DEF VisitedUpTo
    <3>. QED
      BY <1>3, <1>6, <2>4, <3>2
  <2>. QED
    BY <2>5, <2>6
<1>. QED
  BY <1>7, <1>8

----------------------------------------------------------------------------
(***************************************************************************)
(* The pass keeps what is known of the edges.                               *)
(***************************************************************************)
ProgressInv ==
  /\ phase = "expand" =>
       /\ VisitedUpTo(mbbs, layout, PlaceIn(layout, I))
       /\ \A j \in 1..(mbbi - 1) : j <= Len(mbbs[I]) => mbbs[I][j].op \notin Pseudos
  /\ phase # "expand" => \A b \in 1..Len(mbbs) : NoPseudo(mbbs[b])

FlowInv ==
  /\ AllEndLeave(mbbs, Len(mbbs))
  /\ Safe => SafeFlow(mbbs, succs, layout, Len(mbbs))
  /\ ~Safe => UnsafeFlow(mbbs, succs, layout, Len(mbbs))

EdgesInv == LoweringInv /\ ProgressInv /\ FlowInv

\* Join returns and falls through to nothing.
LEMMA JoinReturns ==
  ASSUME CompilerInv
  PROVE  ~FallsOff(mbbs[Join])
<1>1. Len(mbbs[Join]) = 2 /\ mbbs[Join][2].op = "RET" /\ IsBlock(mbbs[Join])
  <2>1. mbbs[Join] \in Seq(Instrs(nregs, Len(mbbs)))
    BY CompilerFacts
  <2>. QED
    BY <2>1, BlockFacts DEF CompilerInv, JoinOK
<1>. QED
  BY <1>1 DEF FallsOff, Last, IsBlock

\* What the inserters do to the flow of control.
ShiftFlows(N, mi) ==
  LET ends == ShiftEnds(mi, N + 2)
      phi == ShiftPhi(mi.d, mi, I, nregs, N + 1)
      extra == ShiftBody(mi, I, nregs, N + 1)
      back == {N + 2, N + 1}
  IN  /\ SplitFlow(mbbs, succs, mbbs', succs', layout, layout', N, I, mbbi, 1, N + 2, N + 1,
                   ends, phi, extra, back)
      /\ IsShiftFlow(N, I, 1, layout, N + 2, N + 1, ends, extra, back)

SelectFlows(N, mi) ==
  LET ends == DiamondEnds(mi.cond, N + 1, N + 2)
      phi == SelectPhi(mi, I, N + 2)
      extra == <<Rjmp(N + 1)>>
      back == {N + 1}
  IN  /\ SplitFlow(mbbs, succs, mbbs', succs', layout, layout', N, I, mbbi, Place(I), N + 1, N + 2,
                   ends, phi, extra, back)
      /\ IsSelectFlow(N, I, Place(I), layout, N + 1, N + 2, ends, extra, back)

\* What the two have in common.
ReadyToSplit(N) ==
  /\ N = Len(mbbs) /\ N \in Nat /\ LayoutOK(layout, N) /\ I \in 1..N /\ I # Join
  /\ mbbi \in 1..Len(mbbs[I]) /\ AtFirstPseudo(mbbs[I], mbbi)
  /\ AllEndLeave(mbbs, N) /\ ~FallsOff(mbbs[Join])
  /\ \A x \in 1..N : IsBlock(mbbs[x])

\* The pass splits at the first pseudo of the block.
LEMMA Ready ==
  ASSUME CompilerInv, AtInstr, ProgressInv, FlowInv, mbbs[I][mbbi].op \in Pseudos
  PROVE  ReadyToSplit(Len(mbbs))
<1>1. /\ Len(mbbs) \in Nat /\ LayoutOK(layout, Len(mbbs)) /\ I \in 1..Len(mbbs) /\ mbbi \in Nat \ {0}
      /\ \A x \in 1..Len(mbbs) : mbbs[x] \in Seq(Instrs(nregs, Len(mbbs)))
  BY CompilerFacts DEF CompilerInv
<1>2. \A x \in 1..Len(mbbs) : IsBlock(mbbs[x])
  BY <1>1, BlockFacts
<1>3. mbbi \in 1..Len(mbbs[I]) /\ Len(mbbs[I]) \in Nat
  BY <1>1, <1>2 DEF AtInstr, IsBlock
<1>4. I # Join
  BY <1>1, <1>3, PseudoNotInJoin
<1>5. \A j \in 1..(mbbi - 1) : mbbs[I][j].op \notin Pseudos
  <2> TAKE j \in 1..(mbbi - 1)
  <2>1. j <= Len(mbbs[I])
    BY <1>3
  <2>2. phase = "expand"
    BY DEF AtInstr
  <2>. QED
    BY <2>1, <2>2 DEF ProgressInv
<1>. QED
  BY <1>1, <1>2, <1>3, <1>4, <1>5, JoinReturns DEF ReadyToSplit, AtFirstPseudo, FlowInv

\* The new code is made of blocks.
LEMMA NewBlocksFacts ==
  ASSUME NEW n, NEW N, GraphOK(mbbs', succs', n, N)
  PROVE  MachineCode(mbbs', n, N) /\ \A x \in 1..N : IsBlock(mbbs'[x])
<1>1. MachineCode(mbbs', n, N)
  BY DEF GraphOK
<1>2. \A x \in 1..N : mbbs'[x] \in Seq(Instrs(n, N))
  BY <1>1, SeqElements DEF MachineCode
<1>. QED
  BY <1>1, <1>2, BlockFacts

\* insertShift, as control sees it.
LEMMA ShiftFlowOf ==
  ASSUME CompilerInv, AtInstr, NEW N, ReadyToSplit(N), NEW mi, mi = mbbs[I][mbbi],
         mi.op = "ShiftLoop", InsertShift(I, mi)
  PROVE  ShiftFlows(N, mi) /\ AllEndLeave(mbbs', N + 2)
<1> DEFINE ends == ShiftEnds(mi, N + 2)
           phi == ShiftPhi(mi.d, mi, I, nregs, N + 1)
           extra == ShiftBody(mi, I, nregs, N + 1)
           back == {N + 2, N + 1}
<1>1. ShiftSplits(I, mi) /\ N = Len(mbbs)
  BY ShiftIsSplit DEF ReadyToSplit
<1>2. PlainParts(ends, phi, extra)
      /\ LeavesTo(ends) = {N + 2} /\ FallsOff(ends)
      /\ LeavesTo(extra) = {N + 1} /\ FallsOff(extra)
  BY ShiftPartsFlow
<1> HIDE DEF ends, phi, extra
<1>3. /\ Splittable(mbbs, succs, nregs, nregs + 4, N, I, mbbi, N + 2, N + 1, ends, phi, extra, back)
      /\ SplitOf(mbbs, succs, mbbs', succs', I, mbbi, N + 2, N + 1, ends, phi, extra, back)
      /\ GraphOK(mbbs', succs', nregs + 4, N + 2)
      /\ LayoutWith(layout, layout', 1, N + 1, N + 2, N)
      /\ LayoutOK(layout', N + 2)
  BY <1>1 DEF ShiftSplits, ends, phi, extra, back
<1> HIDE DEF back
<1>4. MachineCode(mbbs', nregs + 4, N + 2) /\ \A x \in 1..(N + 2) : IsBlock(mbbs'[x])
  BY <1>3, NewBlocksFacts, Zenon
<1>5. AllEndLeave(mbbs, N) /\ AtFirstPseudo(mbbs[I], mbbi)
  BY DEF ReadyToSplit
<1>6. /\ FlowOfSplit(mbbs, succs, mbbs', succs', N, I, mbbi, N + 2, N + 1, ends, phi, extra, back)
      /\ AllEndLeave(mbbs', N + 2)
  BY <1>2, <1>3, <1>4, <1>5, SplitFlows, Zenon
<1>7. 1 \in 1..(N - 1) /\ layout[1] = Entry
  BY DEF ReadyToSplit, LayoutOK
<1>8. InsertedAt(layout, layout', N, 1)
  BY <1>3, <1>7 DEF InsertedAt, ReadyToSplit
<1>9. Blocks(mbbs, mbbs', layout, layout', N, I, mbbi, 1, N + 2, N + 1)
  BY <1>4, <1>8 DEF Blocks, ReadyToSplit
<1>10. SplitFlow(mbbs, succs, mbbs', succs', layout, layout', N, I, mbbi, 1, N + 2, N + 1,
                 ends, phi, extra, back)
  BY <1>2, <1>6, <1>9 DEF SplitFlow, PlainParts
<1>11. IsShiftFlow(N, I, 1, layout, N + 2, N + 1, ends, extra, back)
  BY <1>2, <1>7 DEF IsShiftFlow, back
<1>. QED
  BY <1>6, <1>10, <1>11, Zenon DEF ShiftFlows, ends, phi, extra, back

\* The diamond, as control sees it.
LEMMA SelectFlowOf ==
  ASSUME CompilerInv, AtInstr, NEW N, ReadyToSplit(N), NEW mi, mi = mbbs[I][mbbi],
         mi.op = "Select", InsertSelect(I, mi)
  PROVE  SelectFlows(N, mi) /\ AllEndLeave(mbbs', N + 2)
<1> DEFINE ends == DiamondEnds(mi.cond, N + 1, N + 2)
           phi == SelectPhi(mi, I, N + 2)
           extra == <<Rjmp(N + 1)>>
           back == {N + 1}
<1>1. SelectSplits(I, mi) /\ N = Len(mbbs) /\ N \in Nat
  BY SelectIsSplit DEF ReadyToSplit
<1>2. PlainParts(ends, phi, extra)
      /\ LeavesTo(ends) = {N + 1, N + 2} /\ ~FallsOff(ends)
      /\ LeavesTo(extra) = {N + 1} /\ ~FallsOff(extra)
  BY <1>1, SelectPartsFlow
<1> HIDE DEF ends, phi, extra
<1>3. /\ Splittable(mbbs, succs, nregs, nregs, N, I, mbbi, N + 1, N + 2, ends, phi, extra, back)
      /\ SplitOf(mbbs, succs, mbbs', succs', I, mbbi, N + 1, N + 2, ends, phi, extra, back)
      /\ GraphOK(mbbs', succs', nregs, N + 2)
      /\ LayoutWith(layout, layout', Place(I), N + 1, N + 2, N)
      /\ LayoutOK(layout', N + 2)
  BY <1>1 DEF SelectSplits, ends, phi, extra, back
<1> HIDE DEF back
<1>4. MachineCode(mbbs', nregs, N + 2) /\ \A x \in 1..(N + 2) : IsBlock(mbbs'[x])
  BY <1>3, NewBlocksFacts, Zenon
<1>5. AllEndLeave(mbbs, N) /\ AtFirstPseudo(mbbs[I], mbbi)
  BY DEF ReadyToSplit
<1>6. /\ FlowOfSplit(mbbs, succs, mbbs', succs', N, I, mbbi, N + 1, N + 2, ends, phi, extra, back)
      /\ AllEndLeave(mbbs', N + 2)
  BY <1>2, <1>3, <1>4, <1>5, SplitFlows, Zenon
<1>7. Place(I) \in 1..(N - 1) /\ layout[Place(I)] = I
  <2>1. I \in 1..Len(mbbs) /\ I # Join /\ LayoutOK(layout, Len(mbbs))
    BY DEF ReadyToSplit
  <2>. QED
    BY <1>1, <2>1, NextInLayout, PlaceIsPlace
<1>8. InsertedAt(layout, layout', N, Place(I))
  BY <1>3, <1>7 DEF InsertedAt, ReadyToSplit
<1>9. Blocks(mbbs, mbbs', layout, layout', N, I, mbbi, Place(I), N + 1, N + 2)
  BY <1>4, <1>8 DEF Blocks, ReadyToSplit
<1>10. SplitFlow(mbbs, succs, mbbs', succs', layout, layout', N, I, mbbi, Place(I), N + 1, N + 2,
                 ends, phi, extra, back)
  BY <1>2, <1>6, <1>9 DEF SplitFlow, PlainParts
<1>11. IsSelectFlow(N, I, Place(I), layout, N + 1, N + 2, ends, extra, back)
  BY <1>2, <1>7 DEF IsSelectFlow, back
<1>. QED
  BY <1>6, <1>10, <1>11, Zenon DEF SelectFlows, ends, phi, extra, back

\* An expansion keeps the edges, and the order of the pseudos.
LEMMA ExpandFlows ==
  ASSUME EdgesInv, Expand
  PROVE  ProgressInv' /\ FlowInv'
<1> DEFINE N == Len(mbbs)
           mi == mbbs[I][mbbi]
<1>1. /\ CompilerInv /\ ProgressInv /\ FlowInv /\ AtInstr /\ phase = "expand" /\ phase' = "expand"
      /\ mbbi' = 1 /\ f' = f
      /\ (mi.op = "ShiftLoop" /\ InsertShift(I, mi)) \/ (mi.op = "Select" /\ InsertSelect(I, mi))
  <2>1. /\ CompilerInv /\ ProgressInv /\ FlowInv /\ AtInstr /\ phase = "expand" /\ phase' = "expand"
        /\ mbbi' = 1 /\ f' = f
    BY DEF EdgesInv, LoweringInv, Expand, AtInstr
  <2>2. (mi.op = "ShiftLoop" /\ InsertShift(I, mi)) \/ (mi.op = "Select" /\ InsertSelect(I, mi))
    BY DEF Expand
  <2>. QED
    BY <2>1, <2>2
<1>2. ReadyToSplit(N) /\ N \in Nat /\ I \in 1..N
  <2>1. mi.op \in Pseudos
    BY <1>1 DEF Pseudos
  <2>2. ReadyToSplit(N)
    BY <1>1, <2>1, Ready
  <2>. QED
    BY <2>2 DEF ReadyToSplit
<1>3. succs[I] \subseteq 1..N
  <2>1. succs \in Seq(SUBSET (1..N)) /\ Len(succs) = N
    BY <1>1 DEF CompilerInv, GraphOK
  <2>2. succs[I] \in SUBSET (1..N)
    BY <1>2, <2>1, SeqElements
  <2>. QED
    BY <2>2
<1>4. VisitedUpTo(mbbs, layout, PlaceIn(layout, I))
  BY <1>1 DEF ProgressInv
<1>5. /\ AllEndLeave(mbbs', N + 2) /\ Len(mbbs') = N + 2
      /\ SafeFlow(mbbs, succs, layout, N) => SafeFlow(mbbs', succs', layout', N + 2)
      /\ UnsafeFlow(mbbs, succs, layout, N) => UnsafeFlow(mbbs', succs', layout', N + 2)
      /\ VisitedUpTo(mbbs', layout', PlaceIn(layout', I'))
  <2>1. CASE mi.op = "ShiftLoop" /\ InsertShift(I, mi)
    <3> DEFINE ends == ShiftEnds(mi, N + 2)
               phi == ShiftPhi(mi.d, mi, I, nregs, N + 1)
               extra == ShiftBody(mi, I, nregs, N + 1)
               back == {N + 2, N + 1}
    <3>1. ShiftFlows(N, mi) /\ AllEndLeave(mbbs', N + 2)
      BY <1>1, <1>2, <2>1, ShiftFlowOf
    <3>2. /\ SplitFlow(mbbs, succs, mbbs', succs', layout, layout', N, I, mbbi, 1, N + 2, N + 1,
                       ends, phi, extra, back)
          /\ IsShiftFlow(N, I, 1, layout, N + 2, N + 1, ends, extra, back)
      BY <3>1 DEF ShiftFlows
    <3>3. I' = N + 2
      BY <2>1 DEF InsertShift
    <3>4. Len(mbbs') = N + 2
      BY <1>1, <2>1, ShiftIsSplit DEF ShiftSplits, SplitOf
    <3>. HIDE DEF ends, phi, extra, back, N
    <3>5. mbbs[I][mbbi].op = "ShiftLoop"
      BY <2>1
    <3>6. SafeFlow(mbbs, succs, layout, N) => SafeFlow(mbbs', succs', layout', N + 2)
      BY <3>2, <3>5, SafeSplit, Zenon
    <3>7. UnsafeFlow(mbbs, succs, layout, N) => UnsafeFlow(mbbs', succs', layout', N + 2)
      BY <1>3, <3>2, <3>5, UnsafeSplit, Zenon
    <3>8. VisitedUpTo(mbbs', layout', PlaceIn(layout', N + 2))
      <4>1. \/ IsShiftFlow(N, I, 1, layout, N + 2, N + 1, ends, extra, back)
            \/ IsSelectFlow(N, I, 1, layout, N + 2, N + 1, ends, extra, back)
        BY <3>2
      <4>. QED
        BY <1>4, <3>2, <4>1, VisitedAfterSplit
    <3>. QED
      BY <3>1, <3>3, <3>4, <3>6, <3>7, <3>8
  <2>2. CASE mi.op = "Select" /\ InsertSelect(I, mi)
    <3> DEFINE ends == DiamondEnds(mi.cond, N + 1, N + 2)
               phi == SelectPhi(mi, I, N + 2)
               extra == <<Rjmp(N + 1)>>
               back == {N + 1}
    <3>1. SelectFlows(N, mi) /\ AllEndLeave(mbbs', N + 2)
      BY <1>1, <1>2, <2>2, SelectFlowOf
    <3>2. /\ SplitFlow(mbbs, succs, mbbs', succs', layout, layout', N, I, mbbi, Place(I), N + 1, N + 2,
                       ends, phi, extra, back)
          /\ IsSelectFlow(N, I, Place(I), layout, N + 1, N + 2, ends, extra, back)
      BY <3>1 DEF SelectFlows
    <3>3. I' = N + 1
      BY <2>2 DEF InsertSelect
    <3>4. Len(mbbs') = N + 2
      BY <1>1, <2>2, SelectIsSplit DEF SelectSplits, SplitOf
    <3>. HIDE DEF ends, phi, extra, back, N
    <3>5. mbbs[I][mbbi].op = "Select"
      BY <2>2
    <3>6. SafeFlow(mbbs, succs, layout, N) => SafeFlow(mbbs', succs', layout', N + 2)
      BY <3>2, <3>5, SafeSplit, Zenon
    <3>7. UnsafeFlow(mbbs, succs, layout, N) => UnsafeFlow(mbbs', succs', layout', N + 2)
      BY <1>3, <3>2, <3>5, UnsafeSplit, Zenon
    <3>8. VisitedUpTo(mbbs', layout', PlaceIn(layout', N + 1))
      <4>1. \/ IsShiftFlow(N, I, Place(I), layout, N + 1, N + 2, ends, extra, back)
            \/ IsSelectFlow(N, I, Place(I), layout, N + 1, N + 2, ends, extra, back)
        BY <3>2
      <4>. QED
        BY <1>4, <3>2, <4>1, VisitedAfterSplit
    <3>. QED
      BY <3>1, <3>3, <3>4, <3>6, <3>7, <3>8
  <2>. QED
    BY <1>1, <2>1, <2>2
<1>6. Safe' <=> Safe
  BY <1>1 DEF Safe
<1>7. FlowInv'
  BY <1>1, <1>5, <1>6 DEF FlowInv
<1>8. ProgressInv'
  <2>1. \A j \in 1..(1 - 1) : FALSE
    OBVIOUS
  <2>. QED
    BY <1>1, <1>5, <2>1 DEF ProgressInv
<1>. QED
  BY <1>7, <1>8

\* So does going on to the next instruction.
LEMMA PassFlows ==
  ASSUME EdgesInv, Pass
  PROVE  ProgressInv' /\ FlowInv'
<1>1. /\ CompilerInv /\ ProgressInv /\ FlowInv /\ AtInstr /\ phase = "expand" /\ phase' = phase
      /\ mbbi' = mbbi + 1 /\ f' = f /\ mbbs' = mbbs /\ succs' = succs /\ layout' = layout /\ I' = I
      /\ mbbs[I][mbbi].op \notin Pseudos /\ mbbi \in Nat
  BY DEF EdgesInv, LoweringInv, CompilerInv, Pass, AtInstr
<1>2. Safe' <=> Safe
  BY <1>1 DEF Safe
<1>3. FlowInv'
  BY <1>1, <1>2 DEF FlowInv
<1>4. \A j \in 1..((mbbi + 1) - 1) : j <= Len(mbbs[I]) => mbbs[I][j].op \notin Pseudos
  <2>1. \A j \in 1..((mbbi + 1) - 1) : j = mbbi \/ j \in 1..(mbbi - 1)
    BY <1>1
  <2>. QED
    BY <1>1, <2>1 DEF ProgressInv
<1>5. ProgressInv'
  BY <1>1, <1>4 DEF ProgressInv
<1>. QED
  BY <1>3, <1>5

\* At the end of the layout no pseudo is left.
LEMMA NextBlockFlows ==
  ASSUME EdgesInv, NextBlock
  PROVE  ProgressInv' /\ FlowInv'
<1> DEFINE N == Len(mbbs)
<1>1. /\ CompilerInv /\ ProgressInv /\ FlowInv /\ phase = "expand" /\ mbbi > Len(mbbs[I])
      /\ mbbi' = 1 /\ f' = f /\ mbbs' = mbbs /\ succs' = succs /\ layout' = layout
  BY DEF EdgesInv, LoweringInv, NextBlock
<1>2. N \in Nat /\ I \in 1..N /\ LayoutOK(layout, N) /\ Len(mbbs[I]) \in Nat /\ mbbi \in Nat
  BY <1>1, CompilerFacts DEF CompilerInv
<1>3. layout \in Seq(1..N) /\ Len(layout) = N
      /\ \A x \in 1..N : \E i \in 1..N : layout[i] = x
  BY <1>2 DEF LayoutOK
<1>4. Safe' <=> Safe
  BY <1>1 DEF Safe
<1>5. FlowInv'
  BY <1>1, <1>4 DEF FlowInv
<1>6. NoPseudo(mbbs[I])
  <2>1. \A j \in 1..Len(mbbs[I]) : j \in 1..(mbbi - 1) /\ j <= Len(mbbs[I])
    BY <1>1, <1>2
  <2>. QED
    BY <1>1, <2>1 DEF ProgressInv, NoPseudo
<1>7. PICK p \in 1..N : layout[p] = I
  BY <1>2, <1>3
<1>8. PlaceIn(layout, I) = p /\ Place(I) = p
  <2>1. PlaceIn(layout, I) = p
    BY <1>2, <1>7, PlaceOf
  <2>. QED
    BY <2>1 DEF Place, PlaceIn, SelectInSeq
<1>9. \A q \in 1..p : NoPseudo(mbbs[layout[q]])
  <2>1. \A q \in 1..p : q = p \/ q \in 1..(p - 1)
    BY <1>2
  <2>. QED
    BY <1>1, <1>6, <1>7, <1>8, <2>1 DEF ProgressInv, VisitedUpTo
<1>10. CASE p < Len(layout)
  <2>1. I' = layout[p + 1] /\ phase' = phase
    BY <1>8, <1>10 DEF NextBlock
  <2>2. p + 1 \in 1..N /\ (p + 1) - 1 = p
    BY <1>2, <1>3, <1>10
  <2>3. PlaceIn(layout, layout[p + 1]) = p + 1
    BY <1>2, <2>2, PlaceOf
  <2>4. VisitedUpTo(mbbs, layout, p + 1)
    BY <1>9, <2>2 DEF VisitedUpTo
  <2>5. \A j \in 1..(1 - 1) : FALSE
    OBVIOUS
  <2>6. ProgressInv'
    BY <1>1, <2>1, <2>3, <2>4, <2>5 DEF ProgressInv
  <2>. QED
    BY <1>5, <2>6
<1>11. CASE ~(p < Len(layout))
  <2>1. phase' = "run"
    BY <1>8, <1>11 DEF NextBlock
  <2>2. p = N
    BY <1>2, <1>3, <1>11
  <2>3. \A b \in 1..N : NoPseudo(mbbs[b])
    BY <1>3, <1>9, <2>2
  <2>4. ProgressInv'
    BY <1>1, <2>1, <2>3 DEF ProgressInv
  <2>. QED
    BY <1>5, <2>4
<1>. QED
  BY <1>10, <1>11

\* The running program leaves the code and so where it goes.
LEMMA RunFlows ==
  ASSUME EdgesInv, phase # "expand", phase' # "expand", UNCHANGED Code
  PROVE  ProgressInv' /\ FlowInv'
<1>1. /\ ProgressInv /\ FlowInv
      /\ f' = f /\ mbbs' = mbbs /\ succs' = succs /\ layout' = layout
  BY DEF EdgesInv, Code
<1>2. Safe' <=> Safe
  BY <1>1 DEF Safe
<1>. QED
  BY <1>1, <1>2 DEF ProgressInv, FlowInv

\* Every step keeps what is known of the edges.
LEMMA FlowStep ==
  ASSUME EdgesInv, [Next]_vars
  PROVE  EdgesInv'
<1>1. LoweringInv'
  BY LoweringStep DEF EdgesInv
<1>2. CASE Expand
  BY <1>1, <1>2, ExpandFlows DEF EdgesInv
<1>3. CASE Pass
  BY <1>1, <1>3, PassFlows DEF EdgesInv
<1>4. CASE NextBlock
  BY <1>1, <1>4, NextBlockFlows DEF EdgesInv
<1>5. CASE RunPhi \/ Compute \/ Branch \/ FallThrough \/ Ret
  <2>1. phase # "expand" /\ phase' # "expand" /\ UNCHANGED Code
    BY <1>5 DEF RunPhi, Compute, Branch, FallThrough, Ret, Running
  <2>. QED
    BY <1>1, <2>1, RunFlows DEF EdgesInv
<1>6. CASE UNCHANGED vars
  <2>1. /\ f' = f /\ mbbs' = mbbs /\ succs' = succs /\ layout' = layout
        /\ I' = I /\ mbbi' = mbbi /\ phase' = phase
    BY <1>6 DEF vars
  <2>2. Safe' <=> Safe
    BY <2>1 DEF Safe
  <2>. QED
    BY <1>1, <2>1, <2>2 DEF EdgesInv, ProgressInv, FlowInv
<1>. QED
  BY <1>2, <1>3, <1>4, <1>5, <1>6 DEF Next, Stopped

----------------------------------------------------------------------------
(***************************************************************************)
(* The edges of the code the pass starts with.                              *)
(***************************************************************************)
\* Nothing in the block leaves it.
Stays(block) == \A i \in 1..Len(block) : block[i].op \notin {"BR", "RJMPk", "RET"}

\* A block that starts with s and whose end t has no pseudo.
StartsWith(r, s) ==
  /\ \A i \in 1..Len(r) : r[i].op \in Pseudos => i \in 1..Len(s)
  /\ \A i \in 1..Len(s) : i \in 1..Len(r) /\ r[i] = s[i]

\* Operations that do not leave in front of an end leave as the end does.
LEMMA JoinedFlow ==
  ASSUME NEW s, NEW t, NEW r, IsBlock(s), IsBlock(t), IsBlock(r), IsJoined(r, s, t),
         Stays(s), NoPseudo(t)
  PROVE  /\ LeavesTo(r) = LeavesTo(t) /\ (FallsOff(r) <=> FallsOff(t))
         /\ EndsLeave(r) /\ StartsWith(r, s)
<1>1. /\ Len(s) \in Nat /\ Len(t) \in Nat /\ Len(r) = Len(s) + Len(t)
      /\ DOMAIN t = 1..Len(t) /\ DOMAIN r = 1..Len(r)
      /\ (t = << >> <=> Len(t) = 0) /\ (r = << >> <=> Len(r) = 0)
  BY DEF IsBlock, IsJoined
<1>2. \A i \in 1..Len(s) : i \in 1..Len(r) /\ r[i] = s[i] /\ r[i].op \notin {"BR", "RJMPk", "RET"}
  BY <1>1 DEF IsJoined, Stays
<1>3. \A i \in 1..Len(t) : Len(s) + i \in 1..Len(r) /\ r[Len(s) + i] = t[i]
  BY <1>1 DEF IsJoined
<1>4. \A i \in 1..Len(r) : i \in 1..Len(s) \/ (i - Len(s) \in 1..Len(t) /\ r[i] = t[i - Len(s)])
  <2> TAKE i \in 1..Len(r)
  <2>1. CASE i > Len(s)
    <3>1. i - Len(s) \in 1..Len(t) /\ Len(s) + (i - Len(s)) = i
      BY <1>1, <2>1
    <3>2. r[Len(s) + (i - Len(s))] = t[i - Len(s)]
      BY <1>3, <3>1
    <3>. QED
      BY <3>1, <3>2
  <2>2. CASE ~(i > Len(s))
    <3>1. i \in Nat /\ i >= 1 /\ i <= Len(s)
      BY <1>1, <2>2
    <3>2. i \in 1..Len(s)
      BY <1>1, <3>1
    <3>. QED
      BY <3>2
  <2>. QED
    BY <2>1, <2>2
<1>5. StartsWith(r, s)
  BY <1>2, <1>4 DEF StartsWith, NoPseudo
<1>6. EndsLeave(r)
  <2>1. \A i \in 1..Len(r) : r[i].op \in Pseudos => \A j \in 1..i : j \in 1..Len(s)
    BY <1>1, <1>5 DEF StartsWith
  <2>. QED
    BY <1>2, <2>1 DEF EndsLeave
<1>7. LeavesTo(r) = LeavesTo(t)
  <2>1. ASSUME NEW x \in LeavesTo(r) PROVE x \in LeavesTo(t)
    <3>1. PICK i \in 1..Len(r) : r[i].op \in {"BR", "RJMPk"} /\ x = r[i].to
      BY <1>1 DEF LeavesTo
    <3>2. i - Len(s) \in 1..Len(t) /\ r[i] = t[i - Len(s)]
      BY <1>2, <1>4, <3>1
    <3>. QED
      BY <1>1, <3>1, <3>2 DEF LeavesTo
  <2>2. ASSUME NEW x \in LeavesTo(t) PROVE x \in LeavesTo(r)
    <3>1. PICK i \in 1..Len(t) : t[i].op \in {"BR", "RJMPk"} /\ x = t[i].to
      BY <1>1 DEF LeavesTo
    <3>2. Len(s) + i \in 1..Len(r) /\ r[Len(s) + i] = t[i]
      BY <1>3
    <3>. QED
      BY <1>1, <3>1, <3>2 DEF LeavesTo
  <2>. QED
    BY <2>1, <2>2
<1>8. FallsOff(r) <=> FallsOff(t)
  <2>1. CASE Len(t) # 0
    <3>1. Len(t) \in 1..Len(t) /\ Len(r) # 0
      BY <1>1, <2>1
    <3>2. r[Len(s) + Len(t)] = t[Len(t)]
      BY <1>3, <3>1
    <3>3. r[Len(r)].op = t[Len(t)].op
      BY <1>1, <3>2
    <3>. QED
      BY <1>1, <2>1, <3>1, <3>3 DEF FallsOff, Last
  <2>2. CASE Len(t) = 0 /\ Len(s) # 0
    <3>1. Len(r) \in 1..Len(s)
      BY <1>1, <2>2
    <3>2. r[Len(r)].op \notin {"RJMPk", "RET"}
      BY <1>2, <3>1
    <3>. QED
      BY <1>1, <2>2, <3>2 DEF FallsOff, Last
  <2>3. CASE Len(t) = 0 /\ Len(s) = 0
    <3>1. Len(r) = 0
      BY <1>1, <2>3
    <3>. QED
      BY <1>1, <2>3, <3>1 DEF FallsOff
  <2>. QED
    BY <2>1, <2>2, <2>3
<1>. QED
  BY <1>5, <1>6, <1>7, <1>8

\* How block b leaves, by the way it ends.
EndsAs(block, b) ==
  /\ NoPseudo(block)
  /\ b = Entry /\ f.branches => LeavesTo(block) = {Join, Body} /\ ~FallsOff(block)
  /\ ~(b = Entry /\ f.branches) /\ ~f.optimized => LeavesTo(block) = {b + 1} /\ ~FallsOff(block)
  /\ ~(b = Entry /\ f.branches) /\ f.optimized => LeavesTo(block) = {} /\ FallsOff(block)

\* How the branch, the jump and nothing at all leave.
LEMMA EndingFlow ==
  ASSUME f \in Functions, NEW b \in {Entry, Body}
  PROVE  EndsAs(Ending(b), b)
<1>0. f.branches \in BOOLEAN /\ f.optimized \in BOOLEAN
  BY FunctionFacts DEF IsFunction
<1>1. CASE b = Entry /\ f.branches
  <2> DEFINE c == CmpNodes(Cmp, f.cmp.bytes)
             x == Br(Cmp.cc, Join)
             y == Rjmp(Body)
             t == WithTwo(c, x, y)
  <2>1. IsCompare(Cmp, Res)
    BY CmpType DEF Res
  <2>2. PICK T : T = CompareInstrs(Res) \cup {x, y}
    OBVIOUS
  <2>3. c \in Seq(CompareInstrs(Res))
    BY <2>1, CmpNodesType, FunctionFacts DEF Res
  <2>4. x.op = "BR" /\ x.to = Join /\ y.op = "RJMPk" /\ y.to = Body
    BY DEF Br, Rjmp
  <2>5. Ending(b) = t
    BY <1>1, EndingIs DEF WithTwo
  <2>. HIDE DEF c, x, y
  <2>6. c \in Seq(T)
    <3>1. CompareInstrs(Res) \subseteq T
      BY <2>2
    <3>2. \A A, B : A \subseteq B => Seq(A) \subseteq Seq(B)
      OBVIOUS
    <3>. QED
      BY <2>3, <3>1, <3>2
  <2>7. t \in Seq(T) /\ IsTwoMore(t, c, x, y)
    BY <2>2, <2>6, TwoMore
  <2>8. IsBlock(c) /\ \A i \in 1..Len(c) : c[i].op \in {"CMP", "CMPC", "TST"}
    <3>1. \A z \in CompareInstrs(Res) : z.op \in {"CMP", "CMPC", "TST"}
      BY DEF CompareInstrs
    <3>2. \A i \in 1..Len(c) : c[i] \in CompareInstrs(Res)
      BY <2>3, SeqElements
    <3>. QED
      BY <2>3, <3>1, <3>2, BlockFacts
  <2>9. IsBlock(t)
    BY <2>7, BlockFacts
  <2>. HIDE DEF t
  <2>10. /\ Len(c) \in Nat /\ Len(t) = Len(c) + 2 /\ DOMAIN t = 1..Len(t) /\ t # << >>
         /\ t[Len(c) + 1] = x /\ t[Len(c) + 2] = y
         /\ \A i \in 1..Len(c) : t[i].op \in {"CMP", "CMPC", "TST"}
    BY <2>7, <2>8, <2>9 DEF IsBlock, IsTwoMore
  <2>11. \A i \in 1..Len(t) : i \in 1..Len(c) \/ i = Len(c) + 1 \/ i = Len(c) + 2
    BY <2>10
  <2>12. Len(c) + 1 \in 1..Len(t) /\ Len(c) + 2 \in 1..Len(t)
    BY <2>10
  <2>13. NoPseudo(t)
    BY <2>4, <2>10, <2>11 DEF NoPseudo, Pseudos
  <2>14. ~FallsOff(t)
    BY <2>4, <2>10 DEF FallsOff, Last
  <2>15. LeavesTo(t) = {Join, Body}
    <3>1. {i \in DOMAIN t : t[i].op \in {"BR", "RJMPk"}} = {Len(c) + 1, Len(c) + 2}
      BY <2>4, <2>10, <2>11, <2>12
    <3>. QED
      BY <2>4, <2>10, <3>1 DEF LeavesTo
  <2>. QED
    BY <1>1, <2>5, <2>13, <2>14, <2>15 DEF EndsAs
<1>2. CASE ~(b = Entry /\ f.branches) /\ ~f.optimized
  <2> DEFINE t == <<Rjmp(b + 1)>>
  <2>1. Ending(b) = t
    BY <1>2, EndingIs
  <2>2. Len(t) = 1 /\ DOMAIN t = 1..1 /\ t # << >> /\ t[1].op = "RJMPk" /\ t[1].to = b + 1
    BY DEF Rjmp
  <2>. HIDE DEF t
  <2>3. {i \in DOMAIN t : t[i].op \in {"BR", "RJMPk"}} = {1}
    BY <2>2
  <2>4. LeavesTo(t) = {b + 1} /\ ~FallsOff(t) /\ NoPseudo(t)
    BY <2>2, <2>3 DEF LeavesTo, FallsOff, Last, NoPseudo, Pseudos
  <2>. QED
    BY <1>2, <2>1, <2>4 DEF EndsAs
<1>3. CASE ~(b = Entry /\ f.branches) /\ f.optimized
  <2>1. Ending(b) = << >>
    BY <1>3, EndingIs
  <2>2. LeavesTo(<< >>) = {} /\ FallsOff(<< >>) /\ NoPseudo(<< >>)
    BY DEF LeavesTo, FallsOff, NoPseudo
  <2>. QED
    BY <1>3, <2>1, <2>2 DEF EndsAs
<1>. QED
  BY <1>0, <1>1, <1>2, <1>3

Kind(i) == f.ops[i].kind

\* What an operation of each kind becomes, as the pass sees it.
IsLowered(p, kind) ==
  /\ Len(p) \in Nat
  /\ kind \in {"const", "loop", "select", "setcc"}
  /\ kind = "const" => \A j \in 1..Len(p) : p[j].op \notin Pseudos
  /\ kind = "loop" => Len(p) = 1 /\ p[1].op = "ShiftLoop"
  /\ kind \in {"select", "setcc"} =>
       /\ Len(p) > 0 /\ p[Len(p)].op = "Select"
       /\ \A j \in 1..Len(p) : p[j].op # "ShiftLoop"

\* The pseudos of an operation.
LEMMA LowerOpFlow ==
  ASSUME f \in Functions, NEW i \in 1..NumOps
  PROVE  IsLowered(LowerOp(i), Kind(i))
<1> DEFINE op == f.ops[i]
           s == OpReg(i - 1)
           d == OpReg(i)
<1>1. op \in SourceOps
  BY FunctionFacts, SeqElements
<1>2. op.kind \in {"const", "loop", "select", "setcc"} /\ (op.kind = "const" => op.n \in Nat)
  BY <1>1 DEF SourceOps
<1>3. Len(LowerOp(i)) \in Nat
  BY LowerOpType, SeqElements
<1>4. CASE op.kind = "const"
  <2> DEFINE p == [j \in 1..op.n |-> Shift(d, IF j = 1 THEN s ELSE d, op.how)]
  <2>1. LowerOp(i) = p
    BY <1>4 DEF LowerOp, LowerShifts
  <2>2. Len(p) = op.n /\ \A j \in 1..op.n : p[j].op = "SHIFT"
    BY <1>2, <1>4 DEF Shift
  <2>. HIDE DEF p
  <2>. QED
    BY <1>2, <1>3, <1>4, <2>1, <2>2 DEF IsLowered, Kind, Pseudos
<1>5. CASE op.kind = "loop"
  <2> DEFINE x == [op |-> "ShiftLoop", d |-> d, s |-> s, n |-> Amount, how |-> op.how]
  <2>1. LowerOp(i) = <<x>> /\ x.op = "ShiftLoop"
    BY <1>5 DEF LowerOp, LowerShifts
  <2>. HIDE DEF x
  <2>. QED
    BY <1>2, <1>5, <2>1 DEF IsLowered, Kind
<1>6. CASE op.kind \in {"select", "setcc"}
  <2> DEFINE x == [op |-> "Select", d |-> d, cond |-> Cmp.cc,
                   t |-> IF op.kind = "select" THEN s ELSE One,
                   f |-> IF op.kind = "select" THEN Other ELSE Zero]
             c == CmpNodes(Cmp, f.cmp.bytes)
             p == Append(c, x)
  <2>1. LowerOp(i) = p /\ x.op = "Select"
    BY <1>6 DEF LowerOp, LowerSelect
  <2>2. c \in Seq(CompareInstrs(Res))
    <3>1. IsCompare(Cmp, Res)
      BY CmpType DEF Res
    <3>. QED
      BY <3>1, CmpNodesType, FunctionFacts DEF Res
  <2>. HIDE DEF c, x
  <2>3. Len(c) \in Nat /\ \A j \in 1..Len(c) : c[j].op # "ShiftLoop"
    <3>1. \A z \in CompareInstrs(Res) : z.op # "ShiftLoop"
      BY DEF CompareInstrs
    <3>. QED
      BY <2>2, <3>1, SeqElements
  <2>4. Len(p) = Len(c) + 1 /\ p[Len(c) + 1] = x /\ \A j \in 1..Len(c) : p[j] = c[j]
    BY <2>2
  <2>. HIDE DEF p
  <2>5. \A j \in 1..Len(p) : j \in 1..Len(c) \/ j = Len(c) + 1
    BY <2>3, <2>4
  <2>6. Len(p) > 0 /\ p[Len(p)].op = "Select" /\ \A j \in 1..Len(p) : p[j].op # "ShiftLoop"
    BY <2>1, <2>3, <2>4, <2>5
  <2>. QED
    BY <1>2, <1>3, <1>6, <2>1, <2>6 DEF IsLowered, Kind
<1>. QED
  BY <1>2, <1>4, <1>5, <1>6

\* Parts of kinds, one after another in r.
PartsInOrder(at, q, kinds, r, K) ==
  /\ K \in Nat /\ Len(q) = K /\ Len(r) \in Nat
  /\ \A n \in 1..K : IsLowered(q[n], kinds[n])
  /\ \A n \in 1..K : at[n] \in Nat /\ at[n + 1] = at[n] + Len(q[n])
  /\ \A n \in 1..K : \A j \in 1..Len(q[n]) : at[n] + j \in 1..Len(r) /\ r[at[n] + j] = q[n][j]
  /\ \A m \in 1..K : \A n \in 1..K : m < n => at[m + 1] <= at[n]
  /\ \A k \in 1..Len(r) : InSegment(at, q, r, k)

LoopsLead(r) ==
  \A k \in 1..Len(r) : r[k].op = "ShiftLoop" => \A j \in 1..(k - 1) : r[j].op \notin Pseudos

ConstsLead(kinds, K) ==
  \A n \in 1..K : kinds[n] = "loop" => \A m \in 1..(n - 1) : kinds[m] = "const"

Has(r, op) == \E k \in 1..Len(r) : r[k].op = op
HasKind(kinds, K, S) == \E n \in 1..K : kinds[n] \in S

\* A loop is there if an operation made it.
LEMMA LoopsOfParts ==
  ASSUME NEW at, NEW q, NEW kinds, NEW r, NEW K, PartsInOrder(at, q, kinds, r, K)
  PROVE  Has(r, "ShiftLoop") <=> HasKind(kinds, K, {"loop"})
<1>1. ASSUME NEW k \in 1..Len(r), r[k].op = "ShiftLoop" PROVE HasKind(kinds, K, {"loop"})
  <2>1. PICK n \in 1..K : k - at[n] \in 1..Len(q[n]) /\ r[k] = q[n][k - at[n]]
    BY DEF PartsInOrder, InSegment
  <2>2. IsLowered(q[n], kinds[n])
    BY DEF PartsInOrder
  <2>3. kinds[n] = "loop"
    BY <1>1, <2>1, <2>2 DEF IsLowered, Pseudos
  <2>. QED
    BY <2>3 DEF HasKind
<1>2. ASSUME NEW n \in 1..K, kinds[n] = "loop" PROVE Has(r, "ShiftLoop")
  <2>1. Len(q[n]) = 1 /\ q[n][1].op = "ShiftLoop"
    BY <1>2 DEF PartsInOrder, IsLowered
  <2>2. 1 \in 1..Len(q[n])
    BY <2>1
  <2>3. at[n] + 1 \in 1..Len(r) /\ r[at[n] + 1] = q[n][1]
    BY <2>2 DEF PartsInOrder
  <2>. QED
    BY <2>1, <2>3 DEF Has
<1>. QED
  BY <1>1, <1>2 DEF Has, HasKind

\* So is a Select.
LEMMA SelectsOfParts ==
  ASSUME NEW at, NEW q, NEW kinds, NEW r, NEW K, PartsInOrder(at, q, kinds, r, K)
  PROVE  Has(r, "Select") <=> HasKind(kinds, K, {"select", "setcc"})
<1>1. ASSUME NEW k \in 1..Len(r), r[k].op = "Select"
      PROVE  HasKind(kinds, K, {"select", "setcc"})
  <2>1. PICK n \in 1..K : k - at[n] \in 1..Len(q[n]) /\ r[k] = q[n][k - at[n]]
    BY DEF PartsInOrder, InSegment
  <2>2. IsLowered(q[n], kinds[n])
    BY DEF PartsInOrder
  <2>3. kinds[n] # "const"
    BY <1>1, <2>1, <2>2 DEF IsLowered, Pseudos
  <2>4. ASSUME kinds[n] = "loop" PROVE FALSE
    <3>1. Len(q[n]) = 1 /\ q[n][1].op = "ShiftLoop"
      BY <2>2, <2>4 DEF IsLowered
    <3>2. \A j \in 1..1 : j = 1
      OBVIOUS
    <3>3. k - at[n] = 1
      BY <2>1, <3>1, <3>2
    <3>. QED
      BY <1>1, <2>1, <3>1, <3>3
  <2>. QED
    BY <2>2, <2>3, <2>4 DEF IsLowered, HasKind
<1>2. ASSUME NEW n \in 1..K, kinds[n] \in {"select", "setcc"} PROVE Has(r, "Select")
  <2>1. Len(q[n]) \in Nat /\ Len(q[n]) > 0 /\ q[n][Len(q[n])].op = "Select"
    BY <1>2 DEF PartsInOrder, IsLowered
  <2>2. Len(q[n]) \in 1..Len(q[n])
    BY <2>1
  <2>3. at[n] + Len(q[n]) \in 1..Len(r) /\ r[at[n] + Len(q[n])] = q[n][Len(q[n])]
    BY <2>2 DEF PartsInOrder
  <2>. QED
    BY <2>1, <2>3 DEF Has
<1>. QED
  BY <1>1, <1>2 DEF Has, HasKind

\* A loop stands in front of every pseudo exactly if its operation stands
\* behind constant shifts only.
LEMMA OrderOfParts ==
  ASSUME NEW at, NEW q, NEW kinds, NEW r, NEW K, PartsInOrder(at, q, kinds, r, K)
  PROVE  LoopsLead(r) <=> ConstsLead(kinds, K)
<1>1. /\ K \in Nat /\ Len(r) \in Nat
      /\ \A n \in 1..K : IsLowered(q[n], kinds[n]) /\ at[n] \in Nat /\ at[n + 1] = at[n] + Len(q[n])
  BY DEF PartsInOrder
<1>2. ASSUME ConstsLead(kinds, K), NEW k \in 1..Len(r), r[k].op = "ShiftLoop",
             NEW j \in 1..(k - 1), r[j].op \in Pseudos
      PROVE  FALSE
  <2>1. PICK n \in 1..K : at[n] < k /\ k <= at[n + 1] /\ k - at[n] \in 1..Len(q[n])
                          /\ r[k] = q[n][k - at[n]]
    BY DEF PartsInOrder, InSegment
  <2>2. kinds[n] = "loop"
    BY <1>1, <1>2, <2>1 DEF IsLowered, Pseudos
  <2>3. Len(q[n]) = 1
    BY <1>1, <2>2 DEF IsLowered
  <2>4. j \in 1..Len(r) /\ j <= at[n]
    BY <1>1, <2>1, <2>3
  <2>5. PICK m \in 1..K : at[m] < j /\ j <= at[m + 1] /\ j - at[m] \in 1..Len(q[m])
                          /\ r[j] = q[m][j - at[m]]
    BY <2>4 DEF PartsInOrder, InSegment
  <2>6. kinds[m] # "const"
    BY <1>1, <1>2, <2>5 DEF IsLowered
  <2>7. ~(m < n)
    <3>1. m < n => m \in 1..(n - 1)
      BY <1>1
    <3>. QED
      BY <1>2, <2>2, <2>6, <3>1 DEF ConstsLead
  <2>8. m # n
    BY <1>1, <2>4, <2>5
  <2>9. n < m
    BY <1>1, <2>7, <2>8
  <2>10. at[n + 1] <= at[m]
    BY <2>9 DEF PartsInOrder
  <2>11. at[n] \in Nat /\ at[m] \in Nat /\ at[n + 1] = at[n] + 1 /\ at[m] < j
    BY <1>1, <2>3, <2>5
  <2>12. at[n] + 1 <= at[m]
    BY <2>10, <2>11
  <2>. QED
    BY <2>4, <2>11, <2>12
<1>3. ASSUME LoopsLead(r), NEW n \in 1..K, kinds[n] = "loop", NEW m \in 1..(n - 1), kinds[m] # "const"
      PROVE  FALSE
  <2>1. m \in 1..K /\ m < n
    BY <1>1
  <2>2. Len(q[n]) = 1 /\ q[n][1].op = "ShiftLoop"
    BY <1>1, <1>3 DEF IsLowered
  <2>3. 1 \in 1..Len(q[n])
    BY <2>2
  <2>4. at[n] + 1 \in 1..Len(r) /\ r[at[n] + 1].op = "ShiftLoop"
    BY <2>2, <2>3 DEF PartsInOrder
  <2>5. /\ Len(q[m]) \in Nat /\ Len(q[m]) > 0 /\ q[m][Len(q[m])].op \in Pseudos
    <3>1. IsLowered(q[m], kinds[m])
      BY <1>1, <2>1
    <3>2. CASE kinds[m] = "loop"
      BY <3>1, <3>2 DEF IsLowered, Pseudos
    <3>3. CASE kinds[m] \in {"select", "setcc"}
      BY <3>1, <3>3 DEF IsLowered, Pseudos
    <3>. QED
      BY <1>3, <3>1, <3>2, <3>3 DEF IsLowered
  <2>6. Len(q[m]) \in 1..Len(q[m])
    BY <2>5
  <2>7. at[m] + Len(q[m]) \in 1..Len(r) /\ r[at[m] + Len(q[m])].op \in Pseudos
    BY <2>1, <2>5, <2>6 DEF PartsInOrder
  <2>8. at[m] + Len(q[m]) <= at[n]
    BY <1>1, <2>1 DEF PartsInOrder
  <2>9. at[m] + Len(q[m]) \in 1..((at[n] + 1) - 1)
    BY <1>1, <2>1, <2>5, <2>7, <2>8
  <2>. QED
    BY <1>3, <2>4, <2>7, <2>9 DEF LoopsLead
<1>. QED
  BY <1>2, <1>3 DEF LoopsLead, ConstsLead

\* The operations of the block stand in the order of the source.
LEMMA OpsParts ==
  ASSUME f \in Functions
  PROVE  \E at, q : PartsInOrder(at, q, [i \in 1..NumOps |-> Kind(i)], Ops(f.place), NumOps)
<1> DEFINE q == [i \in 1..NumOps |-> LowerOp(i)]
           kinds == [i \in 1..NumOps |-> Kind(i)]
           r == Ops(f.place)
<1>1. PICK T : T = OpInstrs(Res + NumOps)
  OBVIOUS
<1>2. \A i \in 1..NumOps : LowerOp(i) \in Seq(T)
  BY <1>1, LowerOpType
<1>3. NumOps \in Nat /\ DOMAIN f.ops = 1..NumOps
  BY FunctionFacts
<1>4. q \in Seq(Seq(T)) /\ Len(q) = NumOps /\ \A i \in 1..NumOps : q[i] = LowerOp(i)
  BY <1>2, <1>3
<1>5. r = FlattenSeq(q)
  BY <1>3 DEF Ops
<1>6. \A i \in 1..NumOps : IsLowered(q[i], kinds[i])
  BY <1>4, LowerOpFlow
<1> HIDE DEF q, kinds, r
<1>7. r \in Seq(T) /\ \E at : Segments(at, q, r)
  BY <1>4, <1>5, FlattenSeqSegments
<1>8. PICK at : Segments(at, q, r)
  BY <1>7
<1> DEFINE K == NumOps
<1>9. K \in Nat /\ Len(q) = K /\ Len(r) \in Nat /\ \A i \in 1..K : Len(q[i]) \in Nat
  BY <1>2, <1>3, <1>4, <1>7, SeqElements
<1>10. /\ at \in [1..(K + 1) -> Nat] /\ at[K + 1] = Len(r)
       /\ \A n \in 1..K : at[n + 1] = at[n] + Len(q[n])
       /\ \A n \in 1..K : \A j \in 1..Len(q[n]) : r[at[n] + j] = q[n][j]
  BY <1>8, <1>9 DEF Segments
<1>11. \A n \in 1..K : at[n] \in Nat /\ at[n + 1] = at[n] + Len(q[n])
  <2>1. \A n \in 1..K : n \in 1..(K + 1)
    BY <1>9
  <2>. QED
    BY <1>10, <2>1
<1>12. ASSUME NEW m \in 1..(K + 1), NEW n \in m..(K + 1) PROVE at[m] <= at[n] /\ at[m] \in Nat /\ at[n] \in Nat
  <2>1. m \in 1..(Len(q) + 1) /\ n \in m..(Len(q) + 1)
    BY <1>9
  <2>. QED
    BY <1>4, <1>7, <1>8, <2>1, SegmentsInOrder
<1>13. \A m \in 1..K : \A n \in 1..K : m < n => at[m + 1] <= at[n]
  <2>1. \A m \in 1..K : \A n \in 1..K : m < n => m + 1 \in 1..(K + 1) /\ n \in (m + 1)..(K + 1)
    BY <1>9
  <2>. QED
    BY <1>12, <2>1
<1>14. \A n \in 1..K : at[n + 1] <= Len(r)
  <2>1. \A n \in 1..K : n + 1 \in 1..(K + 1) /\ K + 1 \in (n + 1)..(K + 1)
    BY <1>9
  <2>. QED
    BY <1>10, <1>12, <2>1
<1>15. \A n \in 1..K : \A j \in 1..Len(q[n]) : at[n] + j \in 1..Len(r) /\ r[at[n] + j] = q[n][j]
  <2> SUFFICES ASSUME NEW n \in 1..K, NEW j \in 1..Len(q[n])
               PROVE  at[n] + j \in 1..Len(r) /\ r[at[n] + j] = q[n][j]
    OBVIOUS
  <2>1. at[n] \in Nat /\ at[n + 1] = at[n] + Len(q[n]) /\ at[n + 1] <= Len(r) /\ Len(q[n]) \in Nat
        /\ Len(r) \in Nat
    BY <1>9, <1>11, <1>14
  <2>2. at[n] + j \in 1..Len(r)
    BY <2>1
  <2>. QED
    BY <1>10, <2>2
<1>16. \A k \in 1..Len(r) : InSegment(at, q, r, k)
  BY <1>4, <1>7, <1>8, SegmentOfElement
<1> HIDE DEF K
<1>17. PartsInOrder(at, q, kinds, r, K)
  BY <1>6, <1>9, <1>11, <1>13, <1>15, <1>16 DEF PartsInOrder, K
<1>. QED
  BY <1>17 DEF K, kinds, r

\* Safe, said of the pseudos the operations become.
SafeOps(s) ==
  /\ Has(s, "ShiftLoop") => f.place = Entry
  /\ LoopsLead(s)
  /\ Has(s, "Select") => ~f.optimized \/ (f.place = Entry /\ f.branches)

\* Safe, read off the lowered operations.
LEMMA SafeIsOfOps ==
  ASSUME f \in Functions
  PROVE  Safe <=> SafeOps(Ops(f.place))
<1> DEFINE kinds == [i \in 1..NumOps |-> Kind(i)]
           r == Ops(f.place)
<1>1. PICK at, q : PartsInOrder(at, q, kinds, r, NumOps)
  BY OpsParts
<1>2. NumOps \in Nat /\ DOMAIN f.ops = 1..NumOps
  BY FunctionFacts
<1>3. \A i \in 1..NumOps : kinds[i] = f.ops[i].kind
  BY DEF Kind
<1> HIDE DEF kinds, r
<1>4. Has(r, "ShiftLoop") <=> HasKind(kinds, NumOps, {"loop"})
  BY <1>1, LoopsOfParts
<1>5. Has(r, "Select") <=> HasKind(kinds, NumOps, {"select", "setcc"})
  BY <1>1, SelectsOfParts
<1>6. LoopsLead(r) <=> ConstsLead(kinds, NumOps)
  BY <1>1, OrderOfParts
<1>7. HasKind(kinds, NumOps, {"loop"}) <=> \E i \in DOMAIN f.ops : f.ops[i].kind = "loop"
  BY <1>2, <1>3 DEF HasKind
<1>8. HasKind(kinds, NumOps, {"select", "setcc"})
        <=> \E i \in DOMAIN f.ops : f.ops[i].kind \in {"select", "setcc"}
  BY <1>2, <1>3 DEF HasKind
<1>9. ConstsLead(kinds, NumOps)
        <=> \A i \in DOMAIN f.ops : f.ops[i].kind = "loop" =>
               \A j \in 1..(i - 1) : f.ops[j].kind = "const"
  <2>1. \A i \in 1..NumOps : \A j \in 1..(i - 1) : j \in 1..NumOps
    BY <1>2
  <2>. QED
    BY <1>2, <1>3, <2>1 DEF ConstsLead
<1>10. Safe <=>
         /\ \A i \in DOMAIN f.ops : f.ops[i].kind = "loop" => f.place = Entry
         /\ \A i \in DOMAIN f.ops : f.ops[i].kind = "loop" => \A j \in 1..(i - 1) : f.ops[j].kind = "const"
         /\ (\E i \in DOMAIN f.ops : f.ops[i].kind \in {"select", "setcc"}) =>
               ~f.optimized \/ (f.place = Entry /\ f.branches)
  BY DEF Safe
<1>11. Safe <=> SafeOps(r)
  BY <1>4, <1>5, <1>6, <1>7, <1>8, <1>9, <1>10 DEF SafeOps
<1>. QED
  BY <1>11 DEF r

\* A block of the start: what it does and how it ends.
StartFlow(r, b) ==
  /\ IsBlock(r) /\ EndsLeave(r) /\ StartsWith(r, Ops(b))
  /\ b = Entry /\ f.branches => LeavesTo(r) = {Join, Body} /\ ~FallsOff(r)
  /\ ~(b = Entry /\ f.branches) /\ ~f.optimized => LeavesTo(r) = {b + 1} /\ ~FallsOff(r)
  /\ ~(b = Entry /\ f.branches) /\ f.optimized => LeavesTo(r) = {} /\ FallsOff(r)

\* The blocks of the start leave by their ends.
LEMMA StartBlockFlow ==
  ASSUME f \in Functions, NEW b \in {Entry, Body}
  PROVE  StartFlow(Ops(b) \o Ending(b), b)
<1> DEFINE s == Ops(b)
           t == Ending(b)
           r == s \o t
           n == Res + NumOps
<1>1. PICK T : T = Instrs(n, 3)
  OBVIOUS
<1>2. n \in Nat /\ n >= Res
  BY FunctionFacts DEF Res
<1>3. s \in Seq(T) /\ Stays(s)
  <2>1. s \in Seq(OpInstrs(n))
    BY OpsType
  <2>2. OpInstrs(n) \subseteq T /\ \A z \in OpInstrs(n) : z.op \notin {"BR", "RJMPk", "RET"}
    BY <1>1, OpInstrKinds
  <2>3. \A A, B : A \subseteq B => Seq(A) \subseteq Seq(B)
    OBVIOUS
  <2>4. \A i \in 1..Len(s) : s[i] \in OpInstrs(n)
    BY <2>1, SeqElements
  <2>. QED
    BY <2>1, <2>2, <2>3, <2>4 DEF Stays
<1>4. t \in Seq(T)
  BY <1>1, <1>2, EndingType
<1>5. EndsAs(t, b)
  BY EndingFlow
<1> HIDE DEF s, t, n
<1>6. r \in Seq(T) /\ IsJoined(r, s, t)
  BY <1>3, <1>4, JoinedBlocks
<1>7. IsBlock(s) /\ IsBlock(t) /\ IsBlock(r)
  BY <1>3, <1>4, <1>6, BlockFacts
<1> HIDE DEF r
<1>8. /\ LeavesTo(r) = LeavesTo(t) /\ (FallsOff(r) <=> FallsOff(t))
      /\ EndsLeave(r) /\ StartsWith(r, s)
  BY <1>3, <1>5, <1>6, <1>7, JoinedFlow DEF EndsAs
<1>9. StartFlow(r, b)
  BY <1>5, <1>7, <1>8 DEF EndsAs, StartFlow, s
<1>. QED
  BY <1>9 DEF r, s, t

\* The code a function starts with.
Started(code, succ, lay) ==
  /\ StartFlow(code[Entry], Entry) /\ StartFlow(code[Body], Body)
  /\ IsBlock(code[Join]) /\ NoPseudo(code[Join]) /\ LeavesTo(code[Join]) = {} /\ ~FallsOff(code[Join])
  /\ succ[Entry] = (IF f.branches THEN {Body, Join} ELSE {Body}) /\ succ[Body] = {Join} /\ succ[Join] = {}
  /\ NextIn(lay, Entry) = Body /\ NextIn(lay, Body) = Join
  /\ f.place \in {Entry, Body} /\ f.branches \in BOOLEAN /\ f.optimized \in BOOLEAN
  /\ \A b \in {Entry, Body} : b # f.place => Ops(b) = << >>

\* The DAG lowering makes such code.
LEMMA InitStarts ==
  ASSUME Init
  PROVE  Started(mbbs, succs, layout) /\ Len(mbbs) = 3
<1> DEFINE x == Ops(Entry) \o Ending(Entry)
           y == Ops(Body) \o Ending(Body)
           phi == Phi(Res, Incoming)
           ret == [op |-> "RET"]
           z == <<phi, ret>>
<1>1. /\ f \in Functions /\ mbbs = <<x, y, z>>
      /\ succs = <<IF f.branches THEN {Body, Join} ELSE {Body}, {Join}, {}>>
      /\ layout = <<Entry, Body, Join>>
  BY DEF Init
<1>2. StartFlow(x, Entry) /\ StartFlow(y, Body)
  BY <1>1, StartBlockFlow
<1>3. phi.op = "PHI" /\ ret.op = "RET"
  BY DEF Phi
<1> HIDE DEF x, y, phi, ret
<1>4. Len(z) = 2 /\ DOMAIN z = 1..2 /\ z # << >> /\ z[1] = phi /\ z[2] = ret
  OBVIOUS
<1> HIDE DEF z
<1>5. \A i \in 1..2 : i = 1 \/ i = 2
  OBVIOUS
<1>6. \A i \in 1..2 : z[i].op \notin {"BR", "RJMPk"} /\ z[i].op \notin Pseudos
  BY <1>3, <1>4, <1>5 DEF Pseudos
<1>7. IsBlock(z) /\ NoPseudo(z) /\ LeavesTo(z) = {} /\ ~FallsOff(z)
  BY <1>3, <1>4, <1>6 DEF IsBlock, NoPseudo, LeavesTo, FallsOff, Last
<1>8. mbbs[Entry] = x /\ mbbs[Body] = y /\ mbbs[Join] = z /\ Len(mbbs) = 3
  BY <1>1 DEF Entry, Body, Join
<1>9. /\ succs[Entry] = (IF f.branches THEN {Body, Join} ELSE {Body})
      /\ succs[Body] = {Join} /\ succs[Join] = {}
  BY <1>1 DEF Entry, Body, Join
<1>10. NextIn(layout, Entry) = Body /\ NextIn(layout, Body) = Join
  <2>1. LayoutOK(layout, Len(mbbs))
    BY LoweringInit DEF LoweringInv, CompilerInv
  <2>2. layout[1] = Entry /\ layout[2] = Body /\ layout[3] = Join
    BY <1>1
  <2>3. 1 \in 1..3 /\ 2 \in 1..3 /\ 1 + 1 = 2 /\ 2 + 1 = 3
    OBVIOUS
  <2>4. PlaceIn(layout, layout[1]) = 1 /\ PlaceIn(layout, layout[2]) = 2
    BY <1>8, <2>1, <2>3, PlaceOf
  <2>5. PlaceIn(layout, Entry) = 1 /\ PlaceIn(layout, Body) = 2
    BY <2>2, <2>4
  <2>. QED
    BY <2>2, <2>3, <2>5 DEF NextIn
<1>11. f.place \in {Entry, Body} /\ f.branches \in BOOLEAN /\ f.optimized \in BOOLEAN
  BY <1>1, FunctionFacts DEF IsFunction
<1>12. \A b \in {Entry, Body} : b # f.place => Ops(b) = << >>
  BY DEF Ops
<1>. QED
  BY <1>2, <1>7, <1>8, <1>9, <1>10, <1>11, <1>12 DEF Started

LEMMA ThreeBlocks == 1..3 = {Entry, Body, Join} /\ Entry # Body /\ Body # Join /\ Entry # Join
                     /\ Entry + 1 = Body /\ Body + 1 = Join
BY DEF Entry, Body, Join

\* Its edges are those of the CFG.
LEMMA StartedFlows ==
  ASSUME NEW code, NEW succ, NEW lay, Started(code, succ, lay)
  PROVE  Flows(code, succ, lay, 3) /\ AllEndLeave(code, 3)
<1>1. /\ StartFlow(code[Entry], Entry) /\ StartFlow(code[Body], Body)
      /\ NoPseudo(code[Join]) /\ LeavesTo(code[Join]) = {} /\ ~FallsOff(code[Join])
      /\ succ[Entry] = (IF f.branches THEN {Body, Join} ELSE {Body}) /\ succ[Body] = {Join} /\ succ[Join] = {}
      /\ NextIn(lay, Entry) = Body /\ NextIn(lay, Body) = Join
      /\ f.branches \in BOOLEAN /\ f.optimized \in BOOLEAN
  BY DEF Started
<1>2. ExitsOf(code[Entry], lay, Entry) = succ[Entry]
  <2>1. CASE f.branches
    BY <1>1, <2>1 DEF StartFlow, ExitsOf
  <2>2. CASE ~f.branches /\ ~f.optimized
    BY <1>1, <2>2, ThreeBlocks DEF StartFlow, ExitsOf
  <2>3. CASE ~f.branches /\ f.optimized
    BY <1>1, <2>3 DEF StartFlow, ExitsOf
  <2>. QED
    BY <1>1, <2>1, <2>2, <2>3
<1>3. ExitsOf(code[Body], lay, Body) = succ[Body]
  <2>1. CASE ~f.optimized
    BY <1>1, <2>1, ThreeBlocks DEF StartFlow, ExitsOf
  <2>2. CASE f.optimized
    BY <1>1, <2>2, ThreeBlocks DEF StartFlow, ExitsOf
  <2>. QED
    BY <1>1, <2>1, <2>2
<1>4. ExitsOf(code[Join], lay, Join) = succ[Join]
  BY <1>1 DEF ExitsOf
<1>5. \A b \in 1..3 : b = Entry \/ b = Body \/ b = Join
  BY ThreeBlocks
<1>6. \A b \in 1..3 : EndsLeave(code[b])
  BY <1>1, <1>5, NoPseudoEndsLeave DEF StartFlow
<1>. QED
  BY <1>2, <1>3, <1>4, <1>5, <1>6 DEF Flows, AllEndLeave

\* The pseudos of the start are those of the operations.
LEMMA StartedPseudos ==
  ASSUME NEW code, NEW succ, NEW lay, Started(code, succ, lay),
         NEW b \in 1..3, NEW i \in 1..Len(code[b]), code[b][i].op \in Pseudos
  PROVE  /\ b = f.place /\ StartFlow(code[b], b) /\ i \in 1..Len(Ops(f.place))
         /\ code[b][i] = Ops(f.place)[i]
<1>1. b # Join
  BY DEF Started, NoPseudo
<1>2. b \in {Entry, Body}
  BY <1>1, ThreeBlocks
<1>3. StartFlow(code[b], b)
  BY <1>2 DEF Started
<1>4. i \in 1..Len(Ops(b)) /\ code[b][i] = Ops(b)[i]
  BY <1>3 DEF StartFlow, StartsWith
<1>5. b = f.place
  <2>1. ASSUME b # f.place PROVE FALSE
    <3>1. Len(Ops(b)) = 0
      BY <1>2, <2>1 DEF Started
    <3>. QED
      BY <1>4, <3>1
  <2>. QED
    BY <2>1
<1>. QED
  BY <1>3, <1>4, <1>5

\* A safe function is one where both pseudos will be expanded well.
LEMMA StartSafe ==
  ASSUME NEW code, NEW succ, NEW lay, Started(code, succ, lay), SafeOps(Ops(f.place))
  PROVE  SafeFlow(code, succ, lay, 3)
<1> DEFINE s == Ops(f.place)
<1>1. LoopFirst(code, 3)
  <2>1. SUFFICES ASSUME NEW b \in 1..3, NEW i \in 1..Len(code[b]), code[b][i].op = "ShiftLoop"
                 PROVE  b = Entry /\ \A j \in 1..(i - 1) : code[b][j].op \notin Pseudos
    BY DEF LoopFirst
  <2>2. /\ b = f.place /\ StartFlow(code[b], b) /\ i \in 1..Len(s) /\ code[b][i] = s[i]
    BY <2>1, StartedPseudos DEF Pseudos
  <2>3. Has(s, "ShiftLoop") /\ \A j \in 1..(i - 1) : s[j].op \notin Pseudos
    BY <2>1, <2>2 DEF Has, SafeOps, LoopsLead
  <2>4. \A j \in 1..(i - 1) : j \in 1..Len(code[b])
    BY <2>2 DEF StartFlow, IsBlock
  <2>5. \A j \in 1..(i - 1) : code[b][j].op \in Pseudos => code[b][j] = s[j]
    BY <2>4, StartedPseudos
  <2>6. \A j \in 1..(i - 1) : code[b][j].op \notin Pseudos
    BY <2>3, <2>5
  <2>. QED
    BY <2>2, <2>3, <2>6 DEF SafeOps
<1>2. SelectsLeave(code, 3)
  <2>1. SUFFICES ASSUME NEW b \in 1..3, NEW i \in 1..Len(code[b]), code[b][i].op = "Select"
                 PROVE  ~FallsOff(code[b])
    BY DEF SelectsLeave
  <2>2. /\ b = f.place /\ StartFlow(code[b], b) /\ i \in 1..Len(s) /\ code[b][i] = s[i]
    BY <2>1, StartedPseudos DEF Pseudos
  <2>3. Has(s, "Select")
    BY <2>1, <2>2 DEF Has
  <2>4. ~f.optimized \/ (b = Entry /\ f.branches)
    BY <2>2, <2>3 DEF SafeOps
  <2>. QED
    BY <2>2, <2>4 DEF StartFlow
<1>. QED
  BY <1>1, <1>2, StartedFlows DEF SafeFlow

\* In any other there is one that will not.
LEMMA StartUnsafe ==
  ASSUME NEW code, NEW succ, NEW lay, Started(code, succ, lay), ~SafeOps(Ops(f.place))
  PROVE  UnsafeFlow(code, succ, lay, 3)
<1> DEFINE s == Ops(f.place)
           b == f.place
<1>1. /\ b \in {Entry, Body} /\ b \in 1..3 /\ f.branches \in BOOLEAN /\ f.optimized \in BOOLEAN
      /\ StartFlow(code[b], b)
  BY ThreeBlocks DEF Started
<1>2. \A i \in 1..Len(s) : i \in 1..Len(code[b]) /\ code[b][i] = s[i]
  BY <1>1 DEF StartFlow, StartsWith
<1> HIDE DEF s
<1>3. CASE Has(s, "ShiftLoop") /\ b # Entry
  BY <1>1, <1>2, <1>3 DEF Has, LateLoop, UnsafeFlow
<1>4. CASE ~LoopsLead(s)
  <2>1. PICK k \in 1..Len(s) : s[k].op = "ShiftLoop" /\ \E j \in 1..(k - 1) : s[j].op \in Pseudos
    BY <1>4 DEF LoopsLead
  <2>2. PICK j \in 1..(k - 1) : s[j].op \in Pseudos
    BY <2>1
  <2>3. k \in 1..Len(code[b]) /\ code[b][k].op = "ShiftLoop"
    BY <1>2, <2>1
  <2>4. j \in 1..Len(s)
    <3>1. k \in Nat /\ j \in Nat /\ j >= 1 /\ j < k
      BY <2>1
    <3>. QED
      BY <3>1
  <2>5. code[b][j].op \in Pseudos
    BY <1>2, <2>2, <2>4
  <2>6. LateLoop(code, 3)
    BY <1>1, <2>3, <2>5 DEF LateLoop
  <2>. QED
    BY <2>6 DEF UnsafeFlow
<1>5. CASE Has(s, "Select") /\ f.optimized /\ ~(b = Entry /\ f.branches)
  <2>1. FallsOff(code[b])
    BY <1>1, <1>5 DEF StartFlow
  <2>2. PICK k \in 1..Len(s) : s[k].op = "Select"
    BY <1>5 DEF Has
  <2>3. FallingSelect(code, 3)
    BY <1>1, <1>2, <2>1, <2>2 DEF FallingSelect
  <2>. QED
    BY <2>3 DEF UnsafeFlow
<1>. QED
  BY <1>1, <1>3, <1>4, <1>5 DEF SafeOps, s

\* The invariant holds at the start.
LEMMA FlowInit ==
  ASSUME Init
  PROVE  EdgesInv
<1>1. Started(mbbs, succs, layout) /\ Len(mbbs) = 3
  BY InitStarts
<1>2. f \in Functions /\ layout = <<Entry, Body, Join>> /\ I = 1 /\ mbbi = 1 /\ phase = "expand"
  BY DEF Init
<1>3. AllEndLeave(mbbs, 3)
  BY <1>1, StartedFlows
<1>4. Safe <=> SafeOps(Ops(f.place))
  BY <1>2, SafeIsOfOps
<1>5. FlowInv
  BY <1>1, <1>3, <1>4, StartSafe, StartUnsafe DEF FlowInv
<1>6. LoweringInv
  BY LoweringInit
<1>7. ProgressInv
  <2>1. LayoutOK(layout, Len(mbbs))
    BY <1>6 DEF LoweringInv, CompilerInv
  <2>2. layout[1] = 1 /\ 1 \in 1..3
    BY <1>2 DEF Entry
  <2>3. PlaceIn(layout, layout[1]) = 1
    BY <1>1, <2>1, <2>2, PlaceOf
  <2>4. PlaceIn(layout, I) = 1
    BY <1>2, <2>2, <2>3
  <2>5. 1..(1 - 1) = {}
    OBVIOUS
  <2>6. VisitedUpTo(mbbs, layout, 1)
    BY <2>5 DEF VisitedUpTo
  <2>. QED
    BY <1>2, <2>4, <2>5, <2>6 DEF ProgressInv
<1>. QED
  BY <1>5, <1>6, <1>7 DEF EdgesInv

LEMMA EdgesIsInv == Spec => []EdgesInv
<1>1. Init => EdgesInv
  BY FlowInit
<1>2. EdgesInv /\ [Next]_vars => EdgesInv'
  BY FlowStep
<1>. QED
  BY <1>1, <1>2, PTL DEF Spec

\* When no pseudo is left, the edges are exact or one is wrong.
LEMMA InvEdges ==
  ASSUME EdgesInv
  PROVE  EdgesAreTheCFG
<1> DEFINE N == Len(mbbs)
<1>1. SUFFICES ASSUME phase = "run"
               PROVE  Safe <=> \A b \in DOMAIN mbbs : Exits(b) = succs[b]
  BY DEF EdgesAreTheCFG
<1>2. CompilerInv /\ ProgressInv /\ FlowInv
  BY DEF EdgesInv, LoweringInv
<1>3. N \in Nat /\ DOMAIN mbbs = 1..N
  <2>1. mbbs \in Seq(Seq(Instrs(nregs, N)))
    BY <1>2, CompilerFacts DEF MachineCode
  <2>. QED
    BY <2>1, SeqElements
<1>4. \A b : Exits(b) = ExitsOf(mbbs[b], layout, b)
  BY DEF Exits, ExitsOf, LeavesTo, FallsOff, NextIn, Place, PlaceIn, SelectInSeq
<1>5. \A b \in 1..N : NoPseudo(mbbs[b])
  BY <1>1, <1>2 DEF ProgressInv
<1>6. ~LateLoop(mbbs, N) /\ ~FallingSelect(mbbs, N)
  BY <1>5 DEF LateLoop, FallingSelect, NoPseudo, Pseudos
<1>7. Safe => \A b \in 1..N : ExitsOf(mbbs[b], layout, b) = succs[b]
  BY <1>2 DEF FlowInv, SafeFlow, Flows
<1>8. ~Safe => \E b \in 1..N : ExitsOf(mbbs[b], layout, b) # succs[b]
  BY <1>2, <1>6 DEF FlowInv, UnsafeFlow, Broken
<1>. QED
  BY <1>3, <1>4, <1>7, <1>8

\* When the pass is done, control leaves every block for exactly the
\* successors of the machine CFG if the function is safe, and in no other
\* function, however many shifts, comparisons and selects it has.
THEOREM EdgesAreExact == Spec => []EdgesAreTheCFG
BY EdgesIsInv, InvEdges, PTL

----------------------------------------------------------------------------
(***************************************************************************)
(* The running program comes to a PHI by an edge.                           *)
(***************************************************************************)
\* Where the running program is: it came by an edge of the machine CFG, and
\* passes the end of a block only where the block falls through.
FromInv ==
  /\ NoPhi(mbbs[Entry])
  /\ phase = "expand" => bb = Entry /\ pc = 1
  /\ phase = "run" => (pc > Len(mbbs[bb]) => FallsOff(mbbs[bb]))
  /\ Safe => phase # "stuck" /\ (phase = "run" => bb = Entry \/ bb \in succs[from])

RunInv == EdgesInv /\ FromInv

\* A split puts no PHI in an old block.
LEMMA HeadHasNoPhi ==
  ASSUME NEW n, NEW n2, NEW code, NEW N, NEW succ, NEW b, NEW k, NEW to, NEW other, NEW ends,
         NEW phi, NEW extra, NEW back,
         Splittable(code, succ, n, n2, N, b, k, to, other, ends, phi, extra, back),
         NEW code2, NEW succ2,
         SplitOf(code, succ, code2, succ2, b, k, to, other, ends, phi, extra, back),
         NEW x \in 1..N, NoPhi(code[x])
  PROVE  NoPhi(code2[x])
<1>1. /\ n \in Nat /\ N \in Nat /\ b \in 1..N /\ k \in 1..Len(code[b])
      /\ MachineCode(code, n, N) /\ Len(code) = N
      /\ Len(ends) \in Nat /\ \A i \in 1..Len(ends) : ends[i].op # "PHI"
  <2>1. ends \in Seq(Instrs(n2, N + 2))
    BY DEF Splittable
  <2>2. Len(ends) \in Nat
    BY <2>1, SeqElements
  <2>. QED
    BY <2>2 DEF Splittable, MachineCode
<1>2. Len(code[x]) \in Nat /\ \A i \in 1..Len(code[x]) : code[x][i].op # "PHI"
  <2>1. code[x] \in Seq(Instrs(n, N))
    BY <1>1, SeqElements DEF MachineCode
  <2>. QED
    BY <2>1, SeqElements DEF NoPhi
<1>3. \A i \in 1..Len(code[x]) : Renamed(code[x][i], b, to) = code[x][i]
  BY <1>2 DEF Renamed
<1>4. CASE x # b
  <2>1. /\ Len(code2[x]) = Len(code[x])
        /\ \A i \in 1..Len(code[x]) : code2[x][i] =
              IF x \in succ[b] THEN Renamed(code[x][i], b, to) ELSE code[x][i]
    BY <1>1, <1>4 DEF SplitOf
  <2>. QED
    BY <1>2, <1>3, <2>1 DEF NoPhi
<1>5. CASE x = b
  <2>1. /\ Len(code2[x]) = k - 1 + Len(ends)
        /\ \A i \in 1..(k - 1) : code2[x][i] =
              IF x \in succ[b] THEN Renamed(code[x][i], b, to) ELSE code[x][i]
        /\ \A i \in 1..Len(ends) : code2[x][k - 1 + i] = ends[i]
    BY <1>5 DEF SplitOf
  <2>2. SUFFICES ASSUME NEW i \in 1..Len(code2[x]) PROVE code2[x][i].op # "PHI"
    BY DEF NoPhi
  <2>3. k \in 1..Len(code[x]) /\ Len(code[x]) \in Nat
    BY <1>1, <1>2, <1>5
  <2>4. CASE i <= k - 1
    <3>1. i \in 1..(k - 1) /\ i \in 1..Len(code[x])
      BY <1>1, <2>1, <2>3, <2>4
    <3>. QED
      BY <1>2, <1>3, <2>1, <3>1
  <2>5. CASE ~(i <= k - 1)
    <3>1. i - (k - 1) \in 1..Len(ends) /\ k - 1 + (i - (k - 1)) = i
      BY <1>1, <2>1, <2>3, <2>5
    <3>2. code2[x][k - 1 + (i - (k - 1))] = ends[i - (k - 1)]
      BY <2>1, <3>1
    <3>. QED
      BY <1>1, <3>1, <3>2
  <2>. QED
    BY <2>4, <2>5
<1>. QED
  BY <1>4, <1>5

\* A function's first block has no PHI, and stays that way.
LEMMA ExpandComesFrom ==
  ASSUME RunInv, Expand
  PROVE  FromInv'
<1> DEFINE mi == mbbs[I][mbbi]
           N == Len(mbbs)
<1>1. /\ CompilerInv /\ FromInv /\ AtInstr /\ phase = "expand" /\ phase' = "expand"
      /\ bb' = bb /\ pc' = pc /\ f' = f
  BY DEF RunInv, EdgesInv, LoweringInv, Expand, AtInstr
<1>2. (mi.op = "ShiftLoop" /\ InsertShift(I, mi)) \/ (mi.op = "Select" /\ InsertSelect(I, mi))
  BY DEF Expand
<1>3. Entry \in 1..N /\ NoPhi(mbbs[Entry])
  BY <1>1, CompilerFacts DEF FromInv
<1>4. NoPhi(mbbs'[Entry])
  <2>1. CASE mi.op = "ShiftLoop" /\ InsertShift(I, mi)
    <3>1. ShiftSplits(I, mi)
      BY <1>1, <2>1, ShiftIsSplit
    <3> DEFINE ends == ShiftEnds(mi, N + 2)
               phi == ShiftPhi(mi.d, mi, I, nregs, N + 1)
               extra == ShiftBody(mi, I, nregs, N + 1)
               back == {N + 2, N + 1}
    <3>2. /\ Splittable(mbbs, succs, nregs, nregs + 4, N, I, mbbi, N + 2, N + 1, ends, phi, extra, back)
          /\ SplitOf(mbbs, succs, mbbs', succs', I, mbbi, N + 2, N + 1, ends, phi, extra, back)
      BY <3>1 DEF ShiftSplits
    <3>. HIDE DEF ends, phi, extra, back, N
    <3>. QED
      BY <1>3, <3>2, HeadHasNoPhi
  <2>2. CASE mi.op = "Select" /\ InsertSelect(I, mi)
    <3>1. SelectSplits(I, mi)
      BY <1>1, <2>2, SelectIsSplit
    <3> DEFINE ends == DiamondEnds(mi.cond, N + 1, N + 2)
               phi == SelectPhi(mi, I, N + 2)
               extra == <<Rjmp(N + 1)>>
               back == {N + 1}
    <3>2. /\ Splittable(mbbs, succs, nregs, nregs, N, I, mbbi, N + 1, N + 2, ends, phi, extra, back)
          /\ SplitOf(mbbs, succs, mbbs', succs', I, mbbi, N + 1, N + 2, ends, phi, extra, back)
      BY <3>1 DEF SelectSplits
    <3>. HIDE DEF ends, phi, extra, back, N
    <3>. QED
      BY <1>3, <3>2, HeadHasNoPhi
  <2>. QED
    BY <1>2, <2>1, <2>2
<1>5. NoPhi(mbbs[Entry])'
  BY <1>4
<1>. QED
  BY <1>1, <1>5 DEF FromInv

\* In a safe function control leaves the running block by an edge.
LEMMA EdgesTaken ==
  ASSUME RunInv, phase = "run", Safe
  PROVE  /\ bb \in 1..Len(mbbs) /\ mbbs[bb] \in Seq(Instrs(nregs, Len(mbbs)))
         /\ LeavesTo(mbbs[bb]) \cup (IF FallsOff(mbbs[bb]) THEN {layout[Place(bb) + 1]} ELSE {})
              = succs[bb]
<1>1. CompilerInv /\ ProcessorInv /\ FlowInv
  BY DEF RunInv, EdgesInv, LoweringInv
<1>2. bb \in 1..Len(mbbs)
  BY <1>1 DEF ProcessorInv
<1>3. ExitsOf(mbbs[bb], layout, bb) = succs[bb]
  BY <1>1, <1>2 DEF FlowInv, SafeFlow, Flows
<1>4. NextIn(layout, bb) = layout[Place(bb) + 1]
  BY DEF NextIn, Place, PlaceIn, SelectInSeq
<1>. QED
  BY <1>1, <1>2, <1>3, <1>4, CompilerFacts DEF ExitsOf

\* The next instruction is there, or the block falls through.
LEMMA NextPlace ==
  ASSUME RunInv, Running, This.op \notin {"RJMPk", "RET"}
  PROVE  pc + 1 > Len(mbbs[bb]) => FallsOff(mbbs[bb])
<1>1. pc \in 1..Len(mbbs[bb]) /\ Len(mbbs[bb]) \in Nat
  <2>1. LoweringInv
    BY DEF RunInv, EdgesInv
  <2>. QED
    BY <2>1, ThisFacts, CompilerFacts DEF LoweringInv
<1>2. ASSUME pc + 1 > Len(mbbs[bb])
      PROVE  FallsOff(mbbs[bb])
  <2>1. pc = Len(mbbs[bb])
    BY <1>1, <1>2
  <2>2. Last(mbbs[bb]) = This
    BY <2>1 DEF Last, This
  <2>. QED
    BY <2>2 DEF FallsOff
<1>. QED
  BY <1>2

\* At the head of a block the rule holds as well.
LEMMA HeadPlace ==
  ASSUME RunInv, NEW b \in 1..Len(mbbs)
  PROVE  1 > Len(mbbs[b]) => FallsOff(mbbs[b])
<1>1. Len(mbbs[b]) \in Nat /\ IsBlock(mbbs[b])
  BY CompilerFacts, BlockFacts DEF RunInv, EdgesInv, LoweringInv
<1>. QED
  BY <1>1 DEF FallsOff, IsBlock

\* The processor goes where the edges lead.
LEMMA RunComesFrom ==
  ASSUME RunInv, RunPhi \/ Compute \/ Branch \/ FallThrough \/ Ret
  PROVE  FromInv'
<1>1. /\ phase = "run" /\ UNCHANGED Code /\ FromInv /\ LoweringInv
  BY DEF RunPhi, Compute, Branch, FallThrough, Ret, Running, RunInv, EdgesInv
<1>2. f' = f /\ mbbs' = mbbs /\ succs' = succs /\ (Safe' <=> Safe)
  BY <1>1 DEF Code, Safe
<1>3. /\ NoPhi(mbbs[Entry])
      /\ pc > Len(mbbs[bb]) => FallsOff(mbbs[bb])
      /\ Safe => bb = Entry \/ bb \in succs[from]
  BY <1>1 DEF FromInv
<1>4. ASSUME phase' \in {"run", "done", "stuck"},
             phase' = "run" => (pc' > Len(mbbs[bb']) => FallsOff(mbbs[bb'])),
             Safe => phase' # "stuck" /\ (phase' = "run" => bb' = Entry \/ bb' \in succs[from'])
      PROVE  FromInv'
  BY <1>2, <1>3, <1>4 DEF FromInv
<1>5. CASE RunPhi
  <2>1. Running /\ This.op = "PHI" /\ bb' = bb /\ from' = from
    BY <1>5 DEF RunPhi
  <2>2. CASE \E i \in DOMAIN This.ins : pc' = pc + 1 /\ phase' = phase
    <3>1. pc' = pc + 1 /\ phase' = "run"
      BY <1>1, <2>2
    <3>2. pc + 1 > Len(mbbs[bb]) => FallsOff(mbbs[bb])
      BY <2>1, NextPlace
    <3>. QED
      BY <1>3, <1>4, <2>1, <3>1, <3>2
  <2>3. CASE (\A i \in DOMAIN This.ins : This.ins[i].mbb # from) /\ phase' = "stuck"
    <3>1. ASSUME Safe PROVE FALSE
      <4>1. pc \in 1..Len(mbbs[bb]) /\ bb \in 1..Len(mbbs) /\ from \in 1..Len(mbbs)
        BY <1>1, <2>1, ThisFacts DEF LoweringInv, ProcessorInv
      <4>2. bb # Entry
        BY <1>3, <2>1, <4>1 DEF NoPhi, This
      <4>3. bb \in succs[from]
        BY <1>3, <3>1, <4>2
      <4>4. Matched(mbbs[bb], Preds(succs, bb)) /\ DOMAIN succs = 1..Len(mbbs)
        <5>1. GraphOK(mbbs, succs, nregs, Len(mbbs))
          BY <1>1 DEF LoweringInv, CompilerInv
        <5>2. succs \in Seq(SUBSET (1..Len(mbbs))) /\ Len(succs) = Len(mbbs)
          BY <5>1 DEF GraphOK
        <5>3. DOMAIN succs = 1..Len(mbbs)
          BY <5>2, SeqElements
        <5>. QED
          BY <4>1, <5>1, <5>3 DEF GraphOK
      <4>5. Sources(This) = Preds(succs, bb)
        BY <2>1, <4>1, <4>4 DEF Matched, This
      <4>6. from \in Sources(This)
        BY <4>1, <4>3, <4>4, <4>5 DEF Preds
      <4>. QED
        BY <2>3, <4>6 DEF Sources
    <3>. QED
      BY <1>4, <2>3, <3>1
  <2>. QED
    BY <1>5, <2>2, <2>3 DEF RunPhi
<1>6. CASE Compute
  <2>1. Running /\ bb' = bb /\ from' = from /\ pc' = pc + 1 /\ phase' = "run"
    BY <1>1, <1>6 DEF Compute
  <2>2. This.op \notin {"RJMPk", "RET"}
    BY <1>6 DEF Compute
  <2>3. pc + 1 > Len(mbbs[bb]) => FallsOff(mbbs[bb])
    BY <2>1, <2>2, NextPlace
  <2>. QED
    BY <1>3, <1>4, <2>1, <2>3
<1>7. CASE Branch
  <2>1. Running /\ phase' = "run" /\ This.op \in {"BR", "RJMPk"}
    BY <1>1, <1>7 DEF Branch
  <2>2. CASE This.op = "BR" /\ pc' = pc + 1 /\ UNCHANGED <<bb, from>>
    <3>1. pc + 1 > Len(mbbs[bb]) => FallsOff(mbbs[bb])
      BY <2>1, <2>2, NextPlace
    <3>. QED
      BY <1>3, <1>4, <2>1, <2>2, <3>1
  <2>3. CASE GoTo(This.to)
    <3>1. bb' = This.to /\ pc' = 1 /\ from' = bb
      BY <2>3 DEF GoTo
    <3>2. pc \in 1..Len(mbbs[bb]) /\ bb \in 1..Len(mbbs) /\ This \in Instrs(nregs, Len(mbbs))
          /\ nregs \in Nat /\ Len(mbbs) \in Nat
      BY <1>1, <2>1, ThisFacts
    <3>3. This.to \in 1..Len(mbbs)
      BY <2>1, <3>2, InstrKinds DEF Leavings
    <3>4. 1 > Len(mbbs[This.to]) => FallsOff(mbbs[This.to])
      BY <3>3, HeadPlace
    <3>5. ASSUME Safe PROVE This.to \in succs[bb]
      <4>1. DOMAIN mbbs[bb] = 1..Len(mbbs[bb])
        BY <1>1, <3>5, EdgesTaken, SeqElements
      <4>2. This.to \in LeavesTo(mbbs[bb])
        BY <2>1, <3>2, <4>1 DEF LeavesTo, This
      <4>. QED
        BY <1>1, <3>5, <4>2, EdgesTaken
    <3>. QED
      BY <1>4, <2>1, <3>1, <3>4, <3>5
  <2>. QED
    BY <1>7, <2>2, <2>3 DEF Branch
<1>8. CASE FallThrough
  <2> DEFINE next == layout[Place(bb) + 1]
  <2>1. bb' = next /\ pc' = 1 /\ from' = bb /\ phase' = "run" /\ pc > Len(mbbs[bb])
    BY <1>1, <1>8 DEF FallThrough, GoTo
  <2>2. bb' \in 1..Len(mbbs)
    <3>1. LoweringInv'
      BY <1>1, <1>8, FallThroughKeeps
    <3>. QED
      BY <1>2, <3>1 DEF LoweringInv, ProcessorInv
  <2>3. FallsOff(mbbs[bb])
    BY <1>3, <2>1
  <2>4. Safe => next \in succs[bb]
    BY <1>1, <2>3, EdgesTaken
  <2>5. 1 > Len(mbbs[bb']) => FallsOff(mbbs[bb'])
    BY <2>2, HeadPlace
  <2>. QED
    BY <1>4, <2>1, <2>4, <2>5
<1>9. CASE Ret
  <2>1. phase' = "done"
    BY <1>9 DEF Ret
  <2>. QED
    BY <1>4, <2>1
<1>. QED
  BY <1>5, <1>6, <1>7, <1>8, <1>9

\* Every step keeps that.
LEMMA RunStep ==
  ASSUME RunInv, [Next]_vars
  PROVE  RunInv'
<1>1. EdgesInv' /\ FromInv /\ LoweringInv
  BY FlowStep DEF RunInv, EdgesInv
<1>2. CASE Expand
  BY <1>1, <1>2, ExpandComesFrom DEF RunInv
<1>3. CASE RunPhi \/ Compute \/ Branch \/ FallThrough \/ Ret
  BY <1>1, <1>3, RunComesFrom DEF RunInv
<1>4. CASE Pass \/ NextBlock
  <2>1. /\ phase = "expand" /\ phase' \in {"expand", "run"} /\ f' = f /\ mbbs' = mbbs
        /\ bb' = bb /\ pc' = pc
    BY <1>4 DEF Pass, NextBlock, AtInstr
  <2>2. bb = Entry /\ pc = 1 /\ NoPhi(mbbs[Entry])
    BY <1>1, <2>1 DEF FromInv
  <2>3. 1 > Len(mbbs[bb]) => FallsOff(mbbs[bb])
    <3>1. bb \in 1..Len(mbbs)
      BY <1>1 DEF LoweringInv, ProcessorInv
    <3>. QED
      BY <3>1, HeadPlace
  <2>4. FromInv'
    BY <2>1, <2>2, <2>3 DEF FromInv
  <2>. QED
    BY <1>1, <2>4 DEF RunInv
<1>5. CASE UNCHANGED vars
  <2>1. /\ f' = f /\ mbbs' = mbbs /\ succs' = succs /\ phase' = phase
        /\ bb' = bb /\ pc' = pc /\ from' = from
    BY <1>5 DEF vars
  <2>2. Safe' <=> Safe
    BY <2>1 DEF Safe
  <2>. QED
    BY <1>1, <2>1, <2>2 DEF RunInv, FromInv
<1>. QED
  BY <1>2, <1>3, <1>4, <1>5 DEF Next, Stopped

\* And it holds at the start.
LEMMA RunInit ==
  ASSUME Init
  PROVE  RunInv
<1>1. f \in Functions /\ mbbs[Entry] = Ops(Entry) \o Ending(Entry)
      /\ bb = Entry /\ pc = 1 /\ phase = "expand"
  BY DEF Init, Entry
<1>2. NoPhi(mbbs[Entry])
  BY <1>1, StartBlockType
<1>. QED
  BY <1>1, <1>2, FlowInit DEF RunInv, FromInv

\* Until it is done a safe function goes on: every PHI it comes to has a value
\* for the block control came from, through whatever blocks were put between.
THEOREM PhisKnowWhereFrom == Spec => []NeverStuck
<1>1. Init => RunInv
  BY RunInit
<1>2. RunInv /\ [Next]_vars => RunInv'
  BY RunStep
<1>3. RunInv => NeverStuck
  BY DEF RunInv, FromInv, NeverStuck
<1>. QED
  BY <1>1, <1>2, <1>3, PTL DEF Spec
=============================================================================
