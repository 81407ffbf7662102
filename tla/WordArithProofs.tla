-------------------------- MODULE WordArithProofs --------------------------
(***************************************************************************)
(* Operations on words done byte by byte, for every width of a byte: what  *)
(* the expansions of ADDW, ADCW, SUBW, SBCW, CPW, CPCW and of the shifts   *)
(* rest on.                                                                *)
(***************************************************************************)
EXTENDS WordArith, TLAPS

LEMMA ByteSizeType == ByteSize \in Nat /\ ByteSize > 1
BY ByteSizeAssumption

\* Division with remainder, and its uniqueness.
LEMMA DivMod ==
  ASSUME NEW w \in Int, NEW M \in Nat, M > 0
  PROVE  w \div M \in Int /\ w % M \in 0..(M - 1) /\ w = M * (w \div M) + (w % M)
OBVIOUS

LEMMA DivModUnique ==
  ASSUME NEW M \in Nat, M > 0, NEW q \in Int, NEW r \in 0..(M - 1)
  PROVE  (M * q + r) % M = r /\ (M * q + r) \div M = q
OBVIOUS

\* splitReg: a word is the pair of its halves.
LEMMA Halves ==
  ASSUME NEW w \in Word
  PROVE  Lo(w) \in Byte /\ Hi(w) \in Byte /\ Pair(Lo(w), Hi(w)) = w
<1> DEFINE B == ByteSize
           q == w \div B
<1>1. B \in Nat /\ B > 1
  BY ByteSizeType
<1>2. q \in Int /\ w % B \in 0..(B - 1) /\ w = B * q + (w % B)
  BY <1>1, DivMod DEF Word
<1>3. w \in Int /\ 0 <= w /\ w < B * B
  BY <1>1 DEF Word, WordSize
<1>4. q \in 0..(B - 1)
  BY <1>1, <1>2, <1>3
<1>5. q % B = q
  BY <1>1, <1>4
<1> QED
  BY <1>2, <1>4, <1>5 DEF Lo, Hi, Pair, Byte

LEMMA PairIsWord ==
  ASSUME NEW lo \in Byte, NEW hi \in Byte
  PROVE  Pair(lo, hi) \in Word /\ Lo(Pair(lo, hi)) = lo /\ Hi(Pair(lo, hi)) = hi
<1> DEFINE B == ByteSize
           w == B * hi + lo
<1>1. B \in Nat /\ B > 1
  BY ByteSizeType
<1>2. lo \in 0..(B - 1) /\ hi \in 0..(B - 1)
  BY DEF Byte
<1>3. w % B = lo /\ w \div B = hi
  BY <1>1, <1>2, DivModUnique
<1>4. hi % B = hi
  BY <1>1, <1>2
<1>5. B * hi \in Nat /\ B * hi <= B * (B - 1) /\ B * (B - 1) = B * B - B
  BY <1>1, <1>2
<1>6. w \in 0..(B * B - 1)
  BY <1>1, <1>2, <1>5
<1> QED
  BY <1>3, <1>4, <1>6 DEF Pair, Lo, Hi, Word, WordSize

\* One addition or subtraction: its result and carry make up the sum.
LEMMA AddParts ==
  ASSUME NEW M \in Nat, M > 1, NEW a \in 0..(M - 1), NEW b \in 0..(M - 1), NEW c \in {0, 1}
  PROVE  /\ AddWith(a, b, c, M).val \in 0..(M - 1)
         /\ AddWith(a, b, c, M).carry \in {0, 1}
         /\ a + b + c = M * AddWith(a, b, c, M).carry + AddWith(a, b, c, M).val
<1>1. CASE a + b + c >= M
  <2>1. (a + b + c) % M = a + b + c - M
    BY <1>1, DivModUnique, M * 1 + (a + b + c - M) = a + b + c
  <2> QED
    BY <1>1, <2>1 DEF AddWith
<1>2. CASE a + b + c < M
  <2>1. (a + b + c) % M = a + b + c
    BY <1>2
  <2> QED
    BY <1>2, <2>1 DEF AddWith
<1> QED
  BY <1>1, <1>2

LEMMA SubParts ==
  ASSUME NEW M \in Nat, M > 1, NEW a \in 0..(M - 1), NEW b \in 0..(M - 1), NEW c \in {0, 1}
  PROVE  /\ SubWith(a, b, c, M).val \in 0..(M - 1)
         /\ SubWith(a, b, c, M).carry \in {0, 1}
         /\ a - b - c = SubWith(a, b, c, M).val - M * SubWith(a, b, c, M).carry
<1>1. CASE a < b + c
  <2>1. (a - b - c) % M = a - b - c + M
    BY <1>1, DivModUnique, M * (-1) + (a - b - c + M) = a - b - c
  <2> QED
    BY <1>1, <2>1 DEF SubWith
<1>2. CASE a >= b + c
  <2>1. (a - b - c) % M = a - b - c
    BY <1>2
  <2> QED
    BY <1>2, <2>1 DEF SubWith
<1> QED
  BY <1>1, <1>2
LEMMA SumOfParts ==
  ASSUME NEW B \in Int, NEW al \in Int, NEW ah \in Int, NEW bl \in Int, NEW bh \in Int,
         NEW c \in Int, NEW k \in Int, NEW kk \in Int, NEW lo \in Int, NEW hi \in Int,
         al + bl + c = B * k + lo, ah + bh + k = B * kk + hi
  PROVE  (B * ah + al) + (B * bh + bl) + c = (B * B) * kk + (B * hi + lo)
<1>1. B * (ah + bh + k) = B * ah + B * bh + B * k
  OBVIOUS
<1>2. B * (B * kk + hi) = (B * B) * kk + B * hi
  OBVIOUS
<1> QED
  BY <1>1, <1>2

LEMMA DifferenceOfParts ==
  ASSUME NEW B \in Int, NEW al \in Int, NEW ah \in Int, NEW bl \in Int, NEW bh \in Int,
         NEW c \in Int, NEW k \in Int, NEW kk \in Int, NEW lo \in Int, NEW hi \in Int,
         al - bl - c = lo - B * k, ah - bh - k = hi - B * kk
  PROVE  (B * ah + al) - (B * bh + bl) - c = (B * hi + lo) - (B * B) * kk
<1>1. B * (ah - bh - k) = B * ah - B * bh - B * k
  OBVIOUS
<1>2. B * (hi - B * kk) = B * hi - (B * B) * kk
  OBVIOUS
<1> QED
  BY <1>1, <1>2

LEMMA CarryOut ==
  ASSUME NEW M \in Nat, M > 0, NEW s \in Int, NEW k \in {0, 1}, NEW r \in 0..(M - 1),
         s = M * k + r
  PROVE  s % M = r /\ (s >= M <=> k = 1)
<1>1. s % M = r
  BY DivModUnique
<1>2. CASE k = 0
  BY <1>1, <1>2
<1>3. CASE k = 1
  BY <1>1, <1>3
<1> QED
  BY <1>2, <1>3

LEMMA BorrowOut ==
  ASSUME NEW M \in Nat, M > 0, NEW s \in Int, NEW k \in {0, 1}, NEW r \in 0..(M - 1),
         s = r - M * k
  PROVE  s % M = r /\ (s < 0 <=> k = 1)
<1>1. CASE k = 0
  BY <1>1
<1>2. CASE k = 1
  <2>1. s = M * (-1) + r
    BY <1>2
  <2> QED
    BY <1>2, <2>1, DivModUnique
<1> QED
  BY <1>1, <1>2

\* The numbers behind a two-byte addition and subtraction.
LEMMA AddNumbers ==
  ASSUME NEW B \in Nat, B > 1,
         NEW al \in 0..(B - 1), NEW ah \in 0..(B - 1),
         NEW bl \in 0..(B - 1), NEW bh \in 0..(B - 1), NEW c \in {0, 1},
         NEW k \in {0, 1}, NEW kk \in {0, 1}, NEW lo \in 0..(B - 1), NEW hi \in 0..(B - 1),
         al + bl + c = B * k + lo, ah + bh + k = B * kk + hi
  PROVE  LET s == (B * ah + al) + (B * bh + bl) + c
         IN  s % (B * B) = B * hi + lo /\ (s >= B * B <=> kk = 1)
<1> DEFINE s == (B * ah + al) + (B * bh + bl) + c
           M == B * B
           r == B * hi + lo
<1>1. M \in Nat /\ M > 0 /\ s \in Int
  OBVIOUS
<1>2. r \in 0..(M - 1)
  <2>1. B * hi \in Nat /\ B * hi <= B * (B - 1) /\ B * (B - 1) = B * B - B
    OBVIOUS
  <2> QED
    BY <2>1
<1>3. s = M * kk + r
  BY SumOfParts
<1> HIDE DEF s, M, r
<1>4. s % M = r /\ (s >= M <=> kk = 1)
  BY <1>1, <1>2, <1>3, CarryOut
<1> QED
  BY <1>4 DEF s, M, r

LEMMA SubNumbers ==
  ASSUME NEW B \in Nat, B > 1,
         NEW al \in 0..(B - 1), NEW ah \in 0..(B - 1),
         NEW bl \in 0..(B - 1), NEW bh \in 0..(B - 1), NEW c \in {0, 1},
         NEW k \in {0, 1}, NEW kk \in {0, 1}, NEW lo \in 0..(B - 1), NEW hi \in 0..(B - 1),
         al - bl - c = lo - B * k, ah - bh - k = hi - B * kk
  PROVE  LET s == (B * ah + al) - (B * bh + bl) - c
         IN  s % (B * B) = B * hi + lo /\ (s < 0 <=> kk = 1)
<1> DEFINE s == (B * ah + al) - (B * bh + bl) - c
           M == B * B
           r == B * hi + lo
<1>1. M \in Nat /\ M > 0 /\ s \in Int
  OBVIOUS
<1>2. r \in 0..(M - 1)
  <2>1. B * hi \in Nat /\ B * hi <= B * (B - 1) /\ B * (B - 1) = B * B - B
    OBVIOUS
  <2> QED
    BY <2>1
<1>3. s = r - M * kk
  BY DifferenceOfParts
<1> HIDE DEF s, M, r
<1>4. s % M = r /\ (s < 0 <=> kk = 1)
  BY <1>1, <1>2, <1>3, BorrowOut
<1> QED
  BY <1>4 DEF s, M, r

----------------------------------------------------------------------------
(***************************************************************************)
(* expandArith: adding the low bytes, then the high bytes with the carry,  *)
(* is adding the words; the carry out is that of the word.                 *)
(***************************************************************************)
THEOREM AddByBytes ==
  ASSUME NEW a \in Word, NEW b \in Word, NEW c \in {0, 1}
  PROVE  LET lo == AddWith(Lo(a), Lo(b), c, ByteSize)
             hi == AddWith(Hi(a), Hi(b), lo.carry, ByteSize)
         IN  /\ lo.val \in Byte /\ hi.val \in Byte
             /\ lo.carry \in {0, 1} /\ hi.carry \in {0, 1}
             /\ AddWith(a, b, c, WordSize) = [val |-> Pair(lo.val, hi.val), carry |-> hi.carry]
<1> DEFINE al == Lo(a)  ah == Hi(a)  bl == Lo(b)  bh == Hi(b)
           lo == AddWith(al, bl, c, ByteSize)
           k == lo.carry
           hi == AddWith(ah, bh, k, ByteSize)
           kk == hi.carry
           l == lo.val
           h == hi.val
<1>1. ByteSize \in Nat /\ ByteSize > 1
  BY ByteSizeType
<1>2. /\ al \in 0..(ByteSize - 1) /\ ah \in 0..(ByteSize - 1) /\ a = ByteSize * ah + al
      /\ bl \in 0..(ByteSize - 1) /\ bh \in 0..(ByteSize - 1) /\ b = ByteSize * bh + bl
  BY Halves DEF Pair, Byte
<1> HIDE DEF al, ah, bl, bh
<1>3. l \in 0..(ByteSize - 1) /\ k \in {0, 1} /\ al + bl + c = ByteSize * k + l
  BY <1>1, <1>2, AddParts
<1> HIDE DEF l, k
<1>4. h \in 0..(ByteSize - 1) /\ kk \in {0, 1} /\ ah + bh + k = ByteSize * kk + h
  <2>1. \A x \in {0, 1} :
          /\ AddWith(ah, bh, x, ByteSize).val \in 0..(ByteSize - 1)
          /\ AddWith(ah, bh, x, ByteSize).carry \in {0, 1}
          /\ ah + bh + x = ByteSize * AddWith(ah, bh, x, ByteSize).carry + AddWith(ah, bh, x, ByteSize).val
    BY <1>1, <1>2, AddParts
  <2> QED
    BY <1>3, <2>1
<1> HIDE DEF h, kk
<1>5. /\ ((ByteSize * ah + al) + (ByteSize * bh + bl) + c) % (ByteSize * ByteSize) = ByteSize * h + l
      /\ ((ByteSize * ah + al) + (ByteSize * bh + bl) + c >= ByteSize * ByteSize) <=> (kk = 1)
  BY <1>1, <1>2, <1>3, <1>4, AddNumbers
<1>6. (a + b + c) % WordSize = Pair(l, h) /\ ((a + b + c >= WordSize) <=> (kk = 1))
  BY <1>2, <1>5 DEF Pair, WordSize
<1>7. AddWith(a, b, c, WordSize) = [val |-> Pair(l, h), carry |-> kk]
  BY <1>4, <1>6 DEF AddWith
<1>8. l \in Byte /\ h \in Byte
  BY <1>3, <1>4 DEF Byte
<1> QED
  BY <1>3, <1>4, <1>7, <1>8 DEF l, k, h, kk, al, ah, bl, bh

(***************************************************************************)
(* The same of subtraction, and so of the comparisons.                     *)
(***************************************************************************)
THEOREM SubByBytes ==
  ASSUME NEW a \in Word, NEW b \in Word, NEW c \in {0, 1}
  PROVE  LET lo == SubWith(Lo(a), Lo(b), c, ByteSize)
             hi == SubWith(Hi(a), Hi(b), lo.carry, ByteSize)
         IN  /\ lo.val \in Byte /\ hi.val \in Byte
             /\ lo.carry \in {0, 1} /\ hi.carry \in {0, 1}
             /\ SubWith(a, b, c, WordSize) = [val |-> Pair(lo.val, hi.val), carry |-> hi.carry]
<1> DEFINE al == Lo(a)  ah == Hi(a)  bl == Lo(b)  bh == Hi(b)
           lo == SubWith(al, bl, c, ByteSize)
           k == lo.carry
           hi == SubWith(ah, bh, k, ByteSize)
           kk == hi.carry
           l == lo.val
           h == hi.val
<1>1. ByteSize \in Nat /\ ByteSize > 1
  BY ByteSizeType
<1>2. /\ al \in 0..(ByteSize - 1) /\ ah \in 0..(ByteSize - 1) /\ a = ByteSize * ah + al
      /\ bl \in 0..(ByteSize - 1) /\ bh \in 0..(ByteSize - 1) /\ b = ByteSize * bh + bl
  BY Halves DEF Pair, Byte
<1> HIDE DEF al, ah, bl, bh
<1>3. l \in 0..(ByteSize - 1) /\ k \in {0, 1} /\ al - bl - c = l - ByteSize * k
  BY <1>1, <1>2, SubParts
<1> HIDE DEF l, k
<1>4. h \in 0..(ByteSize - 1) /\ kk \in {0, 1} /\ ah - bh - k = h - ByteSize * kk
  <2>1. \A x \in {0, 1} :
          /\ SubWith(ah, bh, x, ByteSize).val \in 0..(ByteSize - 1)
          /\ SubWith(ah, bh, x, ByteSize).carry \in {0, 1}
          /\ ah - bh - x = SubWith(ah, bh, x, ByteSize).val - ByteSize * SubWith(ah, bh, x, ByteSize).carry
    BY <1>1, <1>2, SubParts
  <2> QED
    BY <1>3, <2>1
<1> HIDE DEF h, kk
<1>5. /\ ((ByteSize * ah + al) - (ByteSize * bh + bl) - c) % (ByteSize * ByteSize) = ByteSize * h + l
      /\ ((ByteSize * ah + al) - (ByteSize * bh + bl) - c < 0) <=> (kk = 1)
  BY <1>1, <1>2, <1>3, <1>4, SubNumbers
<1>6. a \in Int /\ b \in Int /\ c \in Int
  BY ByteSizeType DEF Word, WordSize
<1>7. (a - b - c) % WordSize = Pair(l, h) /\ ((a < b + c) <=> (kk = 1))
  BY <1>2, <1>5, <1>6 DEF Pair, WordSize
<1>8. SubWith(a, b, c, WordSize) = [val |-> Pair(l, h), carry |-> kk]
  BY <1>4, <1>7 DEF SubWith
<1>9. l \in Byte /\ h \in Byte
  BY <1>3, <1>4 DEF Byte
<1> QED
  BY <1>3, <1>4, <1>8, <1>9 DEF l, k, h, kk, al, ah, bl, bh

\* The sign of a word is that of its high byte.
LEMMA SignedByBytes ==
  ASSUME NEW w \in Word
  PROVE  /\ Signed(Hi(w), ByteSize) \in Int
         /\ Signed(w, WordSize) = ByteSize * Signed(Hi(w), ByteSize) + Lo(w)
<1> DEFINE B == ByteSize
           h == Hi(w)
           l == Lo(w)
           k == B \div 2
<1>1. B \in Nat /\ B > 1 /\ k \in Nat /\ B = 2 * k
  BY ByteSizeAssumption
<1>2. l \in 0..(B - 1) /\ h \in 0..(B - 1) /\ w = B * h + l
  BY Halves DEF Pair, Byte
<1> HIDE DEF h, l, k
<1>3. CASE 2 * h < B
  <2>1. h + 1 <= k
    BY <1>1, <1>2, <1>3
  <2>2. B * h + B <= B * k
    BY <1>1, <1>2, <2>1
  <2>3. 2 * (B * k) = B * B
    BY <1>1
  <2>4. 2 * w < B * B
    BY <1>1, <1>2, <2>2, <2>3
  <2> QED
    BY <1>1, <1>2, <1>3, <2>4 DEF Signed, WordSize, h, l
<1>4. CASE 2 * h >= B
  <2>1. h >= k
    BY <1>1, <1>2, <1>4
  <2>2. B * h >= B * k
    BY <1>1, <1>2, <2>1
  <2>3. 2 * (B * k) = B * B
    BY <1>1
  <2>4. ~(2 * w < B * B)
    BY <1>1, <1>2, <2>2, <2>3
  <2>5. B * (h - B) = B * h - B * B
    BY <1>1, <1>2
  <2> QED
    BY <1>1, <1>2, <1>4, <2>4, <2>5 DEF Signed, WordSize, h, l
<1> QED
  BY <1>1, <1>2, <1>3, <1>4

(***************************************************************************)
(* CPW then CPCW's flags: comparing the low bytes, then the high bytes     *)
(* with the borrow, leaves the sign flag of the 16-bit comparison, and Z,  *)
(* kept only if both halves are equal, is Z of the words' difference.      *)
(***************************************************************************)
THEOREM CompareByBytes ==
  ASSUME NEW a \in Word, NEW b \in Word, NEW c \in {0, 1}
  PROVE  LET lo == SubWith(Lo(a), Lo(b), c, ByteSize)
             hi == SubWith(Hi(a), Hi(b), lo.carry, ByteSize)
         IN  /\ SignedLess(a, b, c, WordSize)
                  <=> SignedLess(Hi(a), Hi(b), lo.carry, ByteSize)
             /\ SubWith(a, b, c, WordSize).val = 0 <=> (lo.val = 0 /\ hi.val = 0)
<1> DEFINE B == ByteSize
           lo == SubWith(Lo(a), Lo(b), c, ByteSize)
           hi == SubWith(Hi(a), Hi(b), lo.carry, ByteSize)
           sa == Signed(Hi(a), B)
           sb == Signed(Hi(b), B)
           d == sa - sb - lo.carry
<1>1. B \in Nat /\ B > 1
  BY ByteSizeType
<1>2. /\ Lo(a) \in 0..(B - 1) /\ Lo(b) \in 0..(B - 1)
      /\ Hi(a) \in 0..(B - 1) /\ Hi(b) \in 0..(B - 1)
  BY Halves DEF Byte
<1>3. /\ lo.val \in 0..(B - 1) /\ lo.carry \in {0, 1}
      /\ Lo(a) - Lo(b) - c = lo.val - B * lo.carry
  BY <1>1, <1>2, SubParts
<1>4. /\ sa \in Int /\ sb \in Int
      /\ Signed(a, WordSize) = B * sa + Lo(a) /\ Signed(b, WordSize) = B * sb + Lo(b)
  BY SignedByBytes
<1> HIDE DEF lo, sa, sb
<1>5. Signed(a, WordSize) - Signed(b, WordSize) - c = B * d + lo.val
  <2>1. B * d = B * sa - B * sb - B * lo.carry
    BY <1>1, <1>3, <1>4
  <2> QED
    BY <1>1, <1>2, <1>3, <1>4, <2>1
<1>6. B * d + lo.val < 0 <=> d < 0
  <2>1. CASE d < 0
    <3>1. d <= -1 /\ d \in Int
      BY <2>1, <1>3, <1>4
    <3>2. B * d <= -B
      BY <1>1, <3>1
    <3> QED
      BY <1>1, <1>3, <2>1, <3>1, <3>2
  <2>2. CASE d >= 0
    <3>1. d \in Int /\ B * d >= 0
      BY <2>2, <1>1, <1>3, <1>4
    <3> QED
      BY <1>1, <1>3, <2>2, <3>1
  <2> QED
    BY <2>1, <2>2, <1>3, <1>4
<1>7. SignedLess(a, b, c, WordSize) <=> SignedLess(Hi(a), Hi(b), lo.carry, ByteSize)
  BY <1>5, <1>6 DEF SignedLess, sa, sb
<1>8. SubWith(a, b, c, WordSize).val = Pair(lo.val, hi.val) /\ hi.val \in 0..(B - 1)
  BY SubByBytes DEF lo, Byte
<1> HIDE DEF hi
<1>9. Pair(lo.val, hi.val) = 0 <=> (lo.val = 0 /\ hi.val = 0)
  <2>1. B * hi.val \in Nat /\ (hi.val > 0 => B * hi.val > 0)
    BY <1>1, <1>8
  <2> QED
    BY <1>1, <1>3, <1>8, <2>1 DEF Pair
<1> QED
  BY <1>7, <1>8, <1>9 DEF lo, hi

\* Shifting left is adding a number to itself: no carry out of the added bit.
LEMMA ShiftLeftAdds ==
  ASSUME NEW M \in Nat, M > 1, M % 2 = 0, NEW a \in 0..(M - 1), NEW x \in {0, 1}
  PROVE  ShiftLeft(a, x, M) = AddWith(a, a, x, M)
<1>1. M = 2 * (M \div 2) /\ M \div 2 \in Nat
  OBVIOUS
<1>2. (2 * a + x >= M) <=> (2 * a >= M)
  BY <1>1
<1>3. 2 * a + x = a + a + x
  OBVIOUS
<1> QED
  BY <1>2, <1>3 DEF ShiftLeft, AddWith

(***************************************************************************)
(* LSLW: the bit the low byte shifts out goes into the high byte.          *)
(***************************************************************************)
THEOREM ShiftLeftByBytes ==
  ASSUME NEW w \in Word, NEW c \in {0, 1}
  PROVE  LET lo == ShiftLeft(Lo(w), c, ByteSize)
             hi == ShiftLeft(Hi(w), lo.carry, ByteSize)
         IN  ShiftLeft(w, c, WordSize) = [val |-> Pair(lo.val, hi.val), carry |-> hi.carry]
<1>2. ByteSize \in Nat /\ ByteSize > 1 /\ ByteSize % 2 = 0
  BY ByteSizeAssumption
<1>3. WordSize \in Nat /\ WordSize > 1 /\ WordSize % 2 = 0
  <2>1. PICK h \in Nat : ByteSize = 2 * h
    <3>1. ByteSize = 2 * (ByteSize \div 2) /\ ByteSize \div 2 \in Nat
      BY <1>2
    <3> QED
      BY <3>1
  <2>2. WordSize = 2 * (h * ByteSize) /\ h * ByteSize \in Nat /\ WordSize > 1
    <3>1. ByteSize * ByteSize = 2 * (h * ByteSize)
      BY <1>2, <2>1
    <3>2. ByteSize * ByteSize >= 2 * ByteSize
      BY <1>2
    <3> QED
      BY <1>2, <3>1, <3>2 DEF WordSize
  <2> HIDE DEF WordSize
  <2>3. \A n \in Nat : (2 * n) % 2 = 0
    OBVIOUS
  <2> QED
    BY <1>2, <2>2, <2>3
<1>4. Lo(w) \in 0..(ByteSize - 1) /\ Hi(w) \in 0..(ByteSize - 1)
  BY Halves DEF Byte
<1> DEFINE lo == AddWith(Lo(w), Lo(w), c, ByteSize)
<1>5. /\ lo.carry \in {0, 1}
      /\ LET hi == AddWith(Hi(w), Hi(w), lo.carry, ByteSize)
         IN  AddWith(w, w, c, WordSize) = [val |-> Pair(lo.val, hi.val), carry |-> hi.carry]
  BY AddByBytes
<1>6. ShiftLeft(Lo(w), c, ByteSize) = lo
  BY <1>2, <1>4, ShiftLeftAdds
<1> HIDE DEF lo
<1>7. ShiftLeft(Hi(w), lo.carry, ByteSize) = AddWith(Hi(w), Hi(w), lo.carry, ByteSize)
  BY <1>2, <1>4, <1>5, ShiftLeftAdds
<1>8. ShiftLeft(w, c, WordSize) = AddWith(w, w, c, WordSize)
  BY <1>3, ShiftLeftAdds DEF Word
<1> QED
  BY <1>5, <1>6, <1>7, <1>8

(***************************************************************************)
(* LSRW, and ASRW with the sign in c: the bit the high byte shifts out     *)
(* goes into the top of the low byte; and the sign is the high byte's.     *)
(***************************************************************************)
THEOREM ShiftRightByBytes ==
  ASSUME NEW w \in Word, NEW c \in {0, 1}
  PROVE  LET hi == ShiftRight(Hi(w), c, ByteSize)
             lo == ShiftRight(Lo(w), hi.carry, ByteSize)
         IN  ShiftRight(w, c, WordSize) = [val |-> Pair(lo.val, hi.val), carry |-> lo.carry]
<1> DEFINE B == ByteSize
           k == B \div 2
           l == Lo(w)
           h == Hi(w)
           q == h \div 2
           r == h % 2
           p == l \div 2
           s == l % 2
<1>1. B \in Nat /\ B > 1 /\ k \in Nat /\ B = 2 * k
  BY ByteSizeAssumption
<1>2. l \in 0..(B - 1) /\ h \in 0..(B - 1) /\ w = B * h + l
  BY Halves DEF Pair, Byte
<1> HIDE DEF k, l, h
<1>3. q \in Int /\ r \in {0, 1} /\ h = 2 * q + r
  BY <1>2
<1>4. p \in Int /\ s \in {0, 1} /\ l = 2 * p + s
  BY <1>2
<1> HIDE DEF q, r, p, s
<1>5. w = 2 * (B * q + k * r + p) + s
  <2>1. B * h = B * (2 * q) + B * r
    BY <1>1, <1>2, <1>3
  <2>2. B * (2 * q) = 2 * (B * q)
    BY <1>1, <1>3
  <2>3. B * r = 2 * (k * r)
    BY <1>1, <1>3
  <2> QED
    BY <1>1, <1>2, <1>3, <1>4, <2>1, <2>2, <2>3
<1>6. B * q + k * r + p \in Int
  BY <1>1, <1>3, <1>4
<1>7. w \div 2 = B * q + k * r + p /\ w % 2 = s
  <2> DEFINE n == B * q + k * r + p
  <2>1. n \in Int /\ w = 2 * n + s
    BY <1>5, <1>6
  <2> HIDE DEF n
  <2>2. w \div 2 = n /\ w % 2 = s
    BY <2>1, <1>4
  <2> QED
    BY <2>2 DEF n
<1>8. k * r = (IF r = 1 THEN k ELSE 0)
  BY <1>1, <1>3
<1>9. WordSize \div 2 = B * k
  <2>1. WordSize = 2 * (B * k) /\ B * k \in Int
    BY <1>1 DEF WordSize
  <2> DEFINE n == B * k
  <2> HIDE DEF n, WordSize
  <2>2. WordSize = 2 * n /\ n \in Int
    BY <2>1 DEF n
  <2>3. WordSize \div 2 = n
    BY <2>2
  <2> QED
    BY <2>3 DEF n
<1>10. ShiftRight(h, c, B) = [val |-> q + (IF c = 1 THEN k ELSE 0), carry |-> r]
  BY DEF ShiftRight, q, r, k
<1>11. ShiftRight(l, r, B) = [val |-> p + (IF r = 1 THEN k ELSE 0), carry |-> s]
  BY DEF ShiftRight, p, s, k
<1>12. ShiftRight(w, c, WordSize) = [val |-> (B * q + k * r + p) + (IF c = 1 THEN B * k ELSE 0), carry |-> s]
  BY <1>7, <1>9 DEF ShiftRight
<1>13. (B * q + k * r + p) + (IF c = 1 THEN B * k ELSE 0)
         = Pair(p + (IF r = 1 THEN k ELSE 0), q + (IF c = 1 THEN k ELSE 0))
  <2>1. B * (q + k) = B * q + B * k /\ B * q \in Int /\ B * k \in Int
    BY <1>1, <1>3
  <2>2. CASE c = 1
    BY <1>1, <1>3, <1>4, <1>8, <2>1, <2>2 DEF Pair
  <2>3. CASE c = 0
    BY <1>1, <1>3, <1>4, <1>8, <2>1, <2>3 DEF Pair
  <2> QED
    BY <2>2, <2>3
<1> QED
  BY <1>10, <1>11, <1>12, <1>13 DEF l, h
=============================================================================
