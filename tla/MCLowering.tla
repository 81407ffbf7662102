----------------------------- MODULE MCLowering -----------------------------
(***************************************************************************)
(* Bytes of two bits, words of four.                                       *)
(*                                                                         *)
(* One comparison at a time with all interesting operands, and every       *)
(* sequence of at most two operations with a few.                          *)
(***************************************************************************)
EXTENDS Lowering

\* Eight bits: every value.  Above: the values at and next to an end or the
\* middle, and with more than one word those whose words are.
Edge == {0, 7, 8, 15}
Operands(bytes) ==
  CASE bytes = 1 -> 0..3
    [] bytes = 2 -> {0, 1, 2, 6, 7, 8, 9, 14, 15}
    [] bytes = 4 -> {16 * hi + lo : hi \in Edge, lo \in Edge}
    [] OTHER -> {0, 1, 15, 16, 256, 32767, 32768, 65280, 65535}

\* A constant is on the right, and TargetLowering::SimplifySetCC has turned
\* "at most" and "at least" a constant into "less" and "greater", and a
\* comparison with the least or greatest value into one for equality.
Constants(cc, size, values) ==
  CASE cc \in {"SETEQ", "SETNE"} -> values
    [] cc \in {"SETGT", "SETLT"} -> values \ {size \div 2, size \div 2 - 1}
    [] cc = "SETUGT" -> values \ {0, size - 2, size - 1}
    [] cc = "SETULT" -> values \ {0, 1, size - 1}
    [] OTHER -> {}

ComparisonsOf(bytes) ==
  {[cmp |-> [cc |-> cc, bytes |-> bytes, const |-> const], l |-> l, r |-> r] :
      cc \in Conditions, const \in BOOLEAN, l \in Operands(bytes), r \in Operands(bytes)}

Comparisons ==
  {c \in UNION {ComparisonsOf(bytes) : bytes \in {1, 2, 4, 8}} :
     c.cmp.const => c.r \in Constants(c.cmp.cc, CmpSize(c.cmp), Operands(c.cmp.bytes))}

Function(c, ops, place, branches, optimized, size, w, amount) ==
  [cmp |-> c.cmp, l |-> c.l, r |-> c.r, ops |-> ops, place |-> place, branches |-> branches,
   optimized |-> optimized, size |-> size, w |-> w, amount |-> amount, other |-> size - 2]

Setcc == [kind |-> "setcc", how |-> "", n |-> 0]
Select == [kind |-> "select", how |-> "", n |-> 0]
ByConst(size) == [kind : {"const"}, how : Hows, n : 1..(IF size = ByteSize THEN 1 ELSE 3)]
ByVariable == [kind : {"loop"}, how : Hows, n : {0}]

\* Every comparison, branched on or turned into a value (four bytes: branched
\* on; a value is compared like eight).
Compared ==
  {Function(c, << >>, Body, TRUE, TRUE, WordSize, 5, 0) : c \in Comparisons}
    \cup {Function(c, <<Setcc>>, Entry, FALSE, FALSE, WordSize, 5, 0) :
             c \in {x \in Comparisons : x.cmp.bytes # 4}}

\* Every single shift, of every value.
ShiftedOnce ==
  UNION {{Function([cmp |-> [cc |-> "SETEQ", bytes |-> 1, const |-> FALSE], l |-> 0, r |-> 1],
            <<op>>, Entry, FALSE, optimized, size, w, amount) :
              op \in ByConst(size) \cup ByVariable, optimized \in BOOLEAN, w \in 0..(size - 1),
              amount \in 0..(IF size = ByteSize THEN 1 ELSE 3)} : size \in {ByteSize, WordSize}}

\* Up to two operations, in either block, with both outcomes of a comparison.
SomeOps == {Setcc, Select, [kind |-> "const", how |-> "SRA", n |-> 2]} \cup ByVariable
Combined ==
  {Function([cmp |-> [cc |-> "SETULT", bytes |-> 2, const |-> FALSE], l |-> l, r |-> 7],
            ops, place, branches, optimized, WordSize, w, amount) :
     l \in {3, 7}, ops \in {<<a>> : a \in SomeOps} \cup {<<a, b>> : a \in SomeOps, b \in SomeOps},
     place \in {Entry, Body}, branches \in BOOLEAN, optimized \in BOOLEAN,
     w \in {11}, amount \in {0, 3}}

MCFunctions == Compared \cup ShiftedOnce \cup Combined
============================================================================
