------------------------------ MODULE Lowering ------------------------------
(***************************************************************************)
(* Comparisons, selects and shifts from the DAG to machine blocks:         *)
(* SNESTargetLowering lowers them to compares, branches and pseudos        *)
(* (getSNESCmp, LowerBR_CC, LowerSELECT_CC, LowerSETCC, LowerShifts), the  *)
(* pass ExpandISelPseudos has each pseudo replaced by new blocks           *)
(* (EmitInstrWithCustomInserter, insertShift), and the function then runs. *)
(*                                                                         *)
(* The function has the blocks Entry, Body and Join, in this order.  Its   *)
(* operations stand in one of the first two; Entry ends in a conditional   *)
(* branch to Join or goes on to Body.  Join returns the result of the      *)
(* operations, or `other` if it was reached straight from Entry.           *)
(***************************************************************************)
EXTENDS WordArith, Sequences, SequencesExt

CONSTANT Functions   \* the functions to lower

Entry == 1
Body == 2
Join == 3

Conditions ==
  {"SETEQ", "SETNE", "SETGT", "SETGE", "SETLT", "SETLE", "SETUGT", "SETUGE", "SETULT", "SETULE"}

Hows == {"SHL", "SRL", "SRA"}

\* Shifts, by a constant or by the variable amount, and comparisons as values.
SourceOps ==
  [kind : {"const"}, how : Hows, n : Nat \ {0}] \cup [kind : {"loop"}, how : Hows, n : {0}]
    \cup [kind : {"select", "setcc"}, how : {""}, n : {0}]

\* The width of a comparison of so many bytes.
SizeOf(bytes) ==
  CASE bytes = 1 -> ByteSize
    [] bytes = 2 -> WordSize
    [] bytes = 4 -> WordSize * WordSize
    [] OTHER -> WordSize * WordSize * WordSize * WordSize

CmpSize(cmp) == SizeOf(cmp.bytes)

\* A function the target is handed: TargetLowering::SimplifySetCC has folded
\* "greater than" the greatest constant.
IsFunction(g) ==
  /\ g.cmp \in [cc : Conditions, bytes : {1, 2, 4, 8}, const : BOOLEAN]
  /\ g.l \in 0..(CmpSize(g.cmp) - 1) /\ g.r \in 0..(CmpSize(g.cmp) - 1)
  /\ g.cmp.const /\ g.cmp.cc = "SETGT" => 2 * (g.r + 1) # CmpSize(g.cmp)
  /\ g.cmp.const /\ g.cmp.cc = "SETUGT" => g.r + 1 # CmpSize(g.cmp)
  /\ g.ops \in Seq(SourceOps) /\ g.place \in {Entry, Body}
  /\ g.branches \in BOOLEAN /\ g.optimized \in BOOLEAN
  /\ g.size \in {ByteSize, WordSize}
  /\ g.w \in 0..(g.size - 1) /\ g.other \in 0..(g.size - 1) /\ g.amount \in Byte

ASSUME FunctionsAssumption == \A g \in Functions : IsFunction(g)

VARIABLES
  f,        \* the function and its inputs; it never changes
  mbbs,     \* its machine blocks, by number: sequences of instructions
  succs,    \* their successors in the machine CFG
  layout,   \* the order of the blocks in memory
  nregs,    \* the number of virtual registers
  I, mbbi,  \* ExpandISelPseudos' iterators: a block, a place in it
  phase,    \* "expand", "run", "done", or "stuck" at a PHI
  bb, pc,   \* running: the block, the place in it,
  from,     \*   the block control came from,
  regs, P   \*   the virtual registers and the status register

vars == <<f, mbbs, succs, layout, nregs, I, mbbi, phase, bb, pc, from, regs, P>>

\* Virtual registers of the inputs; operation i writes OpReg(i).
W == 1
Amount == 2
LReg == 3
RReg == 4
Other == 5
One == 6
Zero == 7
Res == 8
OpReg(i) == IF i = 0 THEN W ELSE Res + i

Reg(r) == [reg |-> r, k |-> 0]
Const(k) == [reg |-> 0, k |-> k]
----------------------------------------------------------------------------
(***************************************************************************)
(* What the operations mean.                                               *)
(***************************************************************************)
Relation(cc, l, r, M) ==
  CASE cc = "SETEQ" -> l = r
    [] cc = "SETNE" -> l # r
    [] cc = "SETGT" -> Signed(l, M) > Signed(r, M)
    [] cc = "SETGE" -> Signed(l, M) >= Signed(r, M)
    [] cc = "SETLT" -> Signed(l, M) < Signed(r, M)
    [] cc = "SETLE" -> Signed(l, M) <= Signed(r, M)
    [] cc = "SETUGT" -> l > r
    [] cc = "SETUGE" -> l >= r
    [] cc = "SETULT" -> l < r
    [] OTHER -> l <= r

Shifted(how, w, n, M) ==
  CASE how = "SHL" -> (w * 2^n) % M
    [] how = "SRL" -> w \div 2^n
    [] OTHER -> (Signed(w, M) \div 2^n) % M

Holds == Relation(f.cmp.cc, f.l, f.r, CmpSize(f.cmp))

OpValue(op, w) ==
  CASE op.kind = "const" -> Shifted(op.how, w, op.n, f.size)
    [] op.kind = "loop" -> Shifted(op.how, w, f.amount, f.size)
    [] op.kind = "select" -> IF Holds THEN w ELSE f.other
    [] OTHER -> IF Holds THEN 1 ELSE 0

SourceValue ==
  IF f.branches /\ Holds THEN f.other
  ELSE FoldLeft(LAMBDA w, op : OpValue(op, w), f.w, f.ops)
----------------------------------------------------------------------------
(***************************************************************************)
(* The DAG lowering.                                                       *)
(***************************************************************************)
\* intCCToSNESCC.
SNESCC ==
  [SETEQ |-> "EQ", SETNE |-> "NE", SETGE |-> "GE", SETLT |-> "LT",
   SETUGE |-> "SH", SETULT |-> "LO"]

\* A compare of two operands, and the test of the first one's top byte.
Compare(l, r, cc) == [test |-> FALSE, l |-> l, r |-> r, cc |-> SNESCC[cc]]
Test(l, cond) == [test |-> TRUE, l |-> l, r |-> l, cc |-> cond]

\* Mutant: the constant is kept.
SameConst(c, M) == Const(c % M)

\* x > c is x >= c + 1, which folds the constant into the compare.
NextConst(c, M) == Const((c + 1) % M)

\* getSNESCmp: the operands and the condition to compare them by; rhs may be
\* a constant, whose value in two's complement is c.
GetSNESCmp(cc, lhs, rhs, M) ==
  LET c == Signed(rhs.k, M)
      isConst == rhs.reg = 0
  IN  CASE cc = "SETLE" -> Compare(rhs, lhs, "SETGE")
        [] cc = "SETGT" /\ isConst /\ c = -1 -> Test(lhs, "PL")
        [] cc = "SETGT" /\ isConst /\ c = 0 -> Compare(Const(0), lhs, "SETLT")
        [] cc = "SETGT" /\ isConst /\ c \notin {-1, 0} -> Compare(lhs, NextConst(c, M), "SETGE")
        [] cc = "SETGT" /\ ~isConst -> Compare(rhs, lhs, "SETLT")
        [] cc = "SETLT" /\ isConst /\ c = 1 -> Compare(Const(0), lhs, "SETGE")
        [] cc = "SETLT" /\ isConst /\ c = 0 -> Test(lhs, "MI")
        [] cc = "SETULE" -> Compare(rhs, lhs, "SETUGE")
        [] cc = "SETUGT" /\ isConst -> Compare(lhs, NextConst(c, M), "SETUGE")
        [] cc = "SETUGT" /\ ~isConst -> Compare(rhs, lhs, "SETULT")
        [] OTHER -> Compare(lhs, rhs, cc)

Cmp == GetSNESCmp(f.cmp.cc, Reg(LReg), IF f.cmp.const THEN Const(f.r) ELSE Reg(RReg),
                  CmpSize(f.cmp))

\* The compare of the parts of l and r from 1/below on, each of the given size.
Part(op, cmp, below, size) ==
  [op |-> op, a |-> cmp.l, b |-> cmp.r, below |-> below, size |-> size]

\* The value of a one in each word.
Words == <<1, WordSize, WordSize * WordSize, WordSize * WordSize * WordSize>>

\* CMP of the low word, then CMPC of each word above; TST looks at the top
\* byte only.  Eight and sixteen bits are one CMP.
CmpNodes(cmp, bytes) ==
  IF cmp.test THEN <<Part("TST", cmp, SizeOf(bytes) \div ByteSize, ByteSize)>>
  ELSE IF bytes = 1 THEN <<Part("CMP", cmp, 1, ByteSize)>>
  ELSE [i \in 1..(bytes \div 2) |->
          Part(IF i = 1 THEN "CMP" ELSE "CMPC", cmp, Words[i], WordSize)]

Br(cond, to) == [op |-> "BR", cond |-> cond, to |-> to]
Rjmp(to) == [op |-> "RJMPk", to |-> to]
Phi(d, ins) == [op |-> "PHI", d |-> d, ins |-> ins]
Shift(d, s, how) == [op |-> "SHIFT", d |-> d, s |-> s, how |-> how]

\* LowerShifts: a constant amount becomes that many shifts by one bit, any
\* other the pseudo of a loop.
LowerShifts(op, s, d) ==
  IF op.kind = "const"
    THEN [i \in 1..op.n |-> Shift(d, IF i = 1 THEN s ELSE d, op.how)]
    ELSE <<[op |-> "ShiftLoop", d |-> d, s |-> s, n |-> Amount, how |-> op.how]>>

\* LowerSELECT_CC and LowerSETCC: compare, and the pseudo Select.
LowerSelect(op, s, d) ==
  Append(CmpNodes(Cmp, f.cmp.bytes),
         [op |-> "Select", d |-> d, cond |-> Cmp.cc,
          t |-> IF op.kind = "select" THEN s ELSE One,
          f |-> IF op.kind = "select" THEN Other ELSE Zero])

LowerOp(i) ==
  IF f.ops[i].kind \in {"const", "loop"}
    THEN LowerShifts(f.ops[i], OpReg(i - 1), OpReg(i))
    ELSE LowerSelect(f.ops[i], OpReg(i - 1), OpReg(i))

Ops(b) == IF b = f.place THEN FlattenSeq([i \in DOMAIN f.ops |-> LowerOp(i)]) ELSE << >>

\* visitBr: a jump to the next block is left out when optimizing; the false
\* branch of a conditional one (LowerBR_CC) never is.
JumpToNext(b) == IF f.optimized THEN << >> ELSE <<Rjmp(b + 1)>>

Ending(b) ==
  IF b = Entry /\ f.branches
    THEN CmpNodes(Cmp, f.cmp.bytes) \o <<Br(Cmp.cc, Join), Rjmp(Body)>>
    ELSE JumpToNext(b)

Incoming ==
  Append(IF f.branches THEN <<[reg |-> Other, mbb |-> Entry]>> ELSE << >>,
         [reg |-> OpReg(Len(f.ops)), mbb |-> Body])

Init ==
  /\ f \in Functions
  /\ mbbs = <<Ops(Entry) \o Ending(Entry), Ops(Body) \o Ending(Body),
              <<Phi(Res, Incoming), [op |-> "RET"]>>>>
  /\ succs = <<IF f.branches THEN {Body, Join} ELSE {Body}, {Join}, {}>>
  /\ layout = <<Entry, Body, Join>>
  /\ nregs = Res + Len(f.ops)
  /\ I = 1 /\ mbbi = 1
  /\ phase = "expand"
  /\ bb = Entry /\ pc = 1 /\ from = Entry
  /\ regs = << >>
  /\ P = [c |-> 0, z |-> 0, s |-> 0, n |-> 0]
----------------------------------------------------------------------------
(***************************************************************************)
(* ExpandISelPseudos and the custom inserters.                             *)
(***************************************************************************)
Place(b) == SelectInSeq(layout, LAMBDA x : x = b)

Pseudos == {"ShiftLoop", "Select"}

\* Mutant: the PHIs of the successors are left alone.
TransferSuccessors(old, to, ss, blocks) == blocks

\* transferSuccessorsAndUpdatePHIs: in the PHIs of the blocks ss, to takes
\* the place of old.
TransferAndUpdatePHIs(old, to, ss, blocks) ==
  LET Renamed(instr) ==
        IF instr.op # "PHI" THEN instr
        ELSE [instr EXCEPT !.ins = [i \in DOMAIN @ |->
                IF @[i].mbb = old THEN [@[i] EXCEPT !.mbb = to] ELSE @[i]]]
  IN  [b \in DOMAIN blocks |->
         IF b \in ss THEN [i \in DOMAIN blocks[b] |-> Renamed(blocks[b][i])] ELSE blocks[b]]

\* Mutant: the counter is not decremented.
LoopForever(s, s2, n, n2, how, loop) ==
  <<Shift(s2, s, how), [op |-> "SUBI", d |-> n2, s |-> n, k |-> 0], Br("NE", loop)>>

LoopBody(s, s2, n, n2, how, loop) ==
  <<Shift(s2, s, how), [op |-> "SUBI", d |-> n2, s |-> n, k |-> 1], Br("NE", loop)>>

\* Mutant: LoopBB is created but not put in the function.
OnlyRemBB(loop, rem) == <<layout[1], rem>> \o Tail(layout)

\* The new blocks go behind the function's first block.
BehindFirst(loop, rem) == <<layout[1], loop, rem>> \o Tail(layout)

\* insertShift: the block ends in front of the pseudo by leaving for RemBB if
\* the amount is zero; LoopBB shifts by one until the amount is used up;
\* RemBB has the rest.
InsertShift(b, mi) ==
  LET loop == Len(mbbs) + 1
      rem == Len(mbbs) + 2
      s == nregs + 1
      s2 == nregs + 2
      n == nregs + 3
      n2 == nregs + 4
      After(r) == <<[reg |-> mi.s, mbb |-> b], [reg |-> s2, mbb |-> loop]>>
      head == SubSeq(mbbs[b], 1, mbbi - 1)
                \o <<[op |-> "CPI", d |-> mi.n, k |-> 0], Br("EQ", rem)>>
      body == <<Phi(s, After(s)),
                Phi(n, <<[reg |-> mi.n, mbb |-> b], [reg |-> n2, mbb |-> loop]>>)>>
                \o LoopBody(s, s2, n, n2, mi.how, loop)
      rest == <<Phi(mi.d, After(s))>> \o SubSeq(mbbs[b], mbbi + 1, Len(mbbs[b]))
  IN  /\ mbbs' = TransferAndUpdatePHIs(b, rem, succs[b], [mbbs EXCEPT ![b] = head])
                   \o <<body, rest>>
      /\ succs' = [succs EXCEPT ![b] = {loop, rem}] \o <<{rem, loop}, succs[b]>>
      /\ layout' = BehindFirst(loop, rem)
      /\ nregs' = nregs + 4
      /\ I' = rem

\* Mutant: MBB is left to fall through to the false block.
DiamondFallsThrough(cond, trueMBB, falseMBB) == <<Br(cond, trueMBB)>>

DiamondEnds(cond, trueMBB, falseMBB) == <<Br(cond, trueMBB), Rjmp(falseMBB)>>

\* EmitInstrWithCustomInserter on a Select: the diamond.  The rest of the
\* block goes to trueMBB, where a PHI tells where control came from.
InsertSelect(b, mi) ==
  LET trueMBB == Len(mbbs) + 1
      falseMBB == Len(mbbs) + 2
      head == SubSeq(mbbs[b], 1, mbbi - 1) \o DiamondEnds(mi.cond, trueMBB, falseMBB)
      rest == <<Phi(mi.d, <<[reg |-> mi.t, mbb |-> b], [reg |-> mi.f, mbb |-> falseMBB]>>)>>
                \o SubSeq(mbbs[b], mbbi + 1, Len(mbbs[b]))
  IN  /\ mbbs' = TransferAndUpdatePHIs(b, trueMBB, succs[b], [mbbs EXCEPT ![b] = head])
                   \o <<rest, <<Rjmp(trueMBB)>>>>
      /\ succs' = [succs EXCEPT ![b] = {trueMBB, falseMBB}] \o <<succs[b], {trueMBB}>>
      /\ layout' = SubSeq(layout, 1, Place(b)) \o <<trueMBB, falseMBB>>
                     \o SubSeq(layout, Place(b) + 1, Len(layout))
      /\ nregs' = nregs
      /\ I' = trueMBB

AtInstr == phase = "expand" /\ mbbi <= Len(mbbs[I])

\* The pass goes on at the head of the block the inserter returns.
Expand ==
  /\ AtInstr
  /\ LET mi == mbbs[I][mbbi]
     IN  \/ mi.op = "ShiftLoop" /\ InsertShift(I, mi)
         \/ mi.op = "Select" /\ InsertSelect(I, mi)
  /\ mbbi' = 1
  /\ UNCHANGED <<f, phase, bb, pc, from, regs, P>>

Pass ==
  /\ AtInstr
  /\ mbbs[I][mbbi].op \notin Pseudos
  /\ mbbi' = mbbi + 1
  /\ UNCHANGED <<f, mbbs, succs, layout, nregs, I, phase, bb, pc, from, regs, P>>

NextBlock ==
  /\ phase = "expand" /\ mbbi > Len(mbbs[I])
  /\ mbbi' = 1
  /\ IF Place(I) < Len(layout)
       THEN I' = layout[Place(I) + 1] /\ UNCHANGED <<phase, regs>>
       ELSE /\ phase' = "run"
            /\ regs' = [r \in 1..nregs |->
                          CASE r = W -> f.w [] r = Amount -> f.amount [] r = LReg -> f.l
                            [] r = RReg -> f.r [] r = Other -> f.other [] r = One -> 1
                            [] OTHER -> 0]
            /\ UNCHANGED I
  /\ UNCHANGED <<f, mbbs, succs, layout, nregs, bb, pc, from, P>>
----------------------------------------------------------------------------
(***************************************************************************)
(* The processor.                                                          *)
(***************************************************************************)
Bit(b) == IF b THEN 1 ELSE 0

\* The status after a - b - borrow; a CMPC keeps Z of the parts below.
Subtracted(a, b, borrow, zBelow, M) ==
  LET r == SubWith(a, b, borrow, M)
  IN  [c |-> r.carry, z |-> Bit(r.val = 0 /\ zBelow = 1),
       s |-> Bit(SignedLess(a, b, borrow, M)), n |-> TopBit(r.val, M)]

Tested(a, M) == [P EXCEPT !.z = Bit(a = 0), !.s = TopBit(a, M), !.n = TopBit(a, M)]

\* The condition a branch is taken on.
Taken(cond, p) ==
  CASE cond = "EQ" -> p.z = 1 [] cond = "NE" -> p.z = 0
    [] cond = "LO" -> p.c = 1 [] cond = "SH" -> p.c = 0
    [] cond = "LT" -> p.s = 1 [] cond = "GE" -> p.s = 0
    [] cond = "MI" -> p.n = 1 [] OTHER -> p.n = 0

ValueOf(o, instr) ==
  ((IF o.reg = 0 THEN o.k ELSE regs[o.reg]) \div instr.below) % instr.size

CompareParts(instr) ==
  LET a == ValueOf(instr.a, instr)
      b == ValueOf(instr.b, instr)
  IN  CASE instr.op = "TST" -> Tested(a, instr.size)
        [] instr.op = "CMP" -> Subtracted(a, b, 0, 1, instr.size)
        [] OTHER -> Subtracted(a, b, P.c, P.z, instr.size)

ByOne(how, a, M) ==
  CASE how = "SHL" -> ShiftLeft(a, 0, M)
    [] how = "SRL" -> ShiftRight(a, 0, M)
    [] OTHER -> ShiftRight(a, TopBit(a, M), M)

Running == phase = "run" /\ pc <= Len(mbbs[bb])
This == mbbs[bb][pc]
Code == <<f, mbbs, succs, layout, nregs, I, mbbi>>

\* A PHI that does not know the block control came from has no value.
RunPhi ==
  /\ Running /\ This.op = "PHI"
  /\ \/ \E i \in DOMAIN This.ins :
          /\ This.ins[i].mbb = from
          /\ regs' = [regs EXCEPT ![This.d] = regs[This.ins[i].reg]]
          /\ pc' = pc + 1 /\ phase' = phase
     \/ /\ \A i \in DOMAIN This.ins : This.ins[i].mbb # from
        /\ phase' = "stuck"
        /\ UNCHANGED <<pc, regs>>
  /\ UNCHANGED <<Code, bb, from, P>>

Compute ==
  /\ Running
  /\ \/ /\ This.op \in {"CMP", "CMPC", "TST"}
        /\ P' = CompareParts(This) /\ UNCHANGED regs
     \/ /\ This.op = "CPI"
        /\ P' = Subtracted(regs[This.d], This.k, 0, 1, ByteSize) /\ UNCHANGED regs
     \/ /\ This.op = "SUBI"
        /\ P' = Subtracted(regs[This.s], This.k, 0, 1, ByteSize)
        /\ regs' = [regs EXCEPT ![This.d] = SubWith(regs[This.s], This.k, 0, ByteSize).val]
     \/ /\ This.op = "SHIFT"
        /\ LET r == ByOne(This.how, regs[This.s], f.size)
           IN  /\ regs' = [regs EXCEPT ![This.d] = r.val]
               /\ P' = [Tested(r.val, f.size) EXCEPT !.c = r.carry]
  /\ pc' = pc + 1
  /\ UNCHANGED <<Code, phase, bb, from>>

GoTo(b) == bb' = b /\ pc' = 1 /\ from' = bb

Branch ==
  /\ Running
  /\ \/ This.op = "RJMPk" /\ GoTo(This.to)
     \/ This.op = "BR" /\ Taken(This.cond, P) /\ GoTo(This.to)
     \/ This.op = "BR" /\ ~Taken(This.cond, P) /\ pc' = pc + 1 /\ UNCHANGED <<bb, from>>
  /\ UNCHANGED <<Code, phase, regs, P>>

FallThrough ==
  /\ phase = "run" /\ pc > Len(mbbs[bb])
  /\ GoTo(layout[Place(bb) + 1])
  /\ UNCHANGED <<Code, phase, regs, P>>

Ret ==
  /\ Running /\ This.op = "RET"
  /\ phase' = "done"
  /\ UNCHANGED <<Code, bb, pc, from, regs, P>>

Stopped == phase \in {"done", "stuck"} /\ UNCHANGED vars

Next ==
  \/ Expand \/ Pass \/ NextBlock
  \/ RunPhi \/ Compute \/ Branch \/ FallThrough \/ Ret
  \/ Stopped

\* The compiler and the processor do not stop of themselves.
Spec == Init /\ [][Next]_vars /\ WF_vars(Next)
----------------------------------------------------------------------------
Opcodes == {"PHI", "CMP", "CMPC", "TST", "CPI", "SUBI", "SHIFT", "BR", "RJMPk", "RET"} \cup Pseudos

\* The virtual registers an instruction names.
RegsOf(instr) ==
  CASE instr.op = "PHI" -> {instr.d} \cup {instr.ins[i].reg : i \in DOMAIN instr.ins}
    [] instr.op \in {"SHIFT", "SUBI"} -> {instr.d, instr.s}
    [] instr.op = "ShiftLoop" -> {instr.d, instr.s, instr.n}
    [] instr.op = "Select" -> {instr.d, instr.t, instr.f}
    [] instr.op = "CPI" -> {instr.d}
    [] instr.op \in {"CMP", "CMPC", "TST"} -> {instr.a.reg, instr.b.reg} \ {0}
    [] OTHER -> {}

\* The types: blocks are numbered, every block stands in the layout once,
\* instructions name registers that exist, and the status is made of bits.
LoweringTypeOK ==
  LET blocks == 1..Len(mbbs)
  IN  /\ succs \in Seq(SUBSET blocks) /\ Len(succs) = Len(mbbs)
      /\ layout \in Seq(blocks) /\ Len(layout) = Len(mbbs) /\ ToSet(layout) = blocks
      /\ \A b \in blocks : \A i \in DOMAIN mbbs[b] :
            /\ mbbs[b][i].op \in Opcodes
            /\ RegsOf(mbbs[b][i]) \subseteq 1..nregs
            /\ mbbs[b][i].op \in {"BR", "RJMPk"} => mbbs[b][i].to \in blocks
      /\ I \in blocks /\ mbbi \in Nat
      /\ phase \in {"expand", "run", "done", "stuck"}
      /\ bb \in blocks /\ from \in blocks /\ pc \in Nat
      /\ DOMAIN regs = IF phase = "expand" THEN {} ELSE 1..nregs
      /\ \A r \in DOMAIN regs : regs[r] \in Nat
      /\ P \in [c : {0, 1}, z : {0, 1}, s : {0, 1}, n : {0, 1}]

\* The functions whose blocks stay in an order their missing jumps allow for:
\* at most one shift by a variable amount, in front of every select, in the
\* first block; and no select in a block that reaches the next without a jump.
Safe ==
  LET kind(i) == f.ops[i].kind
  IN  /\ \A i \in DOMAIN f.ops : kind(i) = "loop" =>
            f.place = Entry /\ \A j \in 1..(i - 1) : kind(j) = "const"
      /\ (\E i \in DOMAIN f.ops : kind(i) \in {"select", "setcc"}) =>
            ~f.optimized \/ (f.place = Entry /\ f.branches)

\* Where control can leave a block for.
Exits(b) ==
  {mbbs[b][i].to : i \in {i \in DOMAIN mbbs[b] : mbbs[b][i].op \in {"BR", "RJMPk"}}}
    \cup (IF mbbs[b] # << >> /\ Last(mbbs[b]).op \in {"RJMPk", "RET"}
            THEN {} ELSE {layout[Place(b) + 1]})

\* When the pass is done, control leaves every block for exactly the
\* successors it has in the machine CFG, if the function is safe - and in no
\* other function: there the blocks the inserters put in the layout cut a
\* block from the one it falls through to.
EdgesAreTheCFG ==
  phase = "run" => (Safe <=> \A b \in DOMAIN mbbs : Exits(b) = succs[b])

\* At every step of the pass each PHI has a value for exactly the
\* predecessors of its block: the rest of a block takes its successors and
\* their PHIs along.
PhisMatchPredecessors ==
  \A b \in DOMAIN mbbs : \A i \in DOMAIN mbbs[b] : mbbs[b][i].op = "PHI" =>
     {mbbs[b][i].ins[k].mbb : k \in DOMAIN mbbs[b][i].ins} = {p \in DOMAIN succs : b \in succs[p]}

\* In a safe function every PHI control comes to has a value for the block it
\* came from: between the blocks of the source there are now heads, rests,
\* loops and false blocks.
NeverStuck == Safe => phase # "stuck"

\* A safe function returns what its comparisons, selects and shifts say:
\* swapped operands, constants off by one, tests of one byte, borrows from
\* word to word, diamonds and loops together compute the source operations.
ReturnsSourceValue == Safe /\ phase = "done" => regs[Res] = SourceValue

\* A safe function returns: no block the inserters made is a trap.
Returns == <>(Safe => phase = "done")
============================================================================
