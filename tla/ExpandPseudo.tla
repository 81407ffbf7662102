---------------------------- MODULE ExpandPseudo ----------------------------
(***************************************************************************)
(* SNESExpandPseudo: a block of 16-bit pseudo instructions is expanded,    *)
(* round by round, to 8-bit instructions; the block then runs on the       *)
(* machine of SNESMachine, with interrupts between its instructions.       *)
(*                                                                         *)
(* A pseudo is written like an instruction, [op, d, s, k].  WordStep says  *)
(* what it stands for: its selection pattern in SNESInstrInfo.td, a whole  *)
(* 16-bit operation.  The properties compare the two.                      *)
(***************************************************************************)
EXTENDS SNESMachine, FiniteSets

CONSTANTS
  Programs,      \* the blocks handed to the pass: sequences of pseudos
  Starts(_),     \* the machines a program may start on
  DataCells,     \* the addresses of the program's own data
  Shared,        \* the address of a word an interrupt handler also uses
  HandlerWords,  \* the words the handler writes there
  DeviceWords    \* the words the device takes by itself

ASSUME ExpandAssumption ==
  /\ DataCells \cup {Shared, Shared + 1} \subseteq Cells
  /\ Shared \notin DataCells /\ Shared + 1 \notin DataCells
  /\ HandlerWords \subseteq Word /\ DeviceWords \subseteq Word
  /\ \A p \in Programs : p \in Seq({p[k] : k \in DOMAIN p}) /\ Starts(p) \subseteq Machines

MI(op, d, s, k) == [op |-> op, d |-> d, s |-> s, k |-> k]

\* The byte instructions for the low and the high half of a register pair.
ByteOps ==
  [ADDWRdRr |-> <<"ADDRdRr", "ADCRdRr">>, ADCWRdRr |-> <<"ADCRdRr", "ADCRdRr">>,
   SUBWRdRr |-> <<"SUBRdRr", "SBCRdRr">>, SBCWRdRr |-> <<"SBCRdRr", "SBCRdRr">>,
   SUBIWRdK |-> <<"SUBIRdK", "SBCIRdK">>, SBCIWRdK |-> <<"SBCIRdK", "SBCIRdK">>,
   ANDWRdRr |-> <<"ANDRdRr", "ANDRdRr">>, ORWRdRr |-> <<"ORRdRr", "ORRdRr">>,
   EORWRdRr |-> <<"EORRdRr", "EORRdRr">>, COMWRd |-> <<"COMRd", "COMRd">>,
   CPWRdRr |-> <<"CPRdRr", "CPCRdRr">>, CPCWRdRr |-> <<"CPCRdRr", "CPCRdRr">>,
   LDIWRdK |-> <<"LDIRdK", "LDIRdK">>, ANDIWRdK |-> <<"ANDimm16", "ANDimm16">>,
   ORIWRdK |-> <<"ORAimm16", "ORAimm16">>, LSLWRd |-> <<"LSLRd", "ROLRd">>,
   LSRWRd |-> <<"RORRd", "LSRRd">>, ASRWRd |-> <<"RORRd", "ASRRd">>]

Half(p, op, half, k) ==
  MI(op, half[p.d], IF p.s \in WordRegs THEN half[p.s] ELSE p.s, k)
LoHalf(p) == Half(p, ByteOps[p.op][1], LoReg, Lo(p.k))
HiHalf(p) == Half(p, ByteOps[p.op][2], HiReg, Hi(p.k))

\* Shifts to the right start with the high byte.
HighFirst == {"LSRWRd", "ASRWRd"}

\* ANDI 0xff and ORI 0x0 change nothing.
isLogicImmOpRedundant(instr) ==
  \/ instr.op = "ANDimm16" /\ instr.k = ByteSize - 1
  \/ instr.op = "ORAimm16" /\ instr.k = 0

Needed(instr) == IF isLogicImmOpRedundant(instr) THEN << >> ELSE <<instr>>

\* Mutant: the low byte always comes first.
ByteWiseLowFirst(p) == Needed(LoHalf(p)) \o Needed(HiHalf(p))

\* expandArith, expandLogic, expandLogicImm and the expansions like them.
ByteWise(p) ==
  IF p.op \in HighFirst THEN Needed(HiHalf(p)) \o Needed(LoHalf(p))
  ELSE Needed(LoHalf(p)) \o Needed(HiHalf(p))
----------------------------------------------------------------------------
\* The scavenger is only called for an atomic load into its own pointer,
\* where A holds the status register.
scavengeMainRegs(p) == CHOOSE r \in WordRegs : r \notin {"A", p.s}

\* LDW and LDDW: through a temporary register when the pointer is the
\* destination.
LoadDisplaced(p, oplo) ==
  LET tmp == scavengeMainRegs(p)
      lo == MI(oplo, IF p.d = p.s THEN tmp ELSE LoReg[p.d], p.s, p.k)
      hi == MI("LDDRdPtrQ", IF p.d = p.s THEN tmp ELSE HiReg[p.d], p.s, p.k + 1)
  IN  IF p.d # p.s
        THEN <<lo, hi>>
        ELSE <<lo, MI("PHAstk", NoReg, tmp, 0), hi,
               MI("MOVRdRr", HiReg[p.d], tmp, 0), MI("POPRd", LoReg[p.d], NoReg, 0)>>

LoadMoving(p, op) ==
  LET lo == MI(op, LoReg[p.d], p.s, 0)
      hi == MI(op, HiReg[p.d], p.s, 0)
  IN  IF op = "LDRdPtrPd" THEN <<hi, lo>> ELSE <<lo, hi>>

StoreMoving(p, op) ==
  LET lo == MI(op, p.d, LoReg[p.s], 0)
      hi == MI(op, p.d, HiReg[p.s], 0)
  IN  IF op = "STPtrPdRr" THEN <<hi, lo>> ELSE <<lo, hi>>

StoreDisplaced(p, oplo) ==
  <<MI(oplo, p.d, LoReg[p.s], p.k), MI("STDPtrQRr", p.d, HiReg[p.s], p.k + 1)>>

LoadDirect(p, op) == <<MI(op, LoReg[p.d], NoReg, p.k), MI(op, HiReg[p.d], NoReg, p.k + 1)>>

\* Mutant: the low byte is written first.
StoreLowFirst(p, op) == <<MI(op, NoReg, LoReg[p.s], p.k), MI(op, NoReg, HiReg[p.s], p.k + 1)>>

\* STSW and OUTW write the high byte first.
StoreDirect(p, op) == <<MI(op, NoReg, HiReg[p.s], p.k + 1), MI(op, NoReg, LoReg[p.s], p.k)>>

\* Mutant: interrupts stay enabled.
AtomicNoDisable(body) ==
  <<MI("INRdA", "A", NoReg, P_ADDR)>> \o body \o <<MI("OUTARr", NoReg, "A", P_ADDR)>>

\* expandAtomic, SCRATCH_REGISTER being A.
Atomic(body) ==
  <<MI("INRdA", "A", NoReg, P_ADDR), MI("BCLRs", NoReg, NoReg, 7)>>
    \o body \o <<MI("OUTARr", NoReg, "A", P_ADDR)>>

\* The 8-bit or 16-bit operation of each atomic read-modify-write.
AtomicOps ==
  [AtomicLoadAdd8 |-> "ADDRdRr", AtomicLoadSub8 |-> "SUBRdRr", AtomicLoadAnd8 |-> "ANDRdRr",
   AtomicLoadOr8 |-> "ORRdRr", AtomicLoadXor8 |-> "EORRdRr",
   AtomicLoadAdd16 |-> "ADDWRdRr", AtomicLoadSub16 |-> "SUBWRdRr",
   AtomicLoadAnd16 |-> "ANDWRdRr", AtomicLoadOr16 |-> "ORWRdRr", AtomicLoadXor16 |-> "EORWRdRr"]

Atomic8 == {"AtomicLoadAdd8", "AtomicLoadSub8", "AtomicLoadAnd8", "AtomicLoadOr8", "AtomicLoadXor8"}

\* expandAtomicArithmeticOp: Op1 is the destination, Op2 the pointer.
AtomicArithmetic(p) ==
  Atomic(<<MI(IF p.op \in Atomic8 THEN "LDRdPtr" ELSE "LDWRdPtr", p.d, p.s, 0),
           MI(AtomicOps[p.op], p.d, p.s, 0),
           MI(IF p.op \in Atomic8 THEN "STPtrRr" ELSE "STWPtrRr", p.s, p.d, 0)>>)

\* Mutant: interrupts are enabled again one write too early.
SPWriteEnablesEarly(p) ==
  <<MI("INRdA", "A", NoReg, P_ADDR), MI("BCLRs", NoReg, NoReg, 7), MI("OUTARr", NoReg, "A", P_ADDR),
    MI("OUTARr", NoReg, HiReg[p.s], SPH), MI("OUTARr", NoReg, LoReg[p.s], SPL)>>

\* The low byte is written in the shadow of the restored status register.
SPWrite(p) ==
  <<MI("INRdA", "A", NoReg, P_ADDR), MI("BCLRs", NoReg, NoReg, 7), MI("OUTARr", NoReg, HiReg[p.s], SPH),
    MI("OUTARr", NoReg, "A", P_ADDR), MI("OUTARr", NoReg, LoReg[p.s], SPL)>>

WordAccesses ==
  {"LDWRdPtr", "LDDWRdPtrQ", "LDWRdPtrPi", "LDWRdPtrPd", "LDSWRdK", "INWRdA", "STSWKRr",
   "OUTWARr", "STWPtrRr", "STDWPtrQRr", "STWPtrPiRr", "STWPtrPdRr"}

Access(p) ==
  CASE p.op = "LDWRdPtr" -> LoadDisplaced(p, "LDRdPtr")
    [] p.op = "LDDWRdPtrQ" -> LoadDisplaced(p, "LDDRdPtrQ")
    [] p.op = "LDWRdPtrPi" -> LoadMoving(p, "LDRdPtrPi")
    [] p.op = "LDWRdPtrPd" -> LoadMoving(p, "LDRdPtrPd")
    [] p.op = "LDSWRdK" -> LoadDirect(p, "LDSRdK")
    [] p.op = "INWRdA" -> LoadDirect(p, "INRdA")
    [] p.op = "STSWKRr" -> StoreDirect(p, "STSKRr")
    [] p.op = "OUTWARr" -> StoreDirect(p, "OUTARr")
    [] p.op = "STWPtrRr" -> StoreDisplaced(p, "STPtrRr")
    [] p.op = "STDWPtrQRr" -> StoreDisplaced(p, "STDPtrQRr")
    [] p.op = "STWPtrPiRr" -> StoreMoving(p, "STPtrPiRr")
    [] OTHER -> StoreMoving(p, "STPtrPdRr")

\* The load or store that each atomic one protects.
AtomicMoves ==
  [AtomicLoad8 |-> "LDRdPtr", AtomicLoad16 |-> "LDWRdPtr",
   AtomicStore8 |-> "STPtrRr", AtomicStore16 |-> "STWPtrRr"]

\* The instructions that replace p; p itself if it is no pseudo.
Expansion(p) ==
  CASE p.op \in DOMAIN ByteOps -> ByteWise(p)
    [] p.op \in WordAccesses -> Access(p)
    [] p.op \in DOMAIN AtomicMoves -> Atomic(<<MI(AtomicMoves[p.op], p.d, p.s, 0)>>)
    [] p.op \in DOMAIN AtomicOps -> AtomicArithmetic(p)
    [] p.op = "AtomicFence" -> << >>
    [] p.op = "PUSHWRr" -> <<MI("PHAstk", NoReg, p.s, 0)>>
    [] p.op = "POPWRd" -> <<MI("POPRd", HiReg[p.d], NoReg, 0), MI("POPRd", LoReg[p.d], NoReg, 0)>>
    [] p.op = "SPWRITE" -> SPWrite(p)
    [] OTHER -> <<p>>

IsPseudo(p) == Expansion(p) # <<p>>
----------------------------------------------------------------------------
(***************************************************************************)
(* What a pseudo stands for: one 16-bit operation on the machine.          *)
(***************************************************************************)
WordKind ==
  [ADDWRdRr |-> "add", ADCWRdRr |-> "adc", SUBWRdRr |-> "sub", SBCWRdRr |-> "sbc",
   SUBIWRdK |-> "sub", SBCIWRdK |-> "sbc", ANDWRdRr |-> "and", ORWRdRr |-> "or",
   EORWRdRr |-> "xor", COMWRd |-> "com", CPWRdRr |-> "sub", CPCWRdRr |-> "sbc",
   ANDIWRdK |-> "and", ORIWRdK |-> "or", LSLWRd |-> "lsl", LSRWRd |-> "lsr",
   ASRWRd |-> "asr"]

WordCompares == {"CPWRdRr", "CPCWRdRr"}

WordAlu(p, m) ==
  LET a == WordOf(m, p.d)
      b == IF p.s \in WordRegs THEN WordOf(m, p.s) ELSE p.k
      after == [m EXCEPT !.P = Status(WordKind[p.op], a, b, @, WordSize)]
  IN  IF p.op \in WordCompares
        THEN after ELSE SetWord(after, p.d, Result(WordKind[p.op], a, b, m.P.c, WordSize).val)

\* Reading and writing 16 bits at once; the device has no temporary then.
WordAt(m, addr) == IF addr = Dev THEN m.dev ELSE Pair(m.mem[addr], m.mem[addr + 1])
PutWord(m, addr, w) ==
  IF addr = Dev THEN [m EXCEPT !.dev = w]
  ELSE [m EXCEPT !.mem[addr] = Lo(w), !.mem[addr + 1] = Hi(w)]

Moved(m, r, by) == SetWord(m, r, (WordOf(m, r) + by) % WordSize)

WordStep(m, p) ==
  CASE p.op \in DOMAIN WordKind -> WordAlu(p, m)
    [] p.op = "LDIWRdK" -> SetWord(m, p.d, p.k)
    [] p.op \in {"LDWRdPtr", "LDDWRdPtrQ", "AtomicLoad16"} ->
         SetWord(m, p.d, WordAt(m, WordOf(m, p.s) + p.k))
    [] p.op = "LDWRdPtrPi" -> Moved(SetWord(m, p.d, WordAt(m, WordOf(m, p.s))), p.s, 2)
    [] p.op = "LDWRdPtrPd" -> Moved(SetWord(m, p.d, WordAt(m, WordOf(m, p.s) - 2)), p.s, -2)
    [] p.op \in {"LDSWRdK", "INWRdA"} -> SetWord(m, p.d, WordAt(m, p.k))
    [] p.op \in {"STSWKRr", "OUTWARr"} -> PutWord(m, p.k, WordOf(m, p.s))
    [] p.op \in {"STWPtrRr", "STDWPtrQRr", "AtomicStore16"} ->
         PutWord(m, WordOf(m, p.d) + p.k, WordOf(m, p.s))
    [] p.op = "STWPtrPiRr" -> Moved(PutWord(m, WordOf(m, p.d), WordOf(m, p.s)), p.d, 2)
    [] p.op = "STWPtrPdRr" -> Moved(PutWord(m, WordOf(m, p.d) - 2, WordOf(m, p.s)), p.d, -2)
    [] p.op = "AtomicLoad8" -> SetByte(m, p.d, m.mem[WordOf(m, p.s)])
    [] p.op = "AtomicStore8" -> [m EXCEPT !.mem[WordOf(m, p.d)] = m.reg[LoReg[p.s]]]
    [] p.op = "SPWRITE" -> [m EXCEPT !.sp = WordOf(m, p.s)]
    [] p.op = "AtomicFence" -> m
----------------------------------------------------------------------------
VARIABLES
  program,     \* the block as handed to the pass
  code,        \* the block
  at,          \* the next instruction, of the pass and then of the machine
  round,       \* ExpandCount
  modified,    \* BlockModified
  phase,       \* "expand", then "run", then "done"; "assert" if the limit is hit
  m,           \* the machine
  start,       \* history: the machine before the program
  sharedWords, \* history: every word the shared location was given whole
  devWords     \* history: every word the device took by itself

pass == <<program, code, at, round, modified>>
machine == <<m, start, sharedWords, devWords>>
vars == <<pass, phase, machine>>

Init ==
  /\ program \in Programs
  /\ code = program
  /\ at = 1 /\ round = 0 /\ modified = FALSE
  /\ phase = "expand"
  /\ m = << >> /\ start = << >> /\ sharedWords = {} /\ devWords = {}

\* Mutant: the pseudo stays in the block.
ExpandKeepsPseudo ==
  /\ phase = "expand" /\ at <= Len(code)
  /\ code' = SubSeq(code, 1, at - 1) \o (IF IsPseudo(code[at]) THEN Expansion(code[at]) ELSE << >>)
               \o SubSeq(code, at, Len(code))
  /\ at' = at + Len(code') - Len(code) + 1
  /\ modified' = (modified \/ IsPseudo(code[at]))
  /\ UNCHANGED <<program, round, phase, machine>>

\* expandMI, and on to the instruction after it.
ExpandMI ==
  /\ phase = "expand" /\ at <= Len(code)
  /\ code' = SubSeq(code, 1, at - 1) \o Expansion(code[at]) \o SubSeq(code, at + 1, Len(code))
  /\ at' = at + Len(code') - Len(code) + 1
  /\ modified' = (modified \/ IsPseudo(code[at]))
  /\ UNCHANGED <<program, round, phase, machine>>

\* Continue expanding the block until all pseudos are expanded.
NextRound ==
  /\ phase = "expand" /\ at > Len(code) /\ modified
  /\ round' = round + 1
  /\ at' = 1 /\ modified' = FALSE
  /\ phase' = IF round' < 10 THEN phase ELSE "assert"
  /\ UNCHANGED <<program, code, machine>>

StartRun ==
  /\ phase = "expand" /\ at > Len(code) /\ ~modified
  /\ phase' = "run" /\ at' = 1
  /\ \E m0 \in Starts(program) :
       /\ m' = m0 /\ start' = m0
       /\ sharedWords' = {WordAt(m0, Shared)} /\ devWords' = {m0.dev}
  /\ UNCHANGED <<program, code, round, modified>>

Step ==
  /\ phase = "run" /\ at <= Len(code)
  /\ m' = Exec(code[at], m)
  /\ at' = at + 1
  /\ UNCHANGED <<program, code, round, modified, phase, start, sharedWords, devWords>>

Halt ==
  /\ phase = "run" /\ at > Len(code)
  /\ phase' = "done"
  /\ UNCHANGED <<pass, machine>>

Interruptible == phase = "run" /\ m.P.i = 1 /\ ~m.shadow

\* A handler pushes below the stack pointer, restores every register, and
\* writes the shared word.
Interrupt ==
  /\ Interruptible
  /\ \E w \in HandlerWords :
       /\ m' = PutWord(IF m.sp \in Cells THEN [m EXCEPT !.mem[m.sp] = 0] ELSE m, Shared, w)
       /\ sharedWords' = sharedWords \cup {w}
  /\ UNCHANGED <<pass, phase, start, devWords>>

DeviceTick ==
  /\ phase = "run"
  /\ \E w \in DeviceWords :
       /\ m' = [m EXCEPT !.dev = w]
       /\ devWords' = devWords \cup {w}
  /\ UNCHANGED <<pass, phase, start, sharedWords>>

Stopped == phase \in {"done", "assert"} /\ UNCHANGED vars

Run == ExpandMI \/ NextRound \/ StartRun \/ Step \/ Halt

Next == Run \/ Interrupt \/ DeviceTick \/ Stopped

Spec == Init /\ [][Next]_vars /\ WF_vars(Run)
----------------------------------------------------------------------------
(***************************************************************************)
(* What the theorems ask of the instructions of a block.                   *)
(***************************************************************************)
\* The instructions that move the pointer they load or store through.
MovesSource == {"LDWRdPtrPi", "LDWRdPtrPd", "LDRdPtrPi", "LDRdPtrPd"}
MovesDest == {"STWPtrPiRr", "STWPtrPdRr", "STPtrPiRr", "STPtrPdRr"}

\* The instructions whose destination, if any, is no register.
NoResult ==
  {"CPWRdRr", "CPCWRdRr", "STSWKRr", "OUTWARr", "STWPtrRr", "STDWPtrQRr", "AtomicStore8",
   "AtomicStore16", "AtomicFence", "PUSHWRr", "SPWRITE", "CPRdRr", "CPCRdRr", "STSKRr", "OUTARr",
   "STPtrRr", "STDPtrQRr", "PHAstk", "BCLRs"} \cup MovesDest

ByteInstrs ==
  DOMAIN ByteKind \cup DOMAIN AccumulatorKind \cup Loads \cup Stores \cup
  {"LDIRdK", "MOVRdRr", "LDSRdK", "STSKRr", "INRdA", "OUTARr", "BCLRs", "PHAstk", "POPRd"}

\* Operands that are registers where the instruction table says so; a load
\* into its own pointer needs a register scavenged, and is left out.
Fits(q) ==
  /\ IsPseudo(q) \/ q.op \in ByteInstrs
  /\ IsPseudo(q) /\ q.op \notin NoResult => q.d \in WordRegs
  /\ IsPseudo(q) /\ q.op \in NoResult => q.op = "AtomicFence" \/ q.s \in WordRegs
  /\ q.op \in MovesSource => q.s \in WordRegs
  /\ q.op \in MovesDest => q.d \in WordRegs
  /\ q.op \in {"LDWRdPtr", "LDDWRdPtrQ", "AtomicLoad16"} \cup (DOMAIN AtomicOps \ Atomic8) => q.d # q.s

\* expandAtomic and SPWRITE use A without declaring it.
UsesScratch(p) == p.op \in DOMAIN AtomicOps \cup DOMAIN AtomicMoves \cup {"SPWRITE"}

\* The instructions that act on A whatever register they name.
OnAccumulator == {"ANDIWRdK", "ORIWRdK"} \cup DOMAIN AccumulatorKind

PartsOf(r) == {r, LoReg[r], HiReg[r]}

\* q leaves the register pair r alone.
Keeps(q, r) ==
  /\ q.op \notin NoResult => q.d \notin PartsOf(r)
  /\ q.op \in MovesSource => q.s # r
  /\ q.op \in MovesDest => q.d # r
  /\ UsesScratch(q) \/ q.op \in OnAccumulator => r # "A"

\* The register pairs no instruction of the block changes.
SteadyIn(block) == {r \in WordRegs : \A k \in 1..Len(block) : Keeps(block[k], r)}
Steady == SteadyIn(program)

Stacked == {"PUSHWRr", "POPWRd", "PHAstk", "POPRd"}
StackPorts == {SPL, SPH}

\* The stack pointer is only written by SPWRITE, from words the block keeps.
WritesStackWhole(block) ==
  \A k \in 1..Len(block) :
    LET q == block[k] IN
    /\ q.op \notin Stacked
    /\ q.op \in {"OUTARr", "OUTWARr"} => SixBits(q.k) \notin StackPorts
    /\ q.op = "OUTWARr" => SixBits(q.k + 1) \notin StackPorts
    /\ q.op = "SPWRITE" => q.s \in SteadyIn(block)

DevicePorts == {Dev, Dev + 1}
Port(q, k) == IF q.op \in {"OUTARr", "OUTWARr"} THEN SixBits(k) ELSE k
HitsDevice(q) == Port(q, q.k) = Dev /\ Port(q, q.k + 1) = Dev + 1
MissesDevice(q) == Port(q, q.k) \notin DevicePorts /\ Port(q, q.k + 1) \notin DevicePorts

\* The device is only written by STSW and OUTW, from words the block keeps.
WritesDeviceWhole(block) ==
  /\ DevicePorts \cap {SPL, SPH, P_ADDR} = {}
  /\ \A k \in 1..Len(block) :
       LET q == block[k] IN
       /\ q.op \notin Stacked
       /\ q.op \in {"STSKRr", "OUTARr"} => Port(q, q.k) \notin DevicePorts
       /\ q.op \in {"STSWKRr", "OUTWARr"} =>
            MissesDevice(q) \/ (HitsDevice(q) /\ q.s \in SteadyIn(block))

SharedCells == {Shared, Shared + 1}
SharedPointers(block) ==
  {block[k].d : k \in {j \in 1..Len(block) : block[j].op = "AtomicStore16"}}

\* The shared word is only written by atomic stores, through pointers and
\* from registers the block keeps until then; no other store of the block
\* uses these pointers.
WritesSharedWhole(block) ==
  /\ SharedCells \cap {SPL, SPH, P_ADDR} = {}
  /\ \A k \in 1..Len(block) :
       LET q == block[k] IN
       /\ q.op \notin Stacked
       /\ q.op \in {"STSKRr", "OUTARr", "STSWKRr", "OUTWARr"} => Port(q, q.k) \notin SharedCells
       /\ q.op \in {"STSWKRr", "OUTWARr"} => Port(q, q.k + 1) \notin SharedCells
       /\ q.op \in Stores \cup {"STWPtrRr", "STDWPtrQRr", "STWPtrPiRr", "STWPtrPdRr", "AtomicStore8"} =>
            q.d \notin SharedPointers(block)
       /\ q.op \in DOMAIN AtomicOps => q.s \notin SharedPointers(block)
       /\ q.op = "AtomicStore16" =>
            q.d \in WordRegs /\ \A j \in 1..k : Keeps(block[j], q.d) /\ Keeps(block[j], q.s)

\* The pointers the block stores through point to memory in use.
StoresInUse ==
  phase = "run" /\ at <= Len(code) /\ code[at].op \in Stores =>
    Address(code[at], WordOf(m, code[at].d)) \in Cells

\* What is stored in the shared word is stored by an atomic store to it.
StoresApart ==
  /\ phase = "run" /\ at <= Len(code) /\ code[at].op \in Stores
  /\ Address(code[at], WordOf(m, code[at].d)) \in SharedCells
  => code[at].d \in SharedPointers(program) /\ WordOf(start, code[at].d) = Shared
----------------------------------------------------------------------------
\* Also: the stores stay where the theorems ask them to.
TypeOK ==
  /\ StoresInUse /\ StoresApart
  /\ program \in Programs
  /\ at \in 1..(Len(code) + 1) /\ round \in 0..10 /\ modified \in BOOLEAN
  /\ phase \in {"expand", "run", "done", "assert"}
  /\ phase \in {"run", "done"} => m \in Machines /\ start \in Machines
  /\ sharedWords \subseteq Word /\ devWords \subseteq Word

\* The registers a program says nothing about.
Kept == {r \in WordRegs : r = "A" => \A k \in 1..Len(program) : ~UsesScratch(program[k])}

\* The flags the last pseudo leaves for the instructions after it.
LiveFlags ==
  LET kinds == {"add", "adc", "sub", "sbc"}
      last == program[Len(program)].op
  IN  IF last \in WordCompares THEN {"c", "z", "s", "i"}
      ELSE IF last \in DOMAIN WordKind /\ WordKind[last] \in kinds THEN {"c", "i"}
      ELSE {"i"}

Observed(machineState) ==
  [reg |-> [r \in Kept |-> WordOf(machineState, r)],
   P   |-> [f \in LiveFlags |-> machineState.P[f]],
   sp  |-> machineState.sp,
   mem |-> [a \in DataCells |-> machineState.mem[a]],
   dev |-> machineState.dev, shared |-> WordAt(machineState, Shared)]

\* Whatever whole words the handler and the device put in place, or neither.
Environment(machines) ==
  UNION {{PutWord([x EXCEPT !.dev = d], Shared, w) :
            d \in {x.dev} \cup (devWords \cap DeviceWords),
            w \in {WordAt(x, Shared)} \cup (sharedWords \cap HandlerWords)} : x \in machines}

\* The machines the pseudos may end on, run one after the other.
WordRuns ==
  LET after[k \in 0..Len(program)] ==
        IF k = 0 THEN {start}
        ELSE {WordStep(x, program[k]) : x \in Environment(after[k - 1])}
  IN  after[Len(program)]

(***************************************************************************)
(* The expanded block, interrupted anywhere, computes what its pseudos     *)
(* stand for: the 16-bit results, the flags later instructions use, the    *)
(* stack pointer and memory, with every other register kept; a word read   *)
(* from the device or atomically from shared memory is read whole, and one *)
(* written there stays until the device or a handler replaces it.  It does *)
(* not hold for most immediates of ANDIW and ORIW: see LogicImmediates.    *)
(***************************************************************************)
RunsAsWritten ==
  phase = "done" => \E x \in Environment(WordRuns) : Observed(m) = Observed(x)

(***************************************************************************)
(* A handler never meets half of an atomic store: when interrupts can be   *)
(* taken, the shared word is one that was written there whole.             *)
(***************************************************************************)
Stored(ops) ==
  {WordOf(start, program[k].s) : k \in {j \in 1..Len(program) : program[j].op \in ops}}

SharedWordWhole ==
  Interruptible => WordAt(m, Shared) \in sharedWords \cup Stored({"AtomicStore16"})

(***************************************************************************)
(* The device never takes half of a word: 16-bit writes put the high byte  *)
(* in its temporary register first.                                        *)
(***************************************************************************)
DeviceWordWhole ==
  phase \in {"run", "done"} => m.dev \in devWords \cup Stored({"STSWKRr", "OUTWARr"})

(***************************************************************************)
(* An interrupt never finds half of a new stack pointer in SP.             *)
(***************************************************************************)
StackPointerWhole ==
  Interruptible => m.sp \in {start.sp} \cup Stored({"SPWRITE"})

(***************************************************************************)
(* "pseudo expand limit reached" is never asserted, and the block ends up  *)
(* with no pseudo in it and runs to its end.                               *)
(***************************************************************************)
Finishes == <>(phase = "done")

(***************************************************************************)
(* SNESExpandPseudoInsts.cpp: "Restore the status reg."  Once an atomic    *)
(* operation is done, interrupts are enabled if they were before it.       *)
(***************************************************************************)
StatusRestored == phase = "done" => m.P = start.P

(***************************************************************************)
(* docs/LangRef.rst on atomicrmw add: "*ptr = *ptr + val", and "The        *)
(* original value at the location is returned".  Stated of a program of    *)
(* one AtomicLoadAdd16 whose third operand v holds val.                    *)
(***************************************************************************)
ReadsModifiesWrites ==
  phase = "done" =>
    LET p == program[1]
        old == WordAt(start, WordOf(start, p.s))
    IN  /\ WordAt(m, WordOf(start, p.s)) = (old + WordOf(start, p.v)) % WordSize
        /\ WordOf(m, p.d) = old

(***************************************************************************)
(* The expansions of LDDW and STDW assert Imm <= 63, "Offset is out of     *)
(* range": any offset they accept is in range.                             *)
(***************************************************************************)
AcceptedOffsetsAreInRange == RunsAsWritten

(***************************************************************************)
(* isLogicImmOpRedundant: "ANDI Rd, 0xff is redundant."  expandLogicImm    *)
(* drops it, and its blocks still compute the 16-bit operation.  Stated of *)
(* programs of one ANDIW or ORIW.  The code does not keep this: the        *)
(* instructions it builds, ANDimm16 and ORAimm16, are 16 bits wide, so the *)
(* part for one half of the register also changes the other half.          *)
(***************************************************************************)
LogicImmediates == RunsAsWritten
============================================================================
