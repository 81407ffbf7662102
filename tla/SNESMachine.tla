---------------------------- MODULE SNESMachine ----------------------------
(***************************************************************************)
(* The machine the expanded code runs on, as the instruction table         *)
(* (SNESInstrInfo.td) and the comments of the expansions describe it: the  *)
(* registers A, X, Y as byte pairs, the status register, the stack         *)
(* pointer, memory, and one 16-bit device register read and written        *)
(* through "a special temporary register".                                 *)
(*                                                                         *)
(* An instruction is a record [op, d, s, k]: destination, source,          *)
(* immediate.  An 8-bit instruction that names a 16-bit register acts on   *)
(* its low byte: A and AL, X and XL, Y and YL have one encoding.           *)
(***************************************************************************)
EXTENDS WordArith, Sequences

CONSTANTS
  Cells,    \* the memory addresses in use
  Dev       \* the address, and the port, of the device's low byte

ASSUME MachineAssumption ==
  Cells \subseteq Word /\ Dev \in Nat /\ Dev \notin Cells /\ Dev + 1 \notin Cells

WordRegs == {"A", "X", "Y"}
LoReg == [r \in WordRegs |-> CASE r = "A" -> "AL" [] r = "X" -> "XL" [] OTHER -> "YL"]
HiReg == [r \in WordRegs |-> CASE r = "A" -> "AH" [] r = "X" -> "XH" [] OTHER -> "YH"]
ByteRegs == {"AL", "AH", "XL", "XH", "YL", "YH"}
NoReg == "NoRegister"

Encoded(r) == IF r \in WordRegs THEN LoReg[r] ELSE r

Bit(b) == IF b THEN 1 ELSE 0
Flags == [c : {0, 1}, z : {0, 1}, s : {0, 1}, i : {0, 1}]

\* Carry is bit 0 of P, Z bit 1, S bit 4, and 7 the bit BCLRs clears "to
\* disable exceptions".
StatusByte(P) == P.c + 2 * P.z + 16 * P.s + 128 * P.i
StatusOf(b) ==
  [c |-> b % 2, z |-> (b \div 2) % 2, s |-> (b \div 16) % 2, i |-> (b \div 128) % 2]

\* shadow: interrupts are held off for the instruction after the one that
\* enables them.
Machines ==
  [reg : [ByteRegs -> Byte], P : Flags, sp : Word, mem : [Cells -> Byte],
   dev : Word, temp : Byte, shadow : BOOLEAN]

WordOf(m, r) == Pair(m.reg[LoReg[r]], m.reg[HiReg[r]])
SetByte(m, r, b) == [m EXCEPT !.reg[Encoded(r)] = b]
SetWord(m, r, w) == [m EXCEPT !.reg[LoReg[r]] = Lo(w), !.reg[HiReg[r]] = Hi(w)]
----------------------------------------------------------------------------
(***************************************************************************)
(* The arithmetic and logic unit, at the width M.                          *)
(***************************************************************************)
\* What each 8-bit instruction computes.
ByteKind ==
  [ADDRdRr |-> "add", ADCRdRr |-> "adc", SUBRdRr |-> "sub", SBCRdRr |-> "sbc",
   SUBIRdK |-> "sub", SBCIRdK |-> "sbc", CPRdRr |-> "sub", CPCRdRr |-> "sbc",
   ANDRdRr |-> "and", ORRdRr |-> "or", EORRdRr |-> "xor", COMRd |-> "com",
   LSLRd |-> "lsl", ROLRd |-> "rol", LSRRd |-> "lsr", RORRd |-> "ror", ASRRd |-> "asr"]

ByImmediate == {"SUBIRdK", "SBCIRdK"}
Compares == {"CPRdRr", "CPCRdRr"}

Result(kind, a, b, c, M) ==
  CASE kind = "add" -> AddWith(a, b, 0, M)
    [] kind = "adc" -> AddWith(a, b, c, M)
    [] kind = "sub" -> SubWith(a, b, 0, M)
    [] kind = "sbc" -> SubWith(a, b, c, M)
    [] kind = "and" -> [val |-> AndBits(a, b, M), carry |-> c]
    [] kind = "or"  -> [val |-> OrBits(a, b, M), carry |-> c]
    [] kind = "xor" -> [val |-> XorBits(a, b, M), carry |-> c]
    [] kind = "com" -> [val |-> M - 1 - a, carry |-> 1]
    [] kind = "lsl" -> ShiftLeft(a, 0, M)
    [] kind = "rol" -> ShiftLeft(a, c, M)
    [] kind = "lsr" -> ShiftRight(a, 0, M)
    [] kind = "ror" -> ShiftRight(a, c, M)
    [] OTHER -> ShiftRight(a, TopBit(a, M), M)

\* A subtraction with borrow keeps Z of the bytes below it.
Status(kind, a, b, P, M) ==
  LET r == Result(kind, a, b, P.c, M)
      borrow == IF kind = "sbc" THEN P.c ELSE 0
  IN  [P EXCEPT !.c = r.carry,
                !.z = Bit(r.val = 0 /\ (kind = "sbc" => P.z = 1)),
                !.s = IF kind \in {"sub", "sbc"}
                        THEN Bit(SignedLess(a, b, borrow, M)) ELSE @]

Alu(instr, m) ==
  LET a == m.reg[Encoded(instr.d)]
      b == IF instr.op \in ByImmediate THEN instr.k ELSE m.reg[Encoded(instr.s)]
      kind == ByteKind[instr.op]
      after == [m EXCEPT !.P = Status(kind, a, b, @, ByteSize)]
  IN  IF instr.op \in Compares
        THEN after
        ELSE SetByte(after, instr.d, Result(kind, a, b, m.P.c, ByteSize).val)

\* AND and ORA have a 16-bit immediate and no field for a register: they act
\* on the whole of A, whatever register the instruction was built with.
AccumulatorKind == [ANDimm16 |-> "and", ORAimm16 |-> "or"]

AluAccumulator(instr, m) ==
  LET a == WordOf(m, "A")
      kind == AccumulatorKind[instr.op]
      after == [m EXCEPT !.P = Status(kind, a, instr.k, @, WordSize)]
  IN  SetWord(after, "A", Result(kind, a, instr.k, m.P.c, WordSize).val)
----------------------------------------------------------------------------
(***************************************************************************)
(* Memory, ports and the stack.                                            *)
(***************************************************************************)
\* Reading the device's low byte puts its high byte in the temporary
\* register; writing its low byte writes both.
Load(m, addr, r) ==
  IF addr = Dev THEN [SetByte(m, r, Lo(m.dev)) EXCEPT !.temp = Hi(m.dev)]
  ELSE IF addr = Dev + 1 THEN SetByte(m, r, m.temp)
  ELSE SetByte(m, r, m.mem[addr])

Store(m, addr, b) ==
  IF addr = Dev THEN [m EXCEPT !.dev = Pair(b, m.temp)]
  ELSE IF addr = Dev + 1 THEN [m EXCEPT !.temp = b]
  ELSE IF addr \in Cells THEN [m EXCEPT !.mem[addr] = b]
  ELSE m

SPL == 61
SPH == 62
P_ADDR == 63

In(m, port, r) ==
  IF port = P_ADDR THEN SetByte(m, r, StatusByte(m.P)) ELSE Load(m, port, r)

Out(m, port, b) ==
  CASE port = SPL -> [m EXCEPT !.sp = Pair(b, Hi(@))]
    [] port = SPH -> [m EXCEPT !.sp = Pair(Lo(@), b)]
    [] port = P_ADDR -> [m EXCEPT !.P = StatusOf(b), !.shadow = m.P.i = 0]
    [] OTHER -> Store(m, port, b)

\* An address operand of LDD and STD, and a port, have six bits.
SixBits(k) == k % 64

\* The pointer of an indirect access, before and after it.
Address(instr, ptr) ==
  CASE instr.op \in {"LDRdPtrPd", "STPtrPdRr"} -> (ptr - 1) % WordSize
    [] instr.op \in {"LDDRdPtrQ", "STDPtrQRr"} -> (ptr + SixBits(instr.k)) % WordSize
    [] OTHER -> ptr

PointerAfter(instr, ptr) ==
  CASE instr.op \in {"LDRdPtrPi", "STPtrPiRr"} -> (ptr + 1) % WordSize
    [] instr.op \in {"LDRdPtrPd", "STPtrPdRr"} -> (ptr - 1) % WordSize
    [] OTHER -> ptr

Loads == {"LDRdPtr", "LDRdPtrPi", "LDRdPtrPd", "LDDRdPtrQ"}
Stores == {"STPtrRr", "STPtrPiRr", "STPtrPdRr", "STDPtrQRr"}

LoadIndirect(instr, m) ==
  LET ptr == WordOf(m, instr.s)
  IN  Load(IF PointerAfter(instr, ptr) = ptr THEN m ELSE SetWord(m, instr.s, PointerAfter(instr, ptr)),
           Address(instr, ptr), instr.d)

StoreIndirect(instr, m) ==
  LET ptr == WordOf(m, instr.d)
      after == Store(m, Address(instr, ptr), m.reg[Encoded(instr.s)])
  IN  IF PointerAfter(instr, ptr) = ptr THEN after
      ELSE SetWord(after, instr.d, PointerAfter(instr, ptr))

\* PHA pushes its 16-bit operand, high byte first; POP pulls a byte.
Push(m, r) ==
  [Store(Store(m, m.sp, m.reg[HiReg[r]]), m.sp - 1, m.reg[LoReg[r]])
     EXCEPT !.sp = (@ - 2) % WordSize]

Pop(m, r) == [Load(m, m.sp + 1, r) EXCEPT !.sp = (@ + 1) % WordSize]

Effect(instr, m) ==
  CASE instr.op \in DOMAIN ByteKind -> Alu(instr, m)
    [] instr.op \in DOMAIN AccumulatorKind -> AluAccumulator(instr, m)
    [] instr.op = "LDIRdK" -> SetByte(m, instr.d, instr.k)
    [] instr.op = "MOVRdRr" -> SetByte(m, instr.d, m.reg[Encoded(instr.s)])
    [] instr.op \in Loads -> LoadIndirect(instr, m)
    [] instr.op \in Stores -> StoreIndirect(instr, m)
    [] instr.op = "LDSRdK" -> Load(m, instr.k, instr.d)
    [] instr.op = "STSKRr" -> Store(m, instr.k, m.reg[Encoded(instr.s)])
    [] instr.op = "INRdA" -> In(m, SixBits(instr.k), instr.d)
    [] instr.op = "OUTARr" -> Out(m, SixBits(instr.k), m.reg[Encoded(instr.s)])
    [] instr.op = "BCLRs" -> [m EXCEPT !.P.i = 0]
    [] instr.op = "PHAstk" -> Push(m, instr.s)
    [] instr.op = "POPRd" -> Pop(m, instr.d)

Exec(instr, m) == Effect(instr, [m EXCEPT !.shadow = FALSE])
============================================================================
