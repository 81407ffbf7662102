--------------------------- MODULE MCExpandPseudo ---------------------------
\* ExpandPseudo with bytes of 8 bits, words at the boundaries of the carry
\* and sign chains, and one interrupt handler.
EXTENDS ExpandPseudo, SequencesExt

MCDataCells == 300..305 \cup 362..366
MCCells == MCDataCells \cup {512, 513} \cup 1016..1023 \cup 1280..1284

Boundary == {0, 1, 255, 256, 32767, 32768, 65535}
SomeWords == {1, 255, 32768}

RR(op, d, s) == MI(op, d, s, 0)
RI(op, d, k) == MI(op, d, NoReg, k)

\* Programs over registers.
RegisterPrograms ==
  {<<RR(op, "A", "X")>> :
     op \in {"ADDWRdRr", "SUBWRdRr", "CPWRdRr", "ANDWRdRr", "ORWRdRr", "EORWRdRr"}}
    \cup {<<RR(op, "A", NoReg)>> : op \in {"COMWRd", "LSLWRd", "LSRWRd", "ASRWRd"}}
    \cup {<<RR("ADDWRdRr", "A", "A")>>}
    \cup {<<RI("SUBIWRdK", "A", k)>> : k \in Boundary}
    \cup {<<RI("ANDIWRdK", "A", k)>> : k \in {0, 65535}}
    \cup {<<RI("ORIWRdK", "A", k)>> : k \in {0, 1, 255}}

\* 32-bit operations on the pairs (Y, A) and (X, X), and on (X, A).
LongPrograms ==
  {<<RR("ADDWRdRr", "A", "X"), RR("ADCWRdRr", "Y", "X")>>,
   <<RR("SUBWRdRr", "A", "X"), RR("SBCWRdRr", "Y", "X")>>,
   <<RR("CPWRdRr", "A", "X"), RR("CPCWRdRr", "Y", "X")>>,
   <<RR("SUBWRdRr", "A", "X"), RI("LDIWRdK", "X", 256), RR("SBCWRdRr", "Y", "X")>>,
   <<RI("SUBIWRdK", "A", 1), RI("SBCIWRdK", "Y", 0)>>}

\* Programs that address memory through X, and the device.
MemoryPrograms ==
  {<<RR("LDWRdPtr", "Y", "X")>>, <<RR("LDWRdPtrPi", "Y", "X"), RR("LDWRdPtrPi", "A", "X")>>,
   <<RR("LDWRdPtrPd", "Y", "X")>>, <<MI("LDDWRdPtrQ", "A", "X", 62)>>,
   <<RR("STWPtrRr", "X", "A")>>, <<RR("STWPtrPiRr", "X", "A"), RR("STWPtrPiRr", "X", "Y")>>,
   <<RR("STWPtrPdRr", "X", "A")>>, <<MI("STDWPtrQRr", "X", "A", 62)>>,
   <<RI("LDSWRdK", "Y", 302), MI("STSWKRr", NoReg, "Y", 304)>>,
   <<RI("LDSWRdK", "Y", Dev)>>, <<MI("STSWKRr", NoReg, "A", Dev)>>,
   <<RI("INWRdA", "Y", Dev)>>, <<MI("OUTWARr", NoReg, "A", Dev), RI("INWRdA", "Y", Dev)>>}

AtomicPrograms ==
  {<<RR("AtomicLoad16", "Y", "X")>>, <<RR("AtomicStore16", "X", "Y")>>,
   <<RR("AtomicStore16", "X", "Y"), MI("AtomicFence", NoReg, NoReg, 0),
     RR("AtomicLoad16", "Y", "X")>>,
   <<RR("AtomicLoad8", "Y", "X")>>, <<RR("AtomicStore8", "X", "Y")>>,
   <<RR("SPWRITE", "SP", "X")>>}

MCPrograms == RegisterPrograms \cup LongPrograms \cup MemoryPrograms \cup AtomicPrograms

Machine(a, x, y, P) ==
  [reg |-> [r \in ByteRegs |->
              CASE r = "AL" -> Lo(a) [] r = "AH" -> Hi(a) [] r = "XL" -> Lo(x)
                [] r = "XH" -> Hi(x) [] r = "YL" -> Lo(y) [] OTHER -> Hi(y)],
   P |-> P, sp |-> 1023,
   mem |-> [c \in Cells |-> (7 * c + 3) % 256],
   dev |-> 21862, temp |-> 119, shadow |-> FALSE]

Enabled == [c |-> 0, z |-> 0, s |-> 0, i |-> 1]
Status0(c, z, i) == [Enabled EXCEPT !.c = c, !.z = z, !.i = i]

MCStarts(program0) ==
  CASE program0 \in RegisterPrograms ->
         {Machine(a, x, 4660, Status0(c, 1 - c, 1)) : a, x \in Boundary, c \in {0, 1}}
    [] program0 \in LongPrograms ->
         {Machine(a, x, y, Enabled) : a \in SomeWords, x \in SomeWords, y \in Boundary}
    [] program0 \in MemoryPrograms -> {Machine(4660, 302, 22136, Enabled)}
    [] program0 = <<RR("AtomicStore8", "X", "Y")>> ->
         {Machine(4660, 302, 22136, Status0(1, 0, i)) : i \in {0, 1}}
    [] program0 = <<RR("SPWRITE", "SP", "X")>> ->
         {Machine(1, 1283, 2, Status0(1, 0, i)) : i \in {0, 1}}
    [] program0 = <<MI("LDDWRdPtrQ", "A", "X", 63)>> -> {Machine(4660, 302, 22136, Enabled)}
    [] OTHER -> {Machine(4660, Shared, 22136, Status0(1, 0, i)) : i \in {0, 1}}

\* What the theorems of ExpandPseudoProofs ask of the programs.
ASSUME MCProgramsAsAsked ==
  \A p \in MCPrograms :
    /\ \A k \in 1..Len(p) : Fits(p[k])
    /\ WritesStackWhole(p) /\ WritesDeviceWhole(p) /\ WritesSharedWhole(p)

\* Of the immediates of ANDIW and ORIW these programs have all that are right,
\* up to the low byte of ORIW's, and no others.
LogicImmediate(op, k) == \A a \in Boundary :
  LET p == RI(op, "A", k)
      before == Machine(a, 1, 4660, Enabled)
      after == FoldLeft(LAMBDA x, instr : Exec(instr, x), before, Expansion(p))
  IN  WordOf(after, "A") = WordOf(WordStep(before, p), "A")

ASSUME MCLogicImmediates ==
  \A k \in Boundary \cup {254, 4080, 65280} :
    /\ LogicImmediate("ANDIWRdK", k) <=> k \in {0, 65535}
    /\ LogicImmediate("ORIWRdK", k) <=> Hi(k) = 0

\* An offset the assertion lets through although the offset of the high byte
\* does not fit; a mask for the low byte; an atomic load into the scratch
\* register; an atomic add.
OffsetPrograms == {<<MI("LDDWRdPtrQ", "A", "X", 63)>>}
LogicPrograms == {<<RI("ANDIWRdK", "A", 255)>>}
ScratchPrograms == {<<RR("AtomicLoad16", "A", "X")>>}
AddPrograms == {<<[op |-> "AtomicLoadAdd16", d |-> "Y", s |-> "X", k |-> 0, v |-> "Y"]>>}
============================================================================
