--------------------------- MODULE CallSequence ---------------------------
(***************************************************************************)
(* One call of a known function that is not variadic: the caller's and the *)
(* callee's analysis of the arguments (analyzeStandardArguments, run once  *)
(* for each side, from what each side knows of the signature), and then    *)
(* the code they lead to, run: LowerCall's stores become pushes            *)
(* (fixStackStores), the callee saves, reads, restores and returns, and    *)
(* the caller takes the arguments off the stack again.                     *)
(*                                                                         *)
(* The caller has no reserved call frame, the callee no objects of its own *)
(* in its frame, and it reads all of its arguments.  PHAstk and POPRd have *)
(* the widths they have in SNESMachine: a word and a byte.                 *)
(***************************************************************************)
EXTENDS Integers, Sequences, SequencesExt

CONSTANTS
  Signatures, \* sequences of argument types
  Returns,    \* return types: "void", "word" (fits a register) or "wide"
  StackTop    \* SP before the call

\* A type is the sequence of the sizes, in bytes, of the scalars it is made of.
ASSUME CallAssumption ==
  /\ Signatures \subseteq Seq(Seq(Nat \ {0}))
  /\ Returns \subseteq {"void", "word", "wide"}
  /\ StackTop \in Nat

VARIABLES
  sig, ret,     \* the function called
  savesA,       \* whether the callee changes A, the callee-saved register
  side,         \* whose arguments are analyzed: "call", "entry", then "run"
  pc,           \* ends at "done", in the caller; "astray"; or "assert", with no code
  args,         \* Args: the number of pieces of each argument
  i, size, offset,                 \* parseExternFuncCallArgs
  arg, pos, regsLeft, usesStack,   \* analyzeStandardArguments
  allocated, stackOffset,          \* CCState
  locs,         \* ArgLocs
  called,       \* what LowerCall has analyzed: its ArgLocs and NumBytes
  regs, SP, stack                  \* the machine

function == <<sig, ret, savesA>>
parsing == <<i, size, offset>>
analysis == <<arg, pos, regsLeft, usesStack, allocated, stackOffset, locs>>
machine == <<regs, SP, stack>>
vars == <<function, side, pc, args, parsing, analysis, called, machine>>
----------------------------------------------------------------------------
(***************************************************************************)
(* The pieces.  i8 and i16 are legal; a wider integer is passed as i16s.   *)
(***************************************************************************)
NumParts(bytes) == (bytes + 1) \div 2
PartBytes(bytes) == IF bytes = 1 THEN 1 ELSE 2

PiecesOf(n, type) ==
  FlattenSeq([v \in DOMAIN type |->
    [j \in 1..NumParts(type[v]) |->
      [arg |-> n, bytes |-> PartBytes(type[v]), partOffset |-> (j - 1) * PartBytes(type[v])]]])

\* A result that does not fit its register goes where a hidden first argument
\* points to.
Passed(s, r) == IF r = "wide" THEN <<<<2>>>> \o s ELSE s

PiecesOfCall(s, r) == FlattenSeq([n \in DOMAIN Passed(s, r) |-> PiecesOf(n, Passed(s, r)[n])])

\* Outs of the caller, Ins of the callee.
Pieces == PiecesOfCall(sig, ret)

TypeBytes(type) == FoldLeft(LAMBDA sum, bytes : sum + bytes, 0, type)

\* Mutant: the last byte of an odd size is dropped.
FunctionArgsRoundedDown == [n \in DOMAIN sig |-> TypeBytes(sig[n]) \div 2]

\* parseFunctionArgs: the callee counts from the types of its arguments.
FunctionArgs == [n \in DOMAIN sig |-> (TypeBytes(sig[n]) + 1) \div 2]

\* parseExternFuncCallArgs: the caller counts the pieces that continue.
Continues == i <= Len(Pieces) /\ Pieces[i].partOffset = offset

ParsePiece ==
  /\ pc = "parse" /\ Continues
  /\ i' = i + 1 /\ size' = size + 1 /\ offset' = offset + Pieces[i].bytes
  /\ UNCHANGED <<function, side, pc, args, analysis, called, machine>>

EndArgument ==
  /\ pc = "parse" /\ ~Continues /\ (i <= Len(Pieces) \/ size > 0)
  /\ args' = Append(args, size)
  /\ size' = 0 /\ offset' = 0
  /\ UNCHANGED <<function, side, pc, i, analysis, called, machine>>

EndParse ==
  /\ pc = "parse" /\ i > Len(Pieces) /\ size = 0
  /\ pc' = "assign"
  /\ UNCHANGED <<function, side, args, parsing, analysis, called, machine>>
----------------------------------------------------------------------------
(***************************************************************************)
(* analyzeStandardArguments, one step per argument.                        *)
(***************************************************************************)
RegList == <<"A", "X", "Y">>   \* RegList16; RegList8 names their low bytes

InRegister(reg, bytes) == [kind |-> "reg", reg |-> reg, bytes |-> bytes]
InMemory(at, bytes) == [kind |-> "mem", offset |-> at, bytes |-> bytes]

Assigning == pc = "assign" /\ arg <= Len(args)
Size == args[arg]
LocBytes == Pieces[pos + 1].bytes

\* n calls of AllocateReg: each gets the first register in the list that is
\* still free; 0, no register, when there is none left.
AllocateRegs(n) ==
  LET free == {k \in DOMAIN RegList : RegList[k] \notin allocated}
      nth(j) == {k \in free : Cardinality({m \in free : m <= k}) = j}
  IN  [j \in 1..n |-> IF nth(j) = {} THEN "none" ELSE RegList[CHOOSE k \in nth(j) : TRUE]]

NextArgument == arg' = arg + 1 /\ pos' = pos + Size

\* Mutant: the loop goes on with the same argument.
SkipEmptyAgain ==
  /\ Assigning /\ Size = 0
  /\ UNCHANGED vars

\* A zero-sized argument is not lowered.
SkipEmpty ==
  /\ Assigning /\ Size = 0
  /\ arg' = arg + 1
  /\ UNCHANGED <<function, side, pc, args, parsing, pos, regsLeft, usesStack, allocated,
                 stackOffset, locs, called, machine>>

\* Mutant: the register count is not kept.
RegistersNotCounted ==
  /\ Assigning /\ Size # 0 /\ ~usesStack /\ Size <= regsLeft
  /\ LET given == AllocateRegs(Size) IN
       /\ locs' = locs \o Reverse([j \in 1..Size |-> InRegister(given[j], LocBytes)])
       /\ allocated' = allocated \cup {given[j] : j \in 1..Size}
  /\ NextArgument
  /\ UNCHANGED <<function, side, pc, args, parsing, regsLeft, usesStack, stackOffset, called,
                 machine>>

\* Mutant: an argument may begin in registers and end on the stack.
AssignWhatFits ==
  /\ Assigning /\ Size # 0 /\ ~usesStack /\ regsLeft > 0
  /\ LET n == IF Size <= regsLeft THEN Size ELSE regsLeft
         given == AllocateRegs(n)
     IN  /\ locs' = locs \o Reverse([j \in 1..n |-> InRegister(given[j], LocBytes)])
                         \o [j \in 1..(Size - n) |-> InMemory(stackOffset + (j - 1) * LocBytes, LocBytes)]
         /\ allocated' = allocated \cup {given[j] : j \in 1..n}
         /\ regsLeft' = regsLeft - n
         /\ stackOffset' = stackOffset + (Size - n) * LocBytes
  /\ NextArgument
  /\ UNCHANGED <<function, side, pc, args, parsing, usesStack, called, machine>>

\* The whole argument fits: its pieces, the last one first.
AssignRegisters ==
  /\ Assigning /\ Size # 0 /\ ~usesStack /\ Size <= regsLeft
  /\ LET given == AllocateRegs(Size) IN
       /\ locs' = locs \o Reverse([j \in 1..Size |-> InRegister(given[j], LocBytes)])
       /\ allocated' = allocated \cup {given[j] : j \in 1..Size}
  /\ regsLeft' = regsLeft - Size
  /\ NextArgument
  /\ UNCHANGED <<function, side, pc, args, parsing, usesStack, stackOffset, called, machine>>

\* This argument and all that follow go to the stack.
AssignStack ==
  /\ Assigning /\ Size # 0 /\ (usesStack \/ Size > regsLeft)
  /\ usesStack' = TRUE
  /\ locs' = locs \o [j \in 1..Size |-> InMemory(stackOffset + (j - 1) * LocBytes, LocBytes)]
  /\ stackOffset' = stackOffset + Size * LocBytes
  /\ NextArgument
  /\ UNCHANGED <<function, side, pc, args, parsing, regsLeft, allocated, called, machine>>

NewAnalysis ==
  /\ arg' = 1 /\ pos' = 0 /\ regsLeft' = 3 /\ usesStack' = FALSE
  /\ allocated' = {} /\ stackOffset' = 0 /\ locs' = << >>

StackSize == IF savesA THEN 2 ELSE 0
OffsetOfLocalArea == -2

\* eliminateFrameIndex: a frame index becomes A and an offset of six bits.
FrameBase == regs["A"]
FrameOffset(objectOffset) == objectOffset + (StackSize - OffsetOfLocalArea + 1)
OffsetsFit ==
  \A k \in 1..Len(locs) : locs[k].kind = "mem" => FrameOffset(locs[k].offset) < 64

\* LowerCall knows the locations; then LowerFormalArguments begins.
CallAnalyzed ==
  /\ pc = "assign" /\ arg > Len(args) /\ side = "call"
  /\ called' = [locs |-> locs, bytes |-> stackOffset]
  /\ side' = "entry" /\ args' = FunctionArgs /\ NewAnalysis
  /\ UNCHANGED <<function, pc, parsing, machine>>

\* The code of both sides is there, unless an offset is out of range.
EntryAnalyzed ==
  /\ pc = "assign" /\ arg > Len(args) /\ side = "entry"
  /\ side' = "run" /\ pc' = IF OffsetsFit THEN "store" ELSE "assert"
  /\ i' = Len(called.locs)
  /\ UNCHANGED <<function, args, size, offset, analysis, called, machine>>
----------------------------------------------------------------------------
(***************************************************************************)
(* The call.  SP points to the free byte below the last one pushed.  A     *)
(* 16-bit value v is the bytes <<v, "lo">> and <<v, "hi">>, and a register *)
(* holds two bytes.  Piece k of the arguments is the value k; the other    *)
(* values come here.                                                       *)
(***************************************************************************)
CallersValue == 0
ReturnAddress == -1
Result == -2
Temporary == -3     \* what the callee leaves behind in a register
StackAddress == -4  \* what SP is, or was

Word(v) == [lo |-> <<v, "lo">>, hi |-> <<v, "hi">>]

Push(w) == stack' = [stack EXCEPT ![SP] = w.hi, ![SP - 1] = w.lo] /\ SP' = SP - 2

InMem(k) == called.locs[k].kind = "mem"

\* The register that holds piece k; an i8 has only its low byte.
Source(k) == IF called.locs[k].bytes = 2 THEN Word(k) ELSE [Word(k) EXCEPT !.hi = <<k, "unused">>]

\* Mutant: the stack arguments are stored in their order.
PushInOrder ==
  /\ pc = "store" /\ i > 0 /\ InMem(i)
  /\ LET first == CHOOSE k \in 1..i : InMem(k) /\ \A j \in 1..(k - 1) : ~InMem(j)
         k == first + Len(called.locs) - i
     IN  Push(Source(k))
  /\ i' = i - 1
  /\ UNCHANGED <<function, side, pc, args, size, offset, analysis, called, regs>>

\* LowerCall chains the stores from the last argument to the first, and
\* fixStackStores makes each a push of the whole 16-bit register.
PushArgument ==
  /\ pc = "store" /\ i > 0 /\ InMem(i)
  /\ Push(Source(i))
  /\ i' = i - 1
  /\ UNCHANGED <<function, side, pc, args, size, offset, analysis, called, regs>>

\* RegsToPass: the locations before the first one on the stack.
CopyToRegisters ==
  /\ pc = "store" /\ (i > 0 => ~InMem(i))
  /\ regs' = [r \in DOMAIN regs |->
                IF \E k \in 1..i : called.locs[k].reg = r
                  THEN Word(CHOOSE k \in 1..i : called.locs[k].reg = r)
                  ELSE regs[r]]
  /\ pc' = "call"
  /\ UNCHANGED <<function, side, args, parsing, analysis, called, SP, stack>>

Call ==
  /\ pc = "call"
  /\ Push(Word(ReturnAddress))
  /\ pc' = "save"
  /\ UNCHANGED <<function, side, args, parsing, analysis, called, regs>>

\* spillCalleeSavedRegisters
Save ==
  /\ pc = "save"
  /\ IF savesA THEN Push(regs["A"]) ELSE UNCHANGED <<SP, stack>>
  /\ pc' = "body"
  /\ UNCHANGED <<function, side, args, parsing, analysis, called, regs>>

\* The callee has read its arguments and computed; LowerReturn copies the
\* result to A.
Body ==
  /\ pc = "body"
  /\ regs' = [A |-> IF ret = "word" THEN Word(Result)
                    ELSE IF savesA THEN Word(Temporary) ELSE regs["A"],
              X |-> Word(Temporary), Y |-> Word(Temporary)]
  /\ pc' = "restore"
  /\ UNCHANGED <<function, side, args, parsing, analysis, called, SP, stack>>

\* restoreCalleeSavedRegisters, before the return and after everything else:
\* one POPRd, which pulls a byte, for the register Save has pushed whole.
Restore ==
  /\ pc = "restore"
  /\ IF savesA THEN regs' = [regs EXCEPT !["A"].lo = stack[SP + 1]] /\ SP' = SP + 1
               ELSE UNCHANGED <<regs, SP>>
  /\ pc' = "return"
  /\ UNCHANGED <<function, side, args, parsing, analysis, called, stack>>

\* Control goes to the word on top of the stack, whatever it is.
Return ==
  /\ pc = "return"
  /\ pc' = IF [lo |-> stack[SP + 1], hi |-> stack[SP + 2]] = Word(ReturnAddress)
             THEN "adjust" ELSE "astray"
  /\ SP' = SP + 2
  /\ UNCHANGED <<function, side, args, parsing, analysis, called, regs, stack>>

\* Mutant: Amount is added to what is subtracted.
AdjustNotNegated ==
  /\ pc = "adjust"
  /\ SP' = SP - called.bytes
  /\ regs' = IF called.bytes # 0 THEN [regs EXCEPT !["A"] = Word(StackAddress)] ELSE regs
  /\ pc' = "done"
  /\ UNCHANGED <<function, side, args, parsing, analysis, called, stack>>

\* Mutant: nothing on the stack is released as well.
AdjustEvenNothing ==
  /\ pc = "adjust"
  /\ SP' = SP + called.bytes
  /\ regs' = [regs EXCEPT !["A"] = Word(StackAddress)]
  /\ pc' = "done"
  /\ UNCHANGED <<function, side, args, parsing, analysis, called, stack>>

\* eliminateCallFramePseudoInstr on ADJCALLSTACKUP: A := SP; A -= -Amount;
\* SP := A, if there is anything on the stack.
Adjust ==
  /\ pc = "adjust"
  /\ SP' = SP + called.bytes
  /\ regs' = IF called.bytes # 0 THEN [regs EXCEPT !["A"] = Word(StackAddress)] ELSE regs
  /\ pc' = "done"
  /\ UNCHANGED <<function, side, args, parsing, analysis, called, stack>>

Done == pc \in {"done", "astray", "assert"} /\ UNCHANGED vars

\* A callee that computes a result in A changes A.
Init ==
  /\ sig \in Signatures /\ ret \in Returns
  /\ savesA \in BOOLEAN /\ (ret = "word" => savesA)
  /\ side = "call" /\ pc = "parse"
  /\ args = << >> /\ i = 1 /\ size = 0 /\ offset = 0
  /\ arg = 1 /\ pos = 0 /\ regsLeft = 3 /\ usesStack = FALSE
  /\ allocated = {} /\ stackOffset = 0 /\ locs = << >>
  /\ called = [locs |-> << >>, bytes |-> 0]
  /\ regs = [r \in {"A", "X", "Y"} |-> Word(CallersValue)]
  /\ SP = StackTop
  /\ stack = [at \in 1..StackTop |-> <<CallersValue, "lo">>]

Analyze ==
  \/ ParsePiece \/ EndArgument \/ EndParse
  \/ SkipEmpty \/ AssignRegisters \/ AssignStack \/ CallAnalyzed \/ EntryAnalyzed

Run ==
  PushArgument \/ CopyToRegisters \/ Call \/ Save \/ Body \/ Restore \/ Return \/ Adjust

Next == Analyze \/ Run \/ Done

Spec == Init /\ [][Next]_vars /\ WF_vars(Analyze) /\ WF_vars(Run)
----------------------------------------------------------------------------
(***************************************************************************)
(* The calls the theorems are about.  The stack holds any call.  No i8 is  *)
(* passed on the stack: a push moves SP by two, the analysis counts one.   *)
(* For what the callee finds: arguments are scalars, and no result is      *)
(* returned through a hidden argument (see EmitsEveryValue).               *)
(***************************************************************************)
StackIsLarge ==
  \A s \in Signatures, r \in Returns : 2 * Len(PiecesOfCall(s, r)) + 5 <= StackTop

WordsOnStack ==
  \A s \in Signatures, r \in Returns :
    \A k \in 4..Len(PiecesOfCall(s, r)) : PiecesOfCall(s, r)[k].bytes = 2

ScalarArguments ==
  "wide" \notin Returns /\ \A s \in Signatures : \A n \in DOMAIN s : Len(s[n]) <= 1
----------------------------------------------------------------------------
Location ==
  [kind : {"reg"}, reg : {"A", "X", "Y"}, bytes : {1, 2}]
    \cup [kind : {"mem"}, offset : Nat, bytes : {1, 2}]

Bytes == (StackAddress..Len(Pieces)) \X {"lo", "hi"}

CallTypeOK ==
  /\ sig \in Signatures /\ ret \in Returns /\ savesA \in BOOLEAN
  /\ side \in {"call", "entry", "run"}
  /\ pc \in {"parse", "assign", "store", "call", "save", "body", "restore", "return",
             "adjust", "done", "astray", "assert"}
  /\ args \in Seq(Nat)
  /\ i \in 0..(Len(Pieces) + 1) /\ size \in Nat /\ offset \in Nat
  /\ arg \in 1..(Len(args) + 1) /\ pos \in 0..Len(Pieces)
  /\ regsLeft \in 0..3 /\ usesStack \in BOOLEAN
  /\ allocated \subseteq {"A", "X", "Y"} /\ stackOffset \in Nat
  /\ locs \in Seq(Location)
  /\ called.locs \in Seq(Location) /\ called.bytes \in Nat
  /\ regs \in [{"A", "X", "Y"} -> [lo : Bytes, hi : Bytes]]
  /\ SP \in 1..StackTop /\ DOMAIN stack = 1..StackTop

(***************************************************************************)
(* analyzeStandardArguments: "all pieces of a certain argument have to be  *)
(* passed either using registers or the stack but never mixing both".      *)
(***************************************************************************)
NeverMixed ==
  \A l \in {locs, called.locs} :
    \A j, k \in 1..Len(l) : Pieces[j].arg = Pieces[k].arg => l[j].kind = l[k].kind

(***************************************************************************)
(* When the call is made each stack argument is where LowerCall's store    *)
(* would have put it, SP + 1 + LocMemOffset, though pushes ignore offsets. *)
(***************************************************************************)
Holds(at, v, bytes) ==
  stack[at] = <<v, "lo">> /\ (bytes = 2 => stack[at + 1] = <<v, "hi">>)

PushesStoreInPlace ==
  pc = "call" =>
    \A k \in 1..Len(called.locs) :
      InMem(k) => Holds(SP + 1 + called.locs[k].offset, k, called.locs[k].bytes)

(***************************************************************************)
(* Every piece of every argument is where the callee's own analysis has    *)
(* it, although the two sides count in different ways: in its register, or *)
(* FrameOffset above SP.  But the base that eliminateFrameIndex names is   *)
(* A, and A never holds SP: those on the stack are there and are not read. *)
(***************************************************************************)
ArgumentsInPlace ==
  pc = "body" =>
    /\ Len(locs) = Len(Pieces)
    /\ \A k \in 1..Len(locs) :
         /\ locs[k].kind = "reg" => regs[locs[k].reg] = Word(k)
         /\ locs[k].kind = "mem" =>
              /\ Holds(SP + FrameOffset(locs[k].offset), k, locs[k].bytes)
              /\ FrameBase # Word(StackAddress)

(***************************************************************************)
(* CSR_Normal: a call preserves A.  The code does so only in part: when    *)
(* the callee returns, a register it has saved has its low byte back and   *)
(* not its high one; and once the caller has released its arguments, A is  *)
(* as it was exactly if there were none on the stack.                      *)
(***************************************************************************)
AtCall(r) ==
  IF \E k \in 1..Len(called.locs) : ~InMem(k) /\ called.locs[k].reg = r
    THEN CHOOSE k \in 1..Len(called.locs) : ~InMem(k) /\ called.locs[k].reg = r
    ELSE CallersValue

CallPreserves ==
  /\ pc = "return" =>
       /\ regs["A"].lo = Word(AtCall("A")).lo
       /\ regs["A"].hi = Word(AtCall("A")).hi <=> ~savesA
  /\ pc = "done" => (regs["A"] = Word(AtCall("A")) <=> called.bytes = 0)

(***************************************************************************)
(* The call comes back to its caller, and SP to where it was, exactly if   *)
(* the callee has saved nothing: what Save pushes Restore does not take    *)
(* off again, and the return pops the byte that is left.                   *)
(***************************************************************************)
StackBalanced ==
  pc \in {"done", "astray"} => (pc = "done" /\ SP = StackTop <=> ~savesA)

(***************************************************************************)
(* The analysis of both sides and the call come to their ends: neither the *)
(* counting of pieces nor the walk over the arguments stays where it is,   *)
(* and "Offset is out of range" is asserted exactly from 64 bytes on, the  *)
(* saved register included.                                                *)
(***************************************************************************)
FrameIsLarge == called.bytes + StackSize >= 64

CallEnds ==
  <>(pc = IF FrameIsLarge THEN "assert" ELSE IF savesA THEN "astray" ELSE "done")

(***************************************************************************)
(* When the callee returns A holds the result: "i8 is returned in AL", i16 *)
(* in A (RetCC_SNES).  The code does not keep this: CSR_Normal lists A, so *)
(* the callee saves A before it computes and restores it before it         *)
(* returns.                                                                *)
(***************************************************************************)
ResultInA == (pc = "return" /\ ret = "word") => regs["A"] = Word(Result)

(***************************************************************************)
(* The assertion on the callee's side of the analysis, "LowerFormal-       *)
(* Arguments didn't emit the correct number of values!".  The code fails   *)
(* it when the result is wide: parseFunctionArgs does not see the hidden   *)
(* argument.                                                               *)
(***************************************************************************)
EmitsEveryValue == side = "run" => Len(locs) = Len(Pieces)
============================================================================
