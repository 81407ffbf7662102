# A verification project for the SNES backend of llvm-to-snes

The repository is a copy of LLVM with one new backend,
`src/lib/Target/SNES/` (about 13,000 lines): code generation for the 65c816,
the processor of the Super Nintendo, started from LLVM's AVR backend. This
directory holds TLA+ models of the backend's own logic, the TLC runs that check
them, and theorems about them checked by TLAPS. `PROJECT.json` ties every
definition to the lines it models.

## State of the code

The backend is work in progress, and the models say what its functions do, not
that a working compiler does it:

- it does not compile at this commit: there is stray text in
  `SNESInstrInfo.cpp` (`fddfd`, in `storeRegToStackSlot`) and in
  `SNESInstrInfo.td` (`dsdsds`);
- `SNESTargetMachine.cpp` adds only the instruction selector. The calls that
  add the frame analyzer, the dynamic alloca pass, the memory relaxation, the
  pseudo expansion and LLVM's branch relaxation are commented out;
- the bodies of `emitPrologue`, `emitEpilogue` and `getRelocType` are commented
  out;
- much of the instruction table is still AVR's. The model's machine is the one
  this table and the comments of the expansions describe (a status port at
  0x3f, SP at 0x3d and 0x3e, a temporary register behind 16-bit device
  registers), not a 65c816.

The branch hooks are complete and independent of the rest; so is the expansion
pass, once it is run.

## Inventory

| Component | State | Operations | What makes it right |
|---|---|---|---|
| Branch hooks (`SNESInstrInfo`) | the instructions of a block, an iterator, a remembered jump, three outputs | `analyzeBranch` (reads or edits), `insertBranch`, `removeBranch`, `reverseBranchCondition` | edits keep where the block goes; the outputs describe it; the restarts end |
| Block placement (LLVM, caller of the hooks) | the layout, each block's branches and successors | layout, `updateTerminator`, `optimizeBranches`, second layout | blocks keep their meaning under any layout; its asserts hold; no jump to the next block remains |
| Branch relaxation (LLVM, caller of the hooks) | estimated offset and size of each block, the block looked at, whether anything changed | `adjustBlockOffsets`, `fixupConditionalBranch`, `fixupUnconditionalBranch`, passes until nothing changes | control is kept; no distance is underestimated; every branch reaches with the field it has; the passes end |
| Pseudo expansion (`SNESExpandPseudo`) | the block, a round counter | one expansion per pseudo, rounds until nothing changes | the bytes compute the word; no half word is visible to a handler or a device; rounds end |
| Register info | none | `splitReg`, `eliminateFrameIndex`, register sets | offsets fit; every register has its halves |
| Frame lowering | frame sizes, flags of the function | spills and restores, call frames, stack stores, frame analyzer | the stack is balanced; what is restored is what was saved |
| Memory relaxation | the block | `STDWPtrQRr` beyond 63 | same store, same registers after it |
| Lowering (`SNESISelLowering`) | the selection DAG; later the machine blocks, their CFG and their order | compares, shifts, selects, calls, returns; the custom inserters | caller and callee agree on places; the condition code is that of the comparison; the blocks inserted keep edges, PHIs and fall-throughs |
| DAG selection | the DAG | addressing modes, frame indexes, indirect calls | the offset selected fits its field |
| Emitter, fixups, object writer | section contents | operand encoding, `adjustFixupValue`, `applyFixup` | the bits are those of the value; an error is reported when it does not fit |
| Assembler parser, printers, disassembler | text | parse, match, print | printing and parsing agree |
| Instrumentation, registration, subtarget | none of note | | |
| LLVM core | | passes, support classes | not this project's own logic |

The parts interact through the machine code they hand on: placement calls the
branch hooks on blocks that it or an earlier call edited; the relaxation emits
pseudos that the expansion expands, and some expansions emit pseudos again; the
expanded code runs on a processor that takes interrupts between any two of its
instructions. The compiler itself has one thread.

What is hard: `analyzeBranch` edits the list it walks and starts over; its
callers alternate analysis, edits and new layouts; a two-byte operation is only
right if the order of the bytes, the carry and what interrupts may see all fit;
displacements, frame offsets and fixups sit at field widths. `PROJECT.json`
lists these hazards at their lines.

## Modules

`SNESBranches` holds the vocabulary: condition codes, the opcode of each, a
block as a sequence of `[op, target]`, where a block goes under each state of
the flags (`Goes`), and the three editing hooks as operators. Opcodes stand for
classes where the code treats them alike (`"JMPk"` is any branch without a
condition code, `"RET"` any other terminator, `"BODY"` any instruction that is
not a terminator). That `TakenOn` (from the instruction table) and
`CondFromBranchOpc` (from the code) agree is not assumed: they are separate
definitions, and the properties depend on their agreement.

`BranchAnalysis` is `analyzeBranch`: the variables are its locals and output
parameters, and there is one action per path through the body of its loop.
`block0` is a history variable, the block the caller passed in. `Spec` starts
from every block of `InitBlocks` with either value of `AllowModify`, except
that a non-modifying analysis is not given code behind a jump, of which it would
say what the section on departures tells.

`BranchPlacement` extends it with a caller: `MachineBlockPlacement` and
`MachineBasicBlock::updateTerminator`, seen from one block. `stage` is where
the pass is. Every call of `analyzeBranch` runs turn by turn. The layout
successor is any block (the pass's cost model is left open), except where
`buildCFGChains` keeps the old one: after a block it cannot analyze that may
fall through. The second layout, taken if tail merging changed the function,
may or may not happen. Likewise `optimizeBranches` may reorder any two-way
branch.

`WordArith` is arithmetic at any width, of bytes and of words; `SNESMachine` is
the machine: registers, flags, memory, one 16-bit device register, and `Exec`,
one instruction. 8-bit instructions that name a 16-bit register act on its low
byte, because the table gives A and AL, X and XL, Y and YL one encoding each.
`ANDimm16` and `ORAimm16`, which the expansions of ANDIW and ORIW build, are not
of this kind: the table gives them a 16-bit immediate and no field for a
register, so they act on the whole of A whichever half they were built with
(`AluAccumulator`). `PHAstk` pushes the 16 bits of its operand and `POPRd` pulls
a byte.

`ExpandPseudo` is the pass and then the run. `Expansion` is the table of
expansions; `ExpandMI` rewrites the instruction at the iterator and moves to
the one that followed it, `NextRound` is the `do ... while` with its counter
and assertion. When no pseudo is left, `StartRun` picks a start state and
`Step` executes; `Interrupt` is a handler that writes a word it shares with the
program and scribbles below the stack pointer, `DeviceTick` the device taking a
new value. `WordStep` says what each pseudo stands for: its selection pattern,
executed whole. `RunsAsWritten` compares the machine at the end, device and
shared word included (`Observed`), with those `WordStep` may end on, when
between two pseudos the device and the handler put whole words in place
(`Environment`).

`CallSequence` is one call, from both sides. First each side analyzes the
arguments (`analyzeStandardArguments`, one step per argument), the caller from
the pieces it has (`parseExternFuncCallArgs`), the callee from the types of the
function (`parseFunctionArgs`); neither sees the other's result. Then the code
runs: the stores of `LowerCall` as the pushes `fixStackStores` makes of them,
the copies to registers, the call, the callee's save of A, its reads through
the base register and offsets of `eliminateFrameIndex`, its result, the restore,
the return, and the release of the call frame, which goes through A. A type is
the sequence of the sizes of its scalars; a value is the number of its piece, and
16 bits of it, in a register or on the stack, are two bytes. `Save` and `Restore`
have the widths of `SNESMachine`: two bytes for `PHAstk`, one for `POPRd`.
`Return` goes wherever the two bytes on top of the stack say. A call ends in
`done`, back in its caller; in `astray`, somewhere else; or in `assert`, when an
offset does not fit its field and there is no code to run.

`AnalyzePromise` is the abstract specification of `analyzeBranch`: as long as
no answer is given, `Rewrite` may replace the block by one no longer than it
that no caller can tell from it, if the caller allows modification; `Succeed`
gives an answer that is insertable and true of the block, `GiveUp` gives none.
`BranchAnalysis` implements it (`ImplementsPromise`): the block, the layout
successor and `AllowModify` map to themselves, and `answer` is pending while
the loop scans, and then the outputs. The abstract step is atomic where the
loop fills its outputs in one at a time, starts over and leaves them stale.

`BranchRelax` is LLVM's `BranchRelaxation` over the SNES branch hooks. A block
is the bytes of its body and its terminators; `offset` and `size` are the
pass's `BlockInfo`, an estimate that `AdjustBlockOffsets` updates as
`adjustBlockOffsets` does, which is not the real place of a block: `TrueOffset`
is. There is one action per path through `relaxBranchInstructions` and
`fixupConditionalBranch`. The pass ends in `done`, or in `unimplemented`, the
`llvm_unreachable` of the target hook `insertIndirectBranch` that
`fixupUnconditionalBranch` calls.

`Lowering` is a function of three blocks (Entry, Body, Join) on its way to
machine code, and its run. `Init` holds the result of the DAG lowering
(`GetSNESCmp`, `CmpNodes`, `LowerShifts`, `LowerSelect`, `Ending`); `Pass`,
`NextBlock` and `Expand` are the walk of `ExpandISelPseudos`, which calls the
custom inserters `InsertShift` and `InsertSelect` and goes on in the block they
return; then the machine runs the blocks in the order of the layout, PHIs
included, with the processor's flags. `SourceValue` is what the source
operations compute, without flags or blocks.

`MCBranchAnalysis`, `MCBranchPlacement`, `MCBranchRelax`, `MCExpandPseudo`,
`MCCallSequence` and `MCLowering` choose the small instances.
`BranchAnalysisProofs`, `BranchPlacementProofs`, `BranchRelaxProofs`,
`WordArithProofs`, `LoweringProofs` and `CallSequenceProofs` hold the theorems,
`SequenceFacts` what the proofs use of flattened, folded and reversed sequences and
of sums over finite sets. The operators marked `Mutant` in comments are plausible bugs; replacing the
definition below each by it makes TLC report the property `PROJECT.json` pairs
it with, which shows that the property is about the code.

## Runs

| Run | Shows |
|---|---|
| `branch_analysis` | Every block of up to three terminators over one condition pair, and of up to two over all thirteen opcodes, with or without a body and with debug values between: edits keep control (`ControlPreserved`), the outputs describe the block (`OutputsDescribeBlock`) and can be given to `insertBranch` (`OutputsCanBeInserted`), a modified block has no dead branch (`ModifiedBlockIsTidy`), every restart has made progress, the walk ends, and the loop implements the abstract analysis (`ImplementsPromise`). |
| `branch_placement` | Blocks of up to three instructions over two condition pairs (one with both its branches), three blocks to go to, any sequence of runs of the pass: control is kept across layouts, the asserts of `updateTerminator` and `insertBranch` hold, no jump to the next block survives a run, and the unguarded call in `optimizeBranches` never meets a block it cannot analyze. |
| `expand_pseudo` | Blocks of one to three pseudos, every executable expansion, from start states at the carry, sign and byte boundaries, with interrupts and device ticks anywhere: the result is that of the 16-bit operations, in registers, live flags, SP, memory, the device and the shared word (`RunsAsWritten`), the word shared with a handler, the device's word and the stack pointer are never seen half written, and the rounds and the run end (`Finishes`). |
| `call_sequence` | Every signature of up to three integers of 1 to 8 bytes or empty types, with and without a result, with a callee that changes A or not: each piece of each argument is in the register the callee reads or at its frame offset above SP, though A, the base it reads the latter by, does not hold SP (`ArgumentsInPlace`); an argument is never split between registers and stack (`NeverMixed`); pushes put each argument at its offset (`PushesStoreInPlace`); the call comes back with SP as it was exactly if the callee saves nothing (`StackBalanced`); how much of A survives, exactly (`CallPreserves`); and both analyses and the run end, in `assert` exactly from 64 bytes on (`CallEnds`). |
| `branch_relax` | Every function of four blocks whose branches are tidy, with four distributions of bytes, near and far, words and odd: control is kept block by block (`RelaxKeepsControl`), the asserts of `verify` hold at every step, so that no distance is underestimated (`VerifyHolds`), the estimates are exact until a block other than the first is edited (`ExactUntilRelaxed`), every branch reaches at the end (`BranchesReach`), no block is followed by more than one new block, and the pass ends. |
| `lowering` | Every comparison of 1, 2, 4 and 8 bytes with a register or a constant, branched on or as a value, every shift, and every sequence of two operations, optimized or not: the result is that of the source (`ReturnsSourceValue`), every PHI knows its predecessors (`PhisMatchPredecessors`), the edges of the machine CFG are the ways control takes in exactly the functions `Safe` describes (`EdgesAreTheCFG`), and these never come to a PHI from a block it does not know (`NeverStuck`), and return. |
| `expand_logic_imm` | Violation: the expansion of `A & 255` leaves 0 in A. |
| `expand_offset` | Violation: offset 63 passes the assertion of the displaced load and the high byte comes from offset 0. |
| `expand_status` | Violation: an atomic load into A does not restore the status register. |
| `expand_atomic_add` | Violation: the atomic read-modify-write adds the pointer instead of the operand and does not return the old value. |
| `call_result` | Violation: A is both the result register and callee-saved, so the restore overwrites the low byte of the result. |
| `call_wide` | Violation: a function with a result wider than a register has a hidden argument that the callee's count of its arguments misses. |

Bounds. Two terminators show every pair of opcodes and three show every
restart: a swap needs a conditional branch and a jump, and a third instruction
is what lies before, between or behind them. The proofs remove this bound. Two
blocks distinguish the layout successor from another block, three also let the
layout change between two destinations of a branch; of the blocks that differ
only in the names of their targets `MCBranchPlacement` takes one. The pseudo programs chain a
carry at most once, and the start values are those at which a carry, borrow,
sign or zero moves from byte to byte; the width theorems below cover all
values. One handler word and one device word suffice to tell whole words from
halves. Three arguments of up to four pieces fill the
three registers in every way, leave one, two or all of them unused when the
stack begins, and put up to three arguments on it; an odd size shows the
rounding. Eight arguments of 60, 62 and 64 bytes on the stack, with a saved register or
without, lie on both sides of the largest offset that fits. `StackTop` only has to be
large enough. Of the immediates of ANDIW and ORIW the programs of `expand_pseudo` have
those whose expansion is right, on A only; `MCLogicImmediates` makes TLC check which
ones are, and that is all the run says of these two pseudos. `ExpandCount` reaches at most
3 of its 10: no expansion emits a pseudo that expands to a pseudo.

`MCBranchRelax` scales the ranges down: a conditional branch spans 16 bytes and
a jump 64, instead of 128 and 8192, with the same relations between the check
(`CondBits`, `JumpBits`) and the encoding (`CondField` one more bit than needed
for words, `JumpField` one bit less than the check). Four blocks let a fixup
put a branch before and a branch behind it out of range, and let both sides of
a branch be far; the profiles put the large bodies at different places.

`MCLowering` has bytes of two bits and words of four, so that one byte takes
every value, and a comparison of four or eight bytes has two or four words. The
operands of wider comparisons are those at and next to an end or the middle,
word by word; the theorems of `LoweringProofs` cover all operands of all widths.
Constants are those `TargetLowering::SimplifySetCC` leaves on the right: in
particular no `x > MAX`, for which `getSNESCmp`'s constant plus one would wrap.
An amount is less than the width. Two operations show every pair of inserters,
and one that finds the block it splits already split.

Fairness. The compiler's functions are sequential loops that nothing
interrupts: `WF(Analyze)` and `WF(PlacementNext)` say that a loop whose body
can run runs. `WF(Run)` covers the pass and the processor, which executes
instructions. Interrupts and ticks have no fairness: nothing makes them happen,
and however many of them happen, the processor still executes its next
instruction, because none of them disables it. In `CallSequence` `WF(Analyze)`
and `WF(Run)` say the same of the two analyses and of the call, `WF(Relax)` of the
relaxation and `WF(Next)` in `Lowering` of the pass and of the processor.

Placement has no end state, because the pass may run any number of times; the
other specifications stutter explicitly when they have ended (in `BranchRelax` also
when the pass is stuck in `unimplemented`, in `Lowering` when a PHI has no value
for the block control came from). Deadlock is checked
in every run.

## What is proved

`BranchAnalysisProofs`, for every set of blocks and every set of initial
blocks of any length (assumptions: `BlocksAssumption`, null and the return
point are not blocks; `InitBlocksAssumption`, terminators come last):

- `TypeCorrect`: `Spec => []TypeOK`;
- `ControlIsPreserved`: `Spec => []ControlPreserved`;
- `OutputsAreExact`: `Spec => []OutputsDescribeBlock`;
- `OutputsAreInsertable`: `Spec => []OutputsCanBeInserted`;
- `ModificationTidies`: `Spec => []ModifiedBlockIsTidy`;
- `AnalysisImplementsPromise`: `Spec => ImplementsPromise`.

Apart from the types none of them is inductive. `LoopInvariant` (proved as
`InvariantHolds`) adds what the loop relies on:
`OutputsDescribeTail`, the instructions already visited go where TBB, FBB and
Cond say; `OutputsShape`, which of the outputs may be empty; `RememberedJump`,
the remembered jump is still the last instruction, is not to the layout
successor, and has only debug values in front of it until a condition is met
(so that the swap's two new branches are next to each other); and
`StaleEndsInJump`, for the moment after a swap when the outputs still describe
the erased branches: the block then ends in the jump to the layout successor
that makes the next turn reset them. Each action of the loop preserves it; the
two that rewrite the block, `SwapBranches` and `JumpToLayoutSuccessor`, rest on
lemmas about what a block's instructions do when some are removed or exchanged.
Tidiness needs one more invariant, `TidyTail`, the same of the instructions
already visited. For the refinement, each action that edits the block is an
abstract `Rewrite`, each return a `Succeed` or `GiveUp`, and the others stutter;
`SameVocabulary` identifies the operators of the instance with those of the
loop's module, and `EditsKeepBody` shows that no edit moves or drops an
instruction that is not a terminator.

`BranchPlacementProofs`, for every set of blocks, every block and successor
`PlacementInit` allows, and any number of runs of placement:

- `PlacementTypes`: `PlacementSpec => []PlacementTypeOK`;
- `PlacementIsSafe`: `PlacementSpec => []PlacementKeepsControl`;
- `AssertsHold`: `PlacementSpec => []UpdateAsserts`;
- `AlwaysAnalyzable`: `PlacementSpec => []StaysAnalyzable`;
- `NoNeedlessJump`: `PlacementSpec => []NoJumpToNext`.

They follow from `PlacementInvariant`. While an analysis is under way the
invariant is that of the loop, with two facts more: everything visited is
understood (`Visited`), and without modification no destination means no branch
(`PlainOutputs`). Between the choice of a layout and the end of
`updateTerminator` the block may go astray, and the invariant says instead that
there is *some* former successor p in front of which block and outputs agreed
with the block before placement (`UpdateReady`); the successor lists the CFG
keeps are read off the outputs and p (`SuccessorsByOutputs`). Each case of
`updateTerminator` then leaves a block that `Fits` its new successor. For a block
the analysis gave up on, which nothing updates, the argument is that
`canFallThrough` is false only if the block leaves under every condition or
never fell through (`PlaceUnanalyzable`). That `removeBranch` leaves no branch
behind needs the greatest position of an instruction it stops at, which exists by
well-founded induction on sets of numbers (`GreatestElement`). `NoJumpToNext`
needs `TidyPlacement`: during the modifying analysis, once the loop has looked at
the end of the block, the block does not end in a jump to its layout successor.

`WordArithProofs`, for every even size of a byte greater than 1 (`ByteSizeAssumption`):
adding (`AddByBytes`), subtracting (`SubByBytes`), comparing (`CompareByBytes`)
and shifting (`ShiftLeftByBytes`, `ShiftRightByBytes`) two bytes with the carry
passed between them is the operation on words, the carry out and, for
comparisons, sign and zero included. They rest on the uniqueness of division
with remainder. These are the arithmetic facts that `RunsAsWritten` checks at
sample values; that the machine's `Exec` of an expansion composes them is
only model-checked.

`ExpandPseudoProofs`, for every set of programs of any length, all their starts, every
handler and every device, from `ExpandAssumption` and `MachineAssumption`:

- `PassSettles`: `Spec => []Settled`, the limit of rounds is never reached (two are
  enough to expand, the third finds nothing) and no pseudo is in the block that runs;
- `RegistersKept`: if `AllFit`, `Spec => []SteadyKept`;
- `StackPointerSafe`: if `StackPromise`, `Spec => []StackPointerWhole`;
- `DeviceSafe`: if `DevicePromise`, `Spec /\ []StoresInUse => []DeviceWordWhole`;
- `SharedSafe`: if `SharedPromise`, `Spec /\ []StoresApart => []SharedWordWhole`.

The hypotheses are made of conditions in `ExpandPseudo`, before the properties, asked of every
program. `Fits` (`AllFit`: of every
instruction) says that operands are registers where the instruction table says so, and
leaves out the load into its own pointer, which needs a scavenged register.
`WritesStackWhole`, `WritesDeviceWhole` and `WritesSharedWhole` say that a program does
not itself write one byte of what it is to write whole, or push, and that the words it
writes there are in registers it does not change before (`Keeps`), since the properties
name these words by what the registers held at the start. They are conditions on the text of a
program. Where a pointer points is a matter of its run: `StoresInUse`, stores through pointers go
to memory, and `StoresApart`, only atomic stores go to the shared word, through pointers that
held its address from the start. `MCProgramsAsAsked` makes TLC evaluate the former on all
programs of `expand_pseudo`, and `TypeOK` includes the latter.

The inductive invariants are built in layers. `PassInv`: a pseudo has rank 2 if its
expansion holds pseudos, else rank 1, and instructions have rank 0; expansion lowers the rank
(`ExpansionLowers`), so in round r nothing ahead of the iterator is above 2 - r and nothing behind
it is as high. `CodeInv` and `KeptInv`: an expansion touches no register its
pseudo does not touch, but for A in the atomic ones and `SPWRITE` (`ExpansionFollows`), and
neither does any instruction, interrupt or device tick of the run (`ExecKeeps`). Then,
for each of the three words, one invariant says where instructions that write
part of it can be in the block, while it is still being expanded around them,
and another what the machine looks like between two of them:

- `StackCode`: a write to SPL or SPH is the third or the fifth instruction of the five that
  `SPWRITE` became, which no later round tears apart (`Place`, `Together`).
  `StackInv`: between them interrupts are disabled, or the write of the status register that
  enables them has just cast its shadow;
- `DeviceCode`: a byte for the device is half of a pair, the high one first. `DeviceInv`:
  between the two the high byte is in the temporary register; interrupts may be taken
  there, and so may device ticks, and neither changes it;
- `SharedCode`: a store through a pointer of an atomic store is the `STW` behind a `BCLR`, or,
  a round later, one of two byte stores there (`WordStored`, `BytesStored`); this one
  is about code in motion, as `AtomicStore16` takes two rounds. `UntouchedInv`: the pointer and
  the word stored still are what they were. `SharedInv`: between the two stores interrupts
  are off and the low byte is in place.

`BranchRelaxProofs`, for every number of blocks, every function
(`RelaxAssumption`), every size of the bodies and every range of the branches
(`RangeAssumption`), proves all six invariants of `branch_relax`:

- `RelaxTypesHold`: `Spec => []RelaxTypeOK`;
- `DistancesNeverUnderestimated`: `Spec => []VerifyHolds`;
- `NewBlocksStayFew`: `Spec => []OneNewBlockEach`;
- `RelaxationKeepsEveryEdge`: `Spec => [](ControlKept /\ RelaxKeepsControl)`, at
  every step and not only at the end;
- `OffsetsExactUntilRelaxed`: `Spec => []ExactUntilRelaxed`;
- `RelaxedBranchesReach`: `Spec => []BranchesReach`.

`RangeAssumption` is what the numbers 7, 13, 7 and 12 have in common: a
conditional branch reaches over a jump, its field holds every distance the check
accepts, and that of a jump ends where the check does.

The inductive invariant has two parts. `RInv` is the shape of the function, that
new blocks hold a jump and nothing else, and that there is a function `goal` from
blocks to original blocks, which follows new blocks to where they lead, under
which every block goes where it went. Nothing in it depends on the estimates, so
control would be kept, through new blocks (`RelaxationKeepsControl`), even if they
were wrong. `EInv` is about the estimates. Blocks have positions in the function
(`Layout`: a bijection that the successors follow), and in terms of them the
recursion of `From` is solved (`FromIsRest`): the blocks from n on are those whose
position is not before n's. `EstimatesAdjusted` says what one call of
`adjustBlockOffsets` makes of estimates that do not run behind: still such
estimates, exact from the edited block on, and exact wherever they were, but for the
distance to the edited block. So a branch around a jump is four bytes from its
destination whatever is edited elsewhere (`FollowedByNew`), it is never out of range
again (`FixupAsItWas`), and no second new block follows. Edits leave a mark, more
terminators or a new block, which is why the estimates are exact as long as the
code is (`Untouched => Exact`). That every branch reaches needs the last part: in a
pass that has changed nothing so far, every block behind the iterator is in range
(`Scanned`), and an edit, which moves blocks already looked at, sets `changed`. A
true distance lies between 0 and its estimate (`GapsWiden`), on whichever side.

`LoweringProofs`, for every even size of a byte and all operands:
`ComparisonDecides`, the condition `getSNESCmp` returns holds of the flags after
the compare or test it returns exactly when the source comparison holds, and
`WordByWord`, a compare of the low part followed by a compare with borrow of the
high part leaves the flags of comparing the whole. Applied word after word, the
second carries the first to 32 and 64 bits.

And for every set of functions (`FunctionsAssumption`: well formed, with any number of
operations, and free of the constants `SimplifySetCC` folds away):

- `LoweringTypes`: `Spec => []LoweringTypeOK`;
- `PhisMatch`: `Spec => []PhisMatchPredecessors`;
- `EdgesAreExact`: `Spec => []EdgesAreTheCFG`;
- `PhisKnowWhereFrom`: `Spec => []NeverStuck`.

Both inserters split a block in the same way, and the proofs treat them as one
operation, `SplitOf`: the block keeps its head and gets new ends, one new block
has a PHI and the rest, the other goes back. What a split makes of the predecessors
of every block is a lemma (`PredsSplit`), and from it follows `GraphOK`: PHIs lead
their blocks, and each names exactly the predecessors. `LoweringInv` adds that the
layout has every block once, Entry first and Join last (`LayoutOK`), and the types of
the processor's state. In the initial state all this is a fact about the flattened
sequence of the lowered operations (`FlattenSeqSegments` in `SequenceFacts`).

`EdgesAreTheCFG` is not inductive: while pseudos are left, a function that is not
safe may still have all its edges right. `FlowInv` tells what holds instead. In
a safe function (`SafeFlow`) every edge is right, a loop comes before any other pseudo,
in Entry, and no block with a `Select` falls through, so that no split cuts a
fall-through. In any other (`UnsafeFlow`) either an edge is wrong for good, of a block that
has no pseudo left and is not Entry (`Broken`), or a pseudo is left that will make one
wrong: a loop elsewhere than first in Entry (`LateLoop`), a `Select` in a block that
falls through (`FallingSelect`). `ProgressInv` says that the blocks the pass has gone by
have no pseudo left, so that at its end only `Broken` remains. `FromInv`, for the
run: control has come by an edge of the machine CFG, and passes the end of a block
only where the block falls through; with `PhisMatchPredecessors` that is `NeverStuck`.

`CallSequenceProofs`, for every set of signatures and results and every
`StackTop` that satisfy `StackIsLarge` and `WordsOnStack`, aggregates and wide
results included:

- `CallStackBalanced`: `Spec => []StackBalanced`;
- `CallPreservesA`: `Spec => []CallPreserves`;
- `CallPushesInPlace`: `Spec => []PushesStoreInPlace`;

and, if also `ScalarArguments`:

- `CallNeverMixed`: `Spec => []NeverMixed`;
- `CallArgumentsInPlace`: `Spec => []ArgumentsInPlace`;
- `CallEmitsEveryValue`: `Spec => []EmitsEveryValue`;
- `CallTypes`: `Spec => []CallTypeOK`.

`StackBalanced` and `CallPreserves` are equivalences: the one says that a call comes
back whole if the callee saves nothing, and only then; the other how much of A is
left, before and after the release of the frame. `ArgumentsInPlace` says that the
bytes are where the offsets lead from SP, and that the code does not name SP.

The hypotheses are in `CallSequence`, and they are about what is passed, not about
what becomes of it; `MCAssumption` makes TLC evaluate them on the instances of the runs.
`StackIsLarge`: the stack does not overflow, which nothing in the code looks at.
`WordsOnStack`: no i8 goes to the stack, because `PHA` pushes two bytes for it and
the analysis counts one (the hazard at `SNESFrameLowering.cpp:351`).
`ScalarArguments`: an argument is one integer or nothing and no result is wide.
With a wide result the two sides disagree (`call_wide`). With an aggregate the
caller counts an argument for each field and the callee one for all (the hazard
at `SNESISelLowering.cpp:884`). `CallEmitsEveryValue` is the complement of
`call_wide`'s violation.

The inductive invariant is `CallInv` (`CallInvariant`). Its centre is
`Assigned`: after `n` arguments, that is `m` pieces, the registers left, the
registers allocated, the stack offset and the locations are functions of the
pieces alone. `InRegs`, the number of pieces that go to registers, is the end of
the last argument that ends within three pieces, and piece `k` lies in register
or stack slot according to whether `k <= InRegs` (`Placed`). So two sides that count
arguments differently but agree on where arguments end put every piece in the
same place, and that is how `ArgumentsInPlace` relates the caller's `called` to
the callee's `locs`. That counts of pieces end where arguments end is `Counted`;
`ParseInv` says it of the caller's counts as they grow, which needs that a new
argument, and only that, restarts `partOffset`, and for the callee
it follows from the types, if each argument has one scalar at most. From the
first push on `RunInv` says, for each place in the code, where SP is relative to
`StackTop`, which stack bytes are written (`StoredAfter`) and what A and the other
registers hold: between the restore and the return, when the callee has saved A,
SP is a byte below the return address, and what the return pops is the high
byte of the saved A and the low byte of the address, which are not the address.

Only model-checked: termination (`Finishes` and the other liveness properties are outside
the prover's reach); `TypeOK` of `ExpandPseudo` and `RunsAsWritten`, for which every result of
`Exec` would have to be computed, those of AND, OR and XOR included, which fold the bits
of their operands; and `ReturnsSourceValue`, the value a lowered function
returns, whose reference definition folds shifts by powers of two. The provers
have no theory of powers of two, and what such a fold computes is shown by induction over data.

## Where the code departs from what it says

Six runs end in a violation, listed above and quoted with their lines in
`PROJECT.json`. The models of the expansion, the call, the relaxation and the lowering
show nine more, which are stated as exact properties of what the code does instead:

- `expandLogicImm` is written for instructions of one byte (`SNESExpandPseudoInsts.cpp:210`,
  "ANDI Rd, 0xff is redundant."; `SNESInstrInfo.td:933-953`) and builds ones of 16 bits that
  act on A (`SNESInstrInfo.td:548-560`). ANDIW is right for 0 and 65535, ORIW for immediates
  below 256 (`MCLogicImmediates`), on A; on X or Y both change A instead, which is why `Keeps`
  counts them among the instructions that do.
- `restoreCalleeSavedRegisters` is to "restore all callee saved registers"
  (`include/llvm/Target/TargetFrameLowering.h:193`). It emits one `POPRd` (`SNESFrameLowering.cpp:301`), a byte,
  for the 16 bits of the `PHAstk` that saved the register (`:271`). A callee that saves A returns to
  an address made of a byte of A and a byte of the right one (`StackBalanced`,
  `CallEnds`), with the high byte of A changed (`CallPreserves`).
- `CSR_Normal` has A preserved by a call, and the caller itself, after it, takes its
  arguments off the stack through A (`SNESFrameLowering.cpp:413`), which `ADJCALLSTACKUP` does not
  declare (`SNESInstrInfo.td:644`): `CallPreserves`, at `done`.
- `eliminateFrameIndex` makes A the base of the callee's loads from the stack
  (`SNESRegisterInfo.cpp:101`), with the offset from SP that the comment above
  describes. Nothing puts SP into A, which at that point holds an argument, or
  what the caller had there (`ArgumentsInPlace`).
- `BranchRelaxation.cpp` calls a block's `Offset` its distance from the
  beginning of the function. `adjustBlockOffsets` begins at the block it is
  given, and unless that is the first block adds its size to its own offset.
  After a fixup elsewhere the estimates run ahead (`ExactUntilRelaxed`): branches
  are relaxed that reach, and the pass may give up, in the unimplemented
  `insertIndirectBranch` (`TargetInstrInfo.h:510`), on a jump that reaches.
- `isBranchOffsetInRange` accepts for a jump back the whole of its range, one
  word of which the encoding does not have (`BranchesReach` has that exception).
- The field of a branch counts words (`adjustBranchTarget` shifts the distance), and
  the instruction table has instructions of one byte and of three
  (`SNESInstrFormats.td:28`, `:46`). Over a body of odd length a branch can only name
  the word its destination lies in, which is what `BranchesReach` says it does.
- `insertShift` puts its two blocks behind the function's first block
  (`SNESISelLowering.cpp:1494`), wherever the shift was, and so cuts blocks from
  those they fall through to.
- The diamond of a select (`SNESISelLowering.cpp:1636`, "insert the diamond
  control-flow pattern") puts the false block behind the true one, which gets the
  rest of the old block: if that fell through, it now falls into the false block,
  which jumps back.

`Safe` in `Lowering` says which functions are free of the last two; `lowering`
checks that it is exact.

One more departure has no run. `TargetInstrInfo.h:523` says of `analyzeBranch` "If this
block ends with a conditional branch and it falls through to a successor block,
it sets TBB to be the branch destination block". For `rjmp B1; breq B2` the non-modifying analysis succeeds with
the condition EQ and TBB = B1: the jump overwrites TBB (`SNESInstrInfo.cpp:301`) and only a
modifying analysis clears Cond. `JumpUnmodified` models this; `Init` gives such
a block, whose branch is dead, to modifying analyses only.

## External behaviour assumed

The processor and its surroundings are not in the repository. The model takes
from how the expansions use them: interrupts are not taken in the instruction
after the one that writes the status port, as `SPWRITE` relies on; a subtraction
with borrow keeps Z only if it was set, as `CPC` chains rely on; reading the low
byte of a device register latches the high byte and writing the low byte
commits both, as the comments on `STSW` and `OUTW` say; the numbers of the flag
bits, of which only 7 (interrupts, `BCLRs 7`) matters. A handler restores every
register and flag.

## What is not modelled

The `components` of `PROJECT.json` give a status and a reason for each part.
Within the expansion pass: `PUSHWRr` becomes one `PHAstk`, whose operand is 16
bits wide, and `POPWRd` two `POPRd`; the two do not form a pair at the widths
the table gives, so no checked program pushes. The same holds for a 16-bit load
into its own pointer, which pushes a temporary register. The early-clobber
constraint on `LDWRdPtr` keeps that expansion away except inside
`AtomicLoad16`. Of calls: the reserved call frame (its stores go through A, which nothing sets
to SP, as in `ArgumentsInPlace`), variadic and indirect calls, i8 arguments on
the stack (PHA pushes two bytes for an offset of one), the frame analyzer and
the dynamic alloca pass (aggregates passed by value have their pieces in the model and
in the theorems, and no run takes one), and frames with objects of their own, as the prologue
that would allocate them is commented out. Of the relaxation: splitting a block at an
instruction (`splitBlockBeforeInstr`), which only a block with more than one
conditional branch needs and the hooks do not analyze such a block; indirect
branches, which the target does not implement; alignment and inline assembly. Of
the lowering: rotates, which go through the carry and whose meaning their
patterns leave open; `insertMul`; addressing; and which of two patterns with the
same left-hand side the selector takes. What a function that is not `Safe`
computes is not stated: it depends on where its blocks happen to fall. Kill and dead flags, memory operands
and relocations of global addresses are left out, and so is the register
allocation, which decides what the scavenger may return.

## Plan

Done: `SNESBranches`, `BranchAnalysis` with `AnalyzePromise` and its proofs,
`BranchPlacement` (over `BranchAnalysis`) with its proofs, `BranchRelax` (over
the same hooks) with its proofs, `WordArith` with its proofs, `SNESMachine`,
`ExpandPseudo` (over both) with its proofs, `CallSequence` with its proofs, `Lowering` (over `WordArith`) with
its proofs.

Next, in this order:

1. `Fixups`: the byte a modifier selects when the operand is known at encoding
   (`SNESMCExpr::evaluateAsInt64`), at layout (`evaluateAsRelocatableImpl` and
   then `adjustFixupValue`, which both select) and only in the linker. Read side
   by side they differ: at layout the modifier is applied twice, and a negated
   program memory modifier negates before the shift or after it. Branches are not
   part of this: their fixups always become relocations of value 0.
2. The rest of the frame: the reserved call frame, the memory relaxation pass,
   variadic functions and aggregates in `CallSequence`.
3. Proofs: the expansions of arithmetic pseudos executed by `Exec` equal
   `WordStep`, from `WordArithProofs`; the values in the registers of a lowered
   function, from `RunInv` and `ComparisonDecides`.
