# A verification of ACRIiL

ACRIiL makes a C program restartable. An LLVM link-time pass
(`src/lib/Transforms/ACRIiL/`) finds the outermost loops of `main`, works out
which values are live at their headers, and inserts, before each header, a
*checkpoint block* that saves those values and a *restart block* that brings
them back. The blocks call a small runtime (`src/acriil_dyn/`) that keeps one
directory per checkpoint on disk. When the program is launched again it looks
for the newest valid checkpoint and jumps to the restart block of its label.

The TLA+ modules here model the whole way: the runtime, its files, the pass's
analyses and its transformation, and the transformed program when it is run,
killed and restarted. TLC checks them on small instances. TLAPS proves, for
every program, number of launches and schedule of failures, that the runtime
implements a resumable program; for every content and every torn write, that
its files are read back as they were written or turned down; and for every
function, what the analyses of the pass find, what a checkpoint block saves and when
`fixDominance` asks for a mapping that is not there.

## Inventory

| Component | State | Operations | What makes it correct |
|---|---|---|---|
| Runtime: checkpointing (`ACRIiLState.cpp`, `checkpoint.cpp`) | `checkpointing`, `currentCheckpointEnabled`, the two counters, interval and next time, the epoch directory | `__acriilCheckpointSetup`, `Start`, `Pointer`, `Alias`, `Finish` | a directory that passes for a checkpoint holds all of one visit; a complete one is never written again; a due one is taken |
| Runtime: restart (`restart.cpp`, `ACRIiLState.cpp`) | directory, argument index, table of restored addresses | `__acriilRestartGetLabel`, `CheckpointValid`, `ReadPointer`, `ReadAlias`, `Finish` | the checkpoint chosen is the furthest one; what was accepted can be read; memory is that of the visit |
| File format (`checkpoint.cpp`, `restart.cpp`) | one text file per variable, one info file | writing, validating, reading back | what was dumped is read back, bit by bit; a torn file is turned down |
| Pass: analysis (`CFGFunction.cpp`, `CFGNode.cpp`, `CFGUse.*`, `CFGUtils.cpp`, `CFGModule.cpp`) | nodes with use, def, in, out, live values and mappings; blocks to checkpoint | `findCheckpointPoints`, `setUpCFG`, `doLiveAnalysis`, `setUpLiveSetsAndMappings` | the live sets are exact, the iteration ends, no checkpointed block has PHI uses |
| Pass: pointer analysis (`CFGFunction::pointerAnalysis`, `ACRIiLPointerAlias.cpp`) | sizes and alias set of every pointer | three fixpoint loops | it ends; a pointer's targets are in its alias set |
| Pass: transformation (`acriil.cpp`, `ACRIiLAllocaManager.cpp`) | labels, slots, the map to restored values | `createCheckpointAndRestartBlocksForNode`, `insertRestartBlock`, `fillCheckpointAndRestartBlocksForNode` | both blocks use the same slots in the same order, targets before aliases |
| Pass: `fixDominance` (`acriil.cpp`, mappings in `CFGNode.cpp`) | PHI nodes, live mappings | add, fill, clean up | every use is dominated again; every mapping asked for exists |
| Registration (`PassManagerBuilder.cpp`, `InitializePasses.h`) | none | LLVM's files, a line each | – |
| Test programs (`acriil_dyn/*.c`) | – | inputs of the tool | – |

How they interact: the pass calls nothing of the runtime, it emits the calls.
The transformed `main` calls `__acriilRestartGetLabel` and
`__acriilCheckpointSetup`, then a restart block (one read per slot, then
`__acriilRestartFinish`) or the program; when it comes to a checkpointed header
over the edge that the pass has redirected it first runs that header's checkpoint block
(`Start`, one call per slot, `Finish`). A header with PHI nodes has one such edge and no
other; of a header without, only the first predecessor's edge is redirected, and
what comes from the others passes the block by (run `one_predecessor`). The
runtime's fields and the files are all that these calls share.
Inside the pass each part takes the result of the one before: sizes and alias
sets of pointers, then live sets and mappings, then blocks and slots, then
PHI nodes. Nothing is concurrent within a process. The behaviours that are
hard are death between any two calls and inside one, directories left half
done by any of the earlier launches, failing `mkdir`, writes and clock, the
order of directory names against the order of progress, a flag, a counter and
a directory that survive from one checkpoint to the next, and pointers that
have to point into rebuilt memory; and for the pass three kinds of iteration
that must end and not too early, sets that are walked in the order of
addresses in the compiler, a recursion over alias sets, and edges into a loop
that the analysis never saw, over which every value has to arrive. `PROJECT.json`
lists each at its line.

## Modules

| Module | What it is | Uses |
|---|---|---|
| `CheckpointRestart` | the runtime, the disk, the clock and death | instantiates `Resumable` |
| `Resumable` | what checkpoint and restart promise | |
| `CheckpointFile` | the text of the files | |
| `LiveAnalysis` | `setUpCFG` and `doLiveAnalysis` | |
| `PointerAnalysis` | `pointerAnalysis` | |
| `Transformation` | the rest of the pass, and the program it makes | extends `LiveAnalysis` |
| `AddressOrder` | the order in which a set of pointers is walked | used by the two above |
| `MCCheckpointRestart`, `MCPointerAnalysis`, `MCShortCircuit`, `MCTransformation` | the instances | |
| `CheckpointRestartProofs`, `ResumableProofs` | theorems about `CheckpointRestart` | the second extends the first |
| `CheckpointFileProofs` | theorems about `CheckpointFile` | uses `Iteration` |
| `LiveAnalysisProofs`, `TransformationProofs`, `FixDominanceProofs` | theorems about `LiveAnalysis` and `Transformation` | each extends the one before |
| `PointerAnalysisProofs` | theorems about `PointerAnalysis` | uses `Iteration` |
| `Iteration` | lemmas about recursive functions, and about walking a set | extends `AddressOrder` |

**`CheckpointRestart`** is the core: one process with the runtime, the disk,
the clock, and an environment that kills and launches. The fields of
`ACRIiLState` are variables of nearly the same name (`enabled` is
`currentCheckpointEnabled`, `argIndex` the checkpoint's argument counter,
`table` is `restartPointerAliasAddresses`, `base` and `restartDir` the two
directories). Each `__acriil` function is one action, with the calls it makes
to `ACRIiLState` in it; `SkipVariable` is the early return of the two functions
that write a variable. `__acriilCheckpointStart` is split by outcome
(`StartNotDue`, `StartDisabled`, `StartNoDirectory`, `StartDirectory`). The
emitted blocks are the control: `pc` and `arg` say which call comes next.

The program is deterministic and given by constants: the order in which it
passes its headers by way of their checkpoint blocks, the slots of each header, which of them are aliases, the
candidates the pass offers for an alias and where it really points. The content
of a slot is abstract: the visit its data was computed at, or the slot a pointer
points to. `Reach` computes the next visit's memory from this one's, and
garbage from garbage, so a wrong restore cannot repair itself. The file of a
variable is readable or not; `CheckpointFile` is about what that means. A
checkpoint remembers the visit it was made at in a field the code does not
have; only properties, and the `pc` a restart block jumps to, use it.
`Crash` is possible between any two calls and in the middle of those that
make directories; a write that was cut short is the `FALSE` outcome of the
write. `Reboot` sets the clock back and is in `RebootSpec` only.

**`Resumable`** is what checkpoint and restart promise: a program that is at
some visit or down, and a saved visit it resumes at, exactly, and that is never
lost. `CheckpointRestart` refines it (property `Resumes`) with
`at` the visit if memory is right, and `saved` the visit of the furthest valid
checkpoint.

**`CheckpointFile`** is the file format on its own: text as a sequence of the
word, numbers and bytes, `std::istream` as a position with fail and end
flags (modelled from its use, external), writers, validation and readers
item by item. `Tear` leaves any beginning of a file, or a number with fewer
digits. `std::ws` on a stream that is at its end fails with the libstdc++ of
GCC 11 and later and does not with earlier ones: both are run.

**`PointerAnalysis`** is `CFGFunction::pointerAnalysis`: three loops over sets
of pointers, one action per pointer visited and one per end of a pass
(`VisitPointer`, `VisitSizePhi`, `VisitPhi`; `EndSweep`, `EndPhiSweep`,
`EndAliasPass`), and the ways it stops the compiler (`NotSupported`, and
`NoAllocationSize` for a `calloc` or an alloca whose number of elements is no constant). A set of instructions is walked in the order of their
addresses (`Walk` of `AddressOrder`); that order is part of the input and every one is tried. So are
AliasAnalysis's answers, which are true of the run: `holds` is the set of what
the PHI nodes hold together in some round of the loop, and `noAlias` may only
have pairs that are never equal in one of these.

**`LiveAnalysis`** is the analysis of the values: `SplitBasicBlock` and
`AddNodes` are `setUpCFG` (with the constructor of `CFGNode` as `NewNode`),
`VisitNode` and `RepeatPass` the loops of `doLiveAnalysis`, one node at a time.
A CFGUse is a value and a source block; `SameKey` is its `operator<`. Sizes and
alias sets are part of the input, LLVM's `splitBasicBlock` and `LoopInfo` are
modelled from their use.

**`Transformation`** goes on where `LiveAnalysis` ends, and `step` says how far
it is. "blocks": a checkpoint and a restart block for each checkpointed block
(`CreateCheckpointAndRestartBlocks`, in any order, because it is a set of
addresses, and with any first predecessor), then the switch
(`InsertRestartBlock`). "fill": the recursion of `checkpointRestoreLiveValue`
as a stack of calls `work`; `AddSlot` puts the two calls of one value at the
ends of both blocks. "phis", "update", "cleanup": the three steps of
`fixDominance`, with the lookup that goes past the end of a map as an outcome
(`NoMapping`, then "undefined"). "run": the transformed `main` takes any way
through its blocks (`RunBlock`), and may be killed and launched again
(`RestartFromCheckpoint`). What it computes is not modelled; it is compared
with the original: `holds` has the pair ⟨w, v⟩ when the name w in the new
function holds what v has in the original now. A PHI node makes new pairs, an
instruction makes those of what it replaces stale, and a restored name holds v
if the newest checkpoint was given something that held v. `GivenCurrent` says
that an instruction's operands hold what the original's do.

**`MCTransformation`** has every function of one shape, and small functions
with pointers as `PointerAnalysis` leaves them: `Swap` (two pointers that
change places, as in `vecadd_ptrswp.c`), `Into` (a pointer derived twice, the
last one by a GEP, a load or as an argument), `Renewed` (an array allocated
anew by the loop, before or after its use), `Chosen` (a pointer to one of two
arrays), `Unused` (a PHI node that nothing uses, for an array whose size is an argument).

What one module assumes another shows: `OrderAssumption` of `CheckpointRestart`
(candidates of an alias have lower slots) is `SlotsInOrder` of
`Transformation`; that a checkpoint block saves every live variable is
`LiveSaved`; the condition on alias sets in `TransformationAssumption` (without
it `addPointerUses` does not return) is what `RecursesForEverOnlyIfChanged` of
`PointerAnalysis` tells about; that a valid checkpoint can be read
(`CheckpointRestart` has files that are readable or not) is `ValidIsReadable`
of `CheckpointFile`. All four are theorems.

## Runs

| Run | Expected | What it shows |
|---|---|---|
| `core` | pass | two loops, one swapping arrays under a carried pointer (as `vecadd_ptrswp.c`), one with an alias of an alias; intervals 0, 1, unset and unparsable; killed anywhere, three launches. All safety properties, the refinement, and `Completes` under fairness |
| `faults` | pass | the smaller program with failing files, directories and clock, and a checkpoint given up for an alias in the middle |
| `reboot` | pass | what still holds when the clock starts again between launches |
| `file` | pass | all contents of up to three bytes of two bits, all torn states, both libraries |
| `transform` | pass | the whole pass over every function of three blocks with one value, one PHI node and one use, and over the pointer functions in two orders of addresses; then the result is run, killed and restarted. Live sets are exact and mapped, both iterations end, the pass exits for exactly the functions with a pointer it cannot save, slots are in order, every instruction is given what the original's is |
| `pointers` | pass | three PHI nodes passing three allocations round in every way, and chains of derived pointers, in every order of addresses and with three degrees of alias information: which alias sets are complete, for what the loops and the recursion over their result end |
| `abandoned` | violation | a given-up checkpoint that is complete on disk is used |
| `wedged` | violation | after one given-up checkpoint no other is made |
| `rebooted` | violation | after a reboot restart prefers an older checkpoint |
| `file_space` | violation | data that starts with white space is taken for the separator: read shifted by a byte, or turned down |
| `phi_twice` | violation | a value a PHI node takes from two blocks is live in one |
| `one_predecessor` | violation | of the predecessors of a header without PHI nodes only one is sent through the checkpoint block |

`findings` in `PROJECT.json` quote the lines the last six disagree with.

Three of the properties that hold have a condition, and what breaks them without it
is a fact about the code:

* `GivenWhatIsCurrent` is about functions in which nothing but live values is
  saved (`OnlyLiveSaved`). The recursion also saves whatever a pointer may equal.
  For an array that the loop allocates anew (`Renewed`) the checkpoint block, at
  the start of the loop, is given a value that is computed later.
* `UndefinedIfMappedNowhere` says exactly when `fixDominance` looks up a mapping
  that is not there: when an argument, or a value of which `addPointerUses` made a
  use before its definition, is live after the entry block or taken from it by a PHI
  node, as the moved entry block maps only what it defines. (Or when `PhiSourcesMapped`
  fails, which is `phi_twice`.) The size of a pointer that a PHI node takes is recorded
  like the pointer, but no place of the PHI node takes it, so it is not looked up if
  nothing else needs it: in `Unused` an argument is such a size, and the pass succeeds.
* `TargetsFoundUnlessToldApart`: a PHI node of a loop takes over another's alias
  set but for what AliasAnalysis calls NoAlias with it, and removes the other PHI
  node from its own even when it took nothing. When three pointers rotate through
  three PHI nodes and NoAlias is answered for two PHI nodes, which are indeed
  never equal in one round, pointers that the one gets from the other a round
  later are lost from its alias set.

### Bounds

`MaxVisit` (visits of a complete run), `MaxVars`, `MaxTime` (ticks),
`MaxLaunches` and, in the other modules, the sets of sizes, bytes and blocks.
Three visits of two labels make two checkpoints of one label, one of another,
and a restart into each; three launches make a restart from a checkpoint that a
restarted process made, over what two dead processes left. The last launch is
not killed: without that bound there is no end to dying. Three ticks put
launches in the same and in different epochs and let an interval be due and
not due. `faults` has two ticks fewer and two slots because every file
doubles the outcomes. Two-bit bytes have two white-space values (line break
and other) and two others, and element sizes below, at and above a byte.
Three blocks (up to six after splitting, and two more for each to checkpoint)
contain an if, a loop, nested loops and a loop with two latches; seven values
allow two pointers with sizes that are PHI nodes themselves. One value suffices
for the exactness of live sets, as values are independent but through pointers,
which is what the pointer functions are for. Three PHI nodes are the fewest that
rotate (two only swap), and after six rounds three of them have held all they
ever will.

Deadlock is not checked: each of the systems stops (program complete and no
launch left, file read, analysis done).

### Fairness

`FairSpec` of `CheckpointRestart` has weak fairness of the process's own steps
(`Run`: it is sequential and waits for nothing) and of `RestartGetLabel`, which is an
assumption on whoever launches the program. There is none of `Crash`, `Tick` or
`Reboot`. `PointerAnalysis` and the pass in `PassSpec` are sequential loops of the
compiler: weak fairness of their next step (`Next`, `Analyse \/ Pass`). There is
none of `RunBlock`, as the user's program may run for ever, or of
`RestartFromCheckpoint`.

## Proofs

### The runtime

`CheckpointRestartProofs` proves, for all constants that satisfy the
assumptions of `CheckpointRestart` and for all schedules of `Spec`:

* `TypeCorrect` : `Spec => []TypeOK`
* `ValidStaysUntouched` : `Spec => CompletedUntouched`
* `NewestFurthest` : `Spec => []NewestIsFurthest`
* `RestartCompletes` : `Spec => []NeverAborts`
* `RestartKeepsMemory` : `Spec => []MemoryIntact`, if every alias of the program
  points to the start of one of its candidates (`AliasesFound`). Without that
  `MemoryIntact` is false, which is what `abandoned` is about.

None of the invariants is inductive; they are strengthened in layers, each
relative to the ones below, and each was checked by TLC before it was proved.

1. `Typed`: types, and what each `pc` says of the other variables (`Phased`):
   that a process has made fewer checkpoints than it has passed headers, that a
   block's `arg` does not pass the label's size, that the restart index follows
   `arg` and the directory it reads is valid, that `argIndex` follows `arg` and
   the directory exists while a checkpoint is being performed.
2. `Recorded`: every checkpoint directory, valid or not, has the label, the size
   and the kinds of file of the visit it was made at, and in the one being
   written the files still to come are not there; so a valid one can be read by
   the restart block of its label.
3. `Ordered`: `Named` (every checkpoint's epoch exists, none is ahead of the
   clock), `Own` (a process that makes checkpoints has the newest epoch, and no
   number in it beyond its counter), `Resuming` (the checkpoint it restarts from
   is the furthest of the valid ones), `Ahead` (no valid checkpoint is at a later
   visit than the process) and `NewestIsFurthest`. The order of names is the
   order of progress because a process resumes at the furthest checkpoint, and
   what it makes comes after that in both orders; without `Resuming` and `Ahead`
   the step that writes the last file of a checkpoint has nothing to be
   compared with.
4. `Remembered`: the body of every file is what its slot held at the visit of
   its checkpoint, an alias referring to an earlier slot with the same address;
   the restored variables and the table agree with it up to `arg`; memory is
   right while the program runs.

A reboot sets the clock back, and of the four layers only `Ordered` is about the
clock. So layers 1, 2 and 4 are invariants of `RebootSpec` as well, and
`ValidUntouchedByReboot`, `RebootRestartCompletes` and `RebootKeepsMemory` (with
`AliasesFound`) follow; `NewestIsFurthest` is false there (`rebooted`).

`ResumableProofs` proves `ImplementsResumable`, that `CheckpointRestart` implements
`Resumable` under `AliasesFound`. The mapping takes the greatest visit of the
valid checkpoints (`Made`), which exists because the visits are bounded. A step
leaves `Made` alone or adds the visit the process is at, which `Ahead` makes the
greatest; `Resuming` says that a launch resumes at the greatest; `Remembered`
that it has the memory of that visit.

The last sections of `ResumableProofs` are about machines on which files and directories
do not fail (`NothingFails`) and programs with `AliasesFound`:

* `DueIsPerformed`: if the clock does not fail either, a checkpoint that is due
  is made (`DueIsTaken`). The invariant is `Fresh`: the directory of the next
  checkpoint is not there, because no checkpoint is ever given up, so every
  directory of the epoch has a number below the counter.
* `AlwaysDueLosesNothing`: with an interval of 0 the header passed last has a
  valid checkpoint (`NothingLostWhenAlwaysDue`). The invariant is `Prompt`: a
  checkpoint is always due, it stays enabled from `Start` to `Finish`, and the
  files it has written can be read.

### The files

`CheckpointFileProofs` proves, for every size of a byte, all shapes, contents and
references, both libraries, and a write that stops anywhere:

* `ValidFilesReadable` : `Spec => []ValidIsReadable`
* `FilesRoundTrip` : `Spec => []RoundTripUnlessAmbiguous`

The inductive invariant `FileInv` says that the text on disk `Begins` the whole text
(item by item the same, but for a last number with fewer digits, which is not 0 as a
number only loses a digit when it has two), that the phase is what the readers say of
it, and that memory is what they make of it. The rest is about the readers. `LineIs` takes
the stream over one field and the line break after it, and the header is four such steps:
the stream has then read the fields and stands where the data begins, or it has met the
end. From this, `PointerValid` and `AliasValid` say that a text found valid has a header
that is whole and as much behind it as its fields announce, and `PointerWhole` and
`AliasWhole` that a whole text is found valid. `DataIs` is about the bits: the loops count
bytes by `i < total_bits`, so only the last byte can have bits beyond the variable,
and `MergedIs` says what the mask does to that one. What `Ambiguous` excludes
is exactly what the argument cannot do without: that the data does not begin with white
space, that a number was not cut short where an early library does not object to the end
after it, and, with a late one, that there is data at all.

### The pass: live values

The loops of the pass that go over a list (instructions, incoming values, a set in the
order of addresses) are recursive functions on `0 .. n`. `Iteration` has what the proofs
need about them, by the least counterexample, since a set of numbers has a least element:
that such a function has a value after every step (`Iterated`), that what holds
at first and is kept by a step holds at the end (`UpTo`), and that `Walk` meets every
member of a set and nothing else (`WalkIs`).

`LiveAnalysisProofs` first proves `LiveValuesMapped`: `LiveMapped` for every function. The
iteration stops after a pass over the nodes that changed nothing; that this is
enough is the invariant `SolvedSoFar`: as long as a pass has changed nothing, every
node it has visited satisfies its two data-flow equations, so when it ends all do.
An edge of the graph then takes a live value to a mapping in the predecessor. `Flow`,
`Noted` and `Named` say that blocks, edges and nodes belong together, before and after
each split.

Then it is about what the sets hold:

* `LiveTypes` : `Spec => []TypeOK`
* `NothingDeadRecorded` : `Spec => []NothingDead`
* `NoPhiSaved` : `Spec => []NoPhiCheckpointed`
* `AllLiveRecorded` : `Spec => [](OneSource => AllLive)`
* `PhiSourcesHaveMappings` : `Spec => [](OneSource => PhiSourcesMapped)`

The invariant `SetsInv` adds two parts to that of the first theorem. `Coded` is about the
splitting: a block that still has PHI nodes and more than those is not one to checkpoint, and
one that took the rest of another has no PHI nodes. `Recorded` says that every node
`Describes` its block (the constructor of `CFGNode`, instruction by instruction: what is
used before a definition, what is defined, the pointer uses through alias sets), and
that `in` and `out` are sound: a use in `in` is live, or needed on the edge
it names; one in `out` is live in, or on the edge to, some successor. That nothing
recorded is dead follows, as every path that makes the use live is extended by one
edge at a time. For `AllLive` the blocks a value is recorded at are shown to contain the
least solution of the equations that "live" is defined by. `OneSource` is necessary: the
sets keep one of two PHI uses of a value that come from different blocks, which is the
finding of `phi_twice`; it asks that no block takes a value over two edges unless the
value is live there anyway. It is about the program alone, and every function of run
`transform` satisfies it.

### The pass: blocks and slots

`TransformationProofs` lifts these to the whole pass (`PassValuesMapped`,
`PassLiveTypes`, `PassNothingDead`, `PassAllLive`), whose later steps leave the analysis
alone, and proves:

* `SplitBlocksPointed` : `PassSpec => []PointsAtCheckpointIfSplit`, that a checkpointed
  block with a single predecessor is entered by its own checkpoint and restart
  blocks alone, whatever is checkpointed before or after it. The invariant is
  `Redirecting`: no edge is ever added between the blocks that were there, and none
  is left into a labelled block that had one predecessor. `Named` keeps the names of
  added blocks apart.
* `SlotsAreInOrder` : `PassSpec => []SlotsInOrder`, what `CheckpointRestart` assumes of
  the slots of a label.
* `AllLiveSaved` : `PassSpec => []LiveSaved`.

For the last two, the recursion of `checkpointRestoreLiveValue` is the stack `work`, and the
invariant has to speak of calls that have not returned: `WorkInOrder` says that what a
pointer waits for has a slot already or is above it on the stack, so that when the pointer
is reached all its sizes and targets have slots; `LiveReady` that a live
value has a slot or is somewhere in `work`; `Restored` that the restart node's mapping follows
the slots. The order of addresses, in which all of these are walked, is arbitrary.

### The pass: types and `fixDominance`

`FixDominanceProofs` proves, of the whole pass and of the main it makes:

* `PassTypes` : `PassSpec => []PassTypeOK`. The invariant is `TypesInv`: `Shaped` (what
  the blocks and their nodes share, and which blocks are there at which step) and
  `Running` (where the transformed main is, and that what its names hold has a meaning
  in the original).
* `LookupFails` : `PassSpec => [](step = "undefined" => MappedNowhere \/ ~PhiSourcesMapped)`
* `UndefinedExactly` : `PassSpec => [](OneSource => UndefinedIfMappedNowhere)`. The second
  half, that a main with something `MappedNowhere` is never fixed, needs `OneSource`, as
  a value that is live but not recorded is not looked up.

What is looked up is found in the block an edge comes from, and edges and mappings are
made by all the steps before; so there are three layers.

1. `Verified` is what LLVM's verifier says of main: nothing jumps to the entry block, a PHI
   node takes values from predecessors of its block, and two instructions of its block do
   not have its result. A split keeps it (`VerifiedSplit`), which is where `splitBasicBlock`
   renames the blocks that PHI nodes take values from.
2. `PlacesInv`: an edge into a block of main is one of main or comes from the block's
   checkpoint or restart block; an edge into a checkpoint block was one into its
   checkpointed block (`Built`, and after the code of the entry block has moved `Wired`). Each
   node maps what the analysis found, and the moved entry block what it defines, to the end.
3. `NamesInv` follows the PHI nodes. `PhisKnown`: those of a block are the ones of main, with
   the places they had, or new ones with a place for each predecessor, so that a name and an
   index tell a place (`SamePlaces`). `ScheduledFound`: a scheduled value is mapped
   in the block its place is for, unless it is one of the two exceptions. `AskedScheduled`: what a
   successor asks of the moved entry block is scheduled already, or the successor's turn
   is to come and its PHI nodes still take what they took in main (`Original`). When step 1
   is over the second case has gone, so a step 2 that finds all it looks for has found
   everything asked of the entry block there.

The property is about the values that PHI nodes take themselves (`TakenFrom`), not about
all that is needed on an edge: in `Unused` a size is needed there, is mapped nowhere and
is never asked for. The assumptions on PHI nodes and names that the argument uses are
`VerifierAssumption` and `VersionAssumption` of `Transformation`.

### The pass: pointers

`PointerAnalysisProofs` proves the six safety properties of `PointerAnalysis`, for all functions,
all orders of addresses and all true answers of AliasAnalysis, from the invariant
`PointersInv`, which says phase by phase what a loop has dealt with and what is left:

* `PointersTyped` : `Spec => []TypeOK`
* `PointersRooted` : `Spec => []DoneOnlyIfRooted`. A pointer that the loops over
  unknown sizes have let go has a size, and something with a size is computed from
  allocations and `argv` only.
* `PointersSizesFollow` : `Spec => []SizesFollow`. However often a PHI node of sizes is
  visited, a block gets one entry (`EntriesOf`).
* `PointersResolved` : `Spec => []PhisResolved`. In a pass that has changed nothing, the PHI
  nodes visited have none in their alias sets (`SweepLeft`).
* `PointersTargetsFound` : `Spec => []TargetsFoundUnlessToldApart`. The third loop replaces a
  PHI node in an alias set by what that one holds at the moment, which may be PHI nodes again;
  what is not lost is a value on its way. `Traced` says so of a run: what a PHI node
  holds in round i is in its alias set, or a PHI node is in there that held
  it in an earlier round. At the end no PHI node is left, so it is the value.
* `PointersRecursion` : `Spec => []RecursesForEverOnlyIfChanged`. The recursion goes
  from a pointer to another in its alias set. Where no loop carries a changed pointer the
  edges of the recursion are edges of the computation and have no cycle. Where one
  does, and AliasAnalysis has told nothing apart, `Covered` (every set closed under
  alias sets has what the PHI node may take) gives the cycle.

### What is assumed

Each module's `ASSUME`s are what its constants are in the code, and TLC evaluates them
on the instances. Those the proofs lean on:

* `CheckpointRestart`: candidates of an alias have lower slots (`OrderAssumption`,
  which `SlotsAreInOrder` shows of the pass).
* `CheckpointFile`: a byte has bits, and the bytes of white space are bytes.
* `LiveAnalysis`: the values of a function are finitely many, a constant is none of
  them, no block has the name of "anywhere"; a block's PHI nodes come first
  (`PhisFirst`, which LLVM's verifier demands).
* `PointerAnalysis`: a PHI node has one value for each predecessor, twice the same if
  it is twice a predecessor (LLVM's verifier); `holds` is a run: a PHI node holds
  what it takes, or what a PHI node it takes held before (`HoldsAssumption`).
* `Transformation`: a derived pointer is not in its own alias set, and the recursion through
  alias sets ends; LLVM's verifier has passed main (`VerifierAssumption`); a name that is
  added is not one that main has (`VersionAssumption`), which LLVM sees to.

### Only model-checked

* Liveness (`Completes`, `Converges`, `PassEnds`, `EndsIfRooted`): fairness is out of the
  prover's reach.
* `GivenWhatIsCurrent`: it relates the new program's run to the original's through
  every mapping and PHI node of the pass. `PhisKnown` says which places a PHI node has, and
  not what stands in them; the proof needs that after each of the three steps, and of main
  that definitions dominate uses, which no assumption states.
* `DueIsTaken` without the assumptions `NothingFails` and `AliasesFound`: false in general
  (`wedged`), true of `core`. `PhiSourcesMapped` without `OneSource` and `MemoryIntact`
  without `AliasesFound` are false in general too (`phi_twice`, `abandoned`).

## Not modelled, and why

* The allocation trees of `checkpoint.cpp`: nothing the pass emits calls them.
* `ACRIiLAllocaManager`: its one user gets an alloca, stores into it or loads from it
  in the same place, and releases it before anything else asks for one. There is never
  more than one alloca of a type, and nothing to get wrong in the order of calls.
* Numbers of type sizes and data layouts (`getTypeSizeInBits`): sizes are values
  without a number in the modules of the pass, and numbers in `CheckpointFile`.
* Linking the runtime's bitcode, beyond that it may fail and leave `main` as it was.
* Two edges from one block to another in the flow sets of `LiveAnalysis` and
  `Transformation` (a set of successors has one); `PointerAnalysis` has them.
* Two processes in one directory at a time, and a program rebuilt between launches:
  outside what the code claims to handle.
* Loss of data a completed write had not reached the disk with (the code never
  syncs; `WriteSucceeds` covers what a reader can see of it), undefined conversions of
  the interval, messages on stderr.
* Pass registration, which is LLVM's files with a line each, and the test programs,
  which are inputs.

## Plan

Done, in this order: `CheckpointRestart` with its runs and safety theorems,
`CheckpointFile`, `LiveAnalysis`, `PointerAnalysis`, `Transformation` (checkpoint plan and
`fixDominance` in one module, as they share the blocks), the theorems under reboots, the
refinement, the theorems about due checkpoints; then the live sets, the slots, the pointer
analysis and the files, for every function and every file; then the types of the pass and the
lookups of `fixDominance`.

Left: `GivenWhatIsCurrent` for every function. Of the safety properties the runs expect to
hold it is the only one without a theorem.
