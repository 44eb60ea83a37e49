--------------------------- MODULE Transformation ---------------------------
(***************************************************************************)
(* The rest of the ACRIiL pass, after its analysis of main (LiveAnalysis): *)
(* addCheckpointsToFunction puts a checkpoint block and a restart block    *)
(* before every checkpointed block, gives main a new entry that may jump   *)
(* to a restart block, fills both blocks slot by slot, and fixDominance    *)
(* adds the PHI nodes that the new edges call for.  Then the transformed   *)
(* main is run, killed and restarted, next to what the original means.     *)
(***************************************************************************)
EXTENDS LiveAnalysis, AddressOrder

\* What a value is to the code that saves it: no pointer, the opcode of an
\* instruction that computes a pointer, or a pointer that is an argument.
Opcodes   == {"malloc", "alloca", "phi", "gep", "bitcast", "load"}
Kinds     == {"scalar", "argument"} \cup Opcodes
Allocates == {"malloc", "alloca"}
Derives   == {"phi", "gep", "bitcast"}

\* "addresses" is the order of the values in the compiler's memory, in which the
\* sets of values are walked.  Unless the alias sets are without cycles the pass
\* does not get here: addPointerUses does not return.  A pointer that is derived
\* is not in its own (PhisResolved of PointerAnalysis).
ASSUME TransformationAssumption ==
  \A p \in Programs :
    /\ p.kind \in [Values -> Kinds]
    /\ p.addresses \in Seq(Values) /\ Range(p.addresses) = Values
    /\ \A v \in Values : p.kind[v] \in Derives => v \notin p.aliases[v]
    /\ \A v \in Values : p.kind[v] # "scalar" =>
         LET others(w) == p.aliases[w] \ {w}
             onward[i \in Nat] ==
               IF i = 0 THEN others(v) ELSE UNION {others(w) : w \in onward[i - 1]}
         IN  onward[Cardinality(Values)] = {}

\* LLVM's verifier: nothing jumps to the entry block, a PHI node takes values from
\* predecessors of its block, and no other instruction of it has its result.
ASSUME VerifierAssumption ==
  \A p \in Programs : \A b \in Blocks :
    /\ Head(p.order) \notin p.succ[b]
    /\ \A i \in DOMAIN p.code[b] : p.code[b][i].isPhi =>
         /\ \A pair \in Range(p.code[b][i].incoming) : b \in p.succ[pair[2]]
         /\ \A j \in DOMAIN p.code[b] : p.code[b][j].result = p.code[b][i].result => j = i

VARIABLES
  step,       \* "analysis", "blocks", "fill", "phis", "update", "cleanup",
              \* "run", "unchanged", "exited" or "undefined"
  blocks,     \* the blocks of the function, and its CFGNodes, in order
  flow,       \* their successors
  insts,      \* their instructions
  liveValues, \* live and
  mapping,    \* liveValuesMap of every CFGNode
  labels,     \* the checkpointed nodes, by label
  slots,      \* what each label's checkpoint block saves, in order
  work,       \* what is left to do of the checkpoint block being filled
  scheduled,  \* phisToUpdate
  cursor,     \* position of the next node in a pass over blocks
  phis,       \* what is left to remove of the PHI nodes of the node before it
  removed,    \* whether that pass has removed a PHI node
  at, from,   \* the block the transformed main is at, and came from
  holds,      \* which values' current instances its names hold
  saved       \* its newest checkpoint, if there is one

analysis    == <<phase, function, nodes, in, out, next, converged>>
transformed == <<blocks, flow, insts, liveValues, mapping>>
plan        == <<labels, slots, work>>
fixing      == <<scheduled, cursor, phis, removed>>
running     == <<at, from, holds, saved>>
passVars    == <<step, analysis, transformed, plan, fixing, running>>

Checkpoint(n)   == <<n[1], ".checkpoint">>
Restart(n)      == <<n[1], ".read_checkpoint">>
Entry           == Head(order)
NoCREntry       == <<Entry[1], "no_cr_entry">>
Version(v, n)   == <<v, n>>
Preds(n)        == {m \in DOMAIN flow : n \in flow[m]}
Identity(S)     == [v \in S |-> v]

\* LLVM gives what is added a name that nothing in main has.
ASSUME VersionAssumption ==
  \A v \in Values, n \in Blocks \X {"", ".no_phis", ".checkpoint"} :
    Version(v, n) \notin Values \cup {Constant}

\* The map f with the entries of g put in.
Insert(g, f) ==
  [v \in DOMAIN g \cup DOMAIN f |-> IF v \in DOMAIN g THEN g[v] ELSE f[v]]

\* The members of S as a std::set of them is walked.
InAddressOrder(S) == Walk(program.addresses, S)

----------------------------------------------------------------------------

PassInit ==
  /\ Init
  /\ step = "analysis"
  /\ blocks = << >> /\ flow = << >> /\ insts = << >>
  /\ liveValues = << >> /\ mapping = << >>
  /\ labels = << >> /\ slots = << >> /\ work = << >>
  /\ scheduled = {} /\ cursor = 1 /\ phis = << >> /\ removed = FALSE
  /\ at = Anywhere /\ from = Anywhere /\ holds = {} /\ saved = << >>

Analyse ==
  /\ step = "analysis" /\ Next
  /\ UNCHANGED <<step, transformed, plan, fixing, running>>

\* The runtime's bitcode cannot be linked in, or has not all of the functions.
NotLinked ==
  /\ step = "analysis" /\ phase = "done"
  /\ step' = "unchanged"
  /\ UNCHANGED <<analysis, transformed, plan, fixing, running>>

\* "If no checkpoints are to be performed then just return now."
AddCheckpointsToFunction ==
  /\ step = "analysis" /\ phase = "done"
  /\ step' = IF checkpointBlocks = {} THEN "unchanged" ELSE "blocks"
  /\ blocks' = order /\ flow' = succ /\ insts' = code
  /\ liveValues' = live /\ mapping' = liveValuesMap
  /\ UNCHANGED <<analysis, plan, fixing, running>>

----------------------------------------------------------------------------
(* createCheckpointAndRestartBlocksForNode *)

\* setSuccessor takes the edge out of the list of uses of n that the loop over
\* the predecessors is walking: it ends after the first of them.
Redirected_None(m, n, first) == flow[m]
Redirected(m, n, first) ==
  IF m = first THEN (flow[m] \ {n}) \cup {Checkpoint(n)} ELSE flow[m]

\* addCheckpointNode copies what is live, addRestartNode does not.
LiveAtCheckpoint(n) == liveValues[n]

CreateCheckpointAndRestartBlocks ==
  /\ step = "blocks" /\ Range(labels) # checkpointBlocks
  /\ \E n \in checkpointBlocks \ Range(labels) : \E first \in Preds(n) :
       LET added  == {Checkpoint(n), Restart(n)}
           values == {u.value : u \in liveValues[n]}
       IN  /\ labels' = Append(labels, n)
           /\ blocks' = blocks \o <<Checkpoint(n), Restart(n)>>
           /\ flow' = [m \in DOMAIN flow \cup added |->
                         IF m \in added THEN {n} ELSE Redirected(m, n, first)]
           /\ insts' = Insert([m \in added |-> << >>], insts)
           /\ liveValues' = Insert([m \in added |->
                                      IF m = Restart(n) THEN {} ELSE LiveAtCheckpoint(n)],
                                   liveValues)
           /\ mapping' = Insert([m \in added |-> Identity(values)], mapping)
  /\ UNCHANGED <<step, analysis, slots, work, fixing, running>>

\* insertRestartBlock: the entry's instructions move to a block of their own, and
\* a switch over the labels takes their place.  addNoCREntryNode maps what that
\* block defines, and no argument.
Results(n) == {insts[n][i].result : i \in DOMAIN insts[n]} \cap Values
MappedAtNoCREntry_None == << >>
MappedAtNoCREntry_Void == Identity({insts[Entry][i].result : i \in DOMAIN insts[Entry]})
MappedAtNoCREntry == Identity(Results(Entry))

InsertRestartBlock ==
  /\ step = "blocks" /\ Range(labels) = checkpointBlocks
  /\ blocks' = Append(blocks, NoCREntry)
  /\ flow' = [m \in DOMAIN flow \cup {NoCREntry} |->
                IF m = Entry THEN {NoCREntry} \cup {Restart(n) : n \in checkpointBlocks}
                ELSE IF m = NoCREntry THEN flow[Entry] ELSE flow[m]]
  /\ insts' = [m \in DOMAIN insts \cup {NoCREntry} |->
                 IF m = Entry THEN << >>
                 ELSE IF m = NoCREntry THEN insts[Entry]
                 ELSE IF m \in flow[Entry] THEN Renamed(insts[m], Entry, NoCREntry)
                 ELSE insts[m]]
  /\ liveValues' = Insert([m \in {NoCREntry} |-> {}], liveValues)
  /\ mapping' = Insert([m \in {NoCREntry} |-> MappedAtNoCREntry], mapping)
  /\ step' = "fill"
  /\ UNCHANGED <<analysis, plan, fixing, running>>

----------------------------------------------------------------------------
(* fillCheckpointAndRestartBlocksForNode: "work" is the stack of calls of  *)
(* checkpointRestoreLiveValue, "value" one to come and "pointer" one that  *)
(* is done with the sizes and the alias set of its pointer.                *)

Filled       == labels[Len(slots)]
HasSlot_Any(v) == Last(slots) # << >>
HasSlot(v)   == \E i \in DOMAIN Last(slots) : Last(slots)[i].value = v
Calls(S)     == LET seq == InAddressOrder(S) IN [i \in DOMAIN seq |-> <<"value", seq[i]>>]
Targets(v)   == program.aliases[v] \ {v}

\* checkpointedToIndexMap's operator[] answers 0 for what it does not have.
IndexOf(v) ==
  IF HasSlot(v)
  THEN (CHOOSE i \in DOMAIN Last(slots) : Last(slots)[i].value = v) - 1 ELSE 0

\* What the call in the checkpoint block is given of a value, and the one in the
\* restart block: its size.
SizesOf(v) == IF program.kind[v] = "scalar" THEN {} ELSE program.sizes[v]
Given(v) ==
  {v} \cup SizesOf(v)
    \cup (IF program.kind[v] \in Derives
          THEN UNION {{w} \cup SizesOf(w) : w \in program.aliases[v]} ELSE {})

Slot(v) ==
  [value |-> v,
   candidates |-> IF program.kind[v] \in Derives
                  THEN {<<w, IndexOf(w)>> : w \in program.aliases[v]} ELSE {}]

\* The value's calls are put at the end of both blocks, and the restart block's
\* node maps it to what its call restores.
AddSlot(v) ==
  LET c == Checkpoint(Filled)
      r == Restart(Filled)
  IN  /\ slots' = [slots EXCEPT ![Len(slots)] = Append(@, Slot(v))]
      /\ insts' = [insts EXCEPT
           ![c] = Append(@, Instruction(Constant, FALSE, << >>, Given(v))),
           ![r] = Append(@, Instruction(Version(v, r), FALSE, << >>,
                                        {Version(w, r) : w \in SizesOf(v)}))]
      /\ mapping' = [mapping EXCEPT ![r] = Insert([w \in {v} |-> Version(w, r)], @)]

\* "Already checkpointed"
AddSlotOnce(v) ==
  IF HasSlot(v) THEN UNCHANGED <<slots, insts, mapping>> ELSE AddSlot(v)

FillNextBlock ==
  /\ step = "fill" /\ work = << >> /\ Len(slots) < Len(labels)
  /\ slots' = Append(slots, << >>)
  /\ work' = Calls({u.value : u \in liveValues[labels[Len(slots) + 1]]})
  /\ UNCHANGED <<step, analysis, transformed, labels, fixing, running>>

\* checkpointRestoreLiveValueScalar
RestoreScalar ==
  /\ step = "fill" /\ work # << >>
  /\ Head(work)[1] = "value" /\ program.kind[Head(work)[2]] = "scalar"
  /\ AddSlotOnce(Head(work)[2])
  /\ work' = Tail(work)
  /\ UNCHANGED <<step, analysis, blocks, flow, liveValues, labels, fixing, running>>

\* checkpointRestoreLiveValuePointer, the first part: "make sure that pointer
\* size is checkpointed before the pointer itself", and the alias set.
CallsFor_PointerFirst(v) == <<<<"pointer", v>>>> \o Calls(SizesOf(v)) \o Calls(Targets(v))
CallsFor(v) == Calls(SizesOf(v)) \o Calls(Targets(v)) \o <<<<"pointer", v>>>>

RestoreSizesAndAliases ==
  /\ step = "fill" /\ work # << >>
  /\ Head(work)[1] = "value" /\ program.kind[Head(work)[2]] # "scalar"
  /\ work' = CallsFor(Head(work)[2]) \o Tail(work)
  /\ UNCHANGED <<step, analysis, transformed, labels, slots, fixing, running>>

\* The second part, by kind of pointer.
RestorePointer ==
  /\ step = "fill" /\ work # << >> /\ Head(work)[1] = "pointer"
  /\ program.kind[Head(work)[2]] \in Allocates \cup Derives
  /\ AddSlotOnce(Head(work)[2])
  /\ work' = Tail(work)
  /\ UNCHANGED <<step, analysis, blocks, flow, liveValues, labels, fixing, running>>

\* Arguments and results of other instructions: exit(-1).
PointerNotSupported ==
  /\ step = "fill" /\ work # << >> /\ Head(work)[1] = "pointer"
  /\ program.kind[Head(work)[2]] \notin Allocates \cup Derives
  /\ step' = "exited"
  /\ UNCHANGED <<analysis, transformed, plan, fixing, running>>

AllFilled ==
  /\ step = "fill" /\ work = << >> /\ Len(slots) = Len(labels)
  /\ step' = "phis" /\ cursor' = 1
  /\ UNCHANGED <<analysis, transformed, plan, scheduled, phis, removed, running>>

----------------------------------------------------------------------------
(* fixDominance *)

Replaced(inst, new) ==
  LET to(w) == IF w \in DOMAIN new THEN new[w] ELSE w
  IN  [inst EXCEPT
         !.operands = {to(w) : w \in @},
         !.incoming = [i \in DOMAIN @ |-> <<to(@[i][1]), @[i][2]>>]]
ReplacedIn(seq, new) == [i \in DOMAIN seq |-> Replaced(seq[i], new)]
PhisIn(seq) == Walk(seq, {inst \in Range(seq) : inst.isPhi})
RestIn(seq) == Walk(seq, {inst \in Range(seq) : ~inst.isPhi})

\* A PHI node for a value at the start of a block, without its values yet.
NewPhi(v, n) ==
  LET preds == SetToSeq(Preds(n))
  IN  Instruction(Version(v, n), TRUE, [i \in DOMAIN preds |-> <<Constant, preds[i]>>], {})

ToUpdate(n, inst, v, js) ==
  {[node |-> n, phi |-> inst.result, index |-> j, value |-> v] : j \in js}

\* The values live at the start of n, and those that only its PHI nodes take.
LiveIn(n)    == {u.value : u \in {w \in liveValues[n] : w.from = Anywhere}}
PhisTake(n)  == {u.value : u \in {w \in liveValues[n] : w.from # Anywhere}}
NewNames(n)  == [v \in LiveIn(n) |-> Version(v, n)]
AddedPhis(n) ==
  LET seq == InAddressOrder(LiveIn(n)) IN  [k \in DOMAIN seq |-> NewPhi(seq[k], n)]

PhisToUpdate(n) ==
  (UNION {ToUpdate(n, NewPhi(v, n), v, DOMAIN NewPhi(v, n).incoming) : v \in LiveIn(n)})
    \cup (UNION {ToUpdate(n, phi, v, {j \in DOMAIN phi.incoming : phi.incoming[j][1] = v}) :
                   phi \in Range(PhisIn(insts[n])), v \in PhisTake(n)})

WithLive(i) == i >= cursor /\ liveValues[blocks[i]] # {}

\* "Step 1": a value live at the start of a block gets a PHI node there, which
\* all of the block then uses; one that only PHI nodes take already has them.
CreatePhis ==
  /\ step = "phis"
  /\ \E i \in DOMAIN blocks :
       /\ WithLive(i) /\ \A j \in DOMAIN blocks : WithLive(j) => i <= j
       /\ LET n == blocks[i]
          IN  /\ insts' = [insts EXCEPT ![n] = AddedPhis(n) \o ReplacedIn(@, NewNames(n))]
              /\ mapping' = [mapping EXCEPT ![n] = Insert(NewNames(n), @)]
              /\ scheduled' = scheduled \cup PhisToUpdate(n)
       /\ cursor' = i + 1
  /\ UNCHANGED <<step, analysis, blocks, flow, liveValues, plan, phis, removed, running>>

AllCreated ==
  /\ step = "phis" /\ ~\E i \in DOMAIN blocks : WithLive(i)
  /\ step' = "update"
  /\ UNCHANGED <<analysis, transformed, plan, fixing, running>>

\* "Step 2": what the predecessor's node maps the value to.
Source(seq, ptu) ==
  LET phi == CHOOSE inst \in Range(PhisIn(seq)) : inst.result = ptu.phi
  IN  phi.incoming[ptu.index][2]
Known(ptu) == ptu.value \in DOMAIN mapping[Source(insts[ptu.node], ptu)]
LiveMapping_Itself(ptu) == ptu.value
LiveMapping(ptu) == mapping[Source(insts[ptu.node], ptu)][ptu.value]

Updated(inst, ptus) ==
  [inst EXCEPT !.incoming =
     [j \in DOMAIN @ |->
        LET here == {ptu \in ptus : ptu.phi = inst.result /\ ptu.index = j}
        IN  IF here = {} THEN @[j]
            ELSE <<LiveMapping(CHOOSE ptu \in here : TRUE), @[j][2]>>]]

UpdatePhis ==
  /\ step = "update" /\ \A ptu \in scheduled : Known(ptu)
  /\ insts' = [n \in DOMAIN insts |->
                 [i \in DOMAIN insts[n] |->
                    Updated(insts[n][i], {ptu \in scheduled : ptu.node = n})]]
  /\ step' = "cleanup" /\ cursor' = 1
  /\ UNCHANGED <<analysis, blocks, flow, liveValues, mapping, plan, scheduled,
                 phis, removed, running>>

\* getLiveMapping goes through the end of the map.
NoMapping ==
  /\ step = "update" /\ \E ptu \in scheduled : ~Known(ptu)
  /\ step' = "undefined"
  /\ UNCHANGED <<analysis, transformed, plan, fixing, running>>

\* PHINode::hasConstantValue; two constants need not be the same.
OtherIncoming(phi) == SelectSeq(phi.incoming, LAMBDA pair : pair[1] # phi.result)
HasConstantValue(phi) ==
  LET others == OtherIncoming(phi)
  IN  /\ Cardinality({pair[1] : pair \in Range(others)}) <= 1
      /\ Constant \in {pair[1] : pair \in Range(others)} => Len(others) = 1
ConstantValue(phi) ==
  LET others == OtherIncoming(phi)
  IN  IF others = << >> THEN Constant ELSE others[1][1]

ConstantPhis(n) == SelectSeq(PhisIn(insts[n]), HasConstantValue)
WithConstantPhi(i) == i >= cursor /\ ConstantPhis(blocks[i]) # << >>

\* "Step 3": the PHI nodes of a block to remove ...
CollectConstantPhis ==
  /\ step = "cleanup" /\ phis = << >>
  /\ \E i \in DOMAIN blocks :
       /\ WithConstantPhi(i) /\ \A j \in DOMAIN blocks : WithConstantPhi(j) => i <= j
       /\ LET found == ConstantPhis(blocks[i])
          IN  phis' = [k \in DOMAIN found |-> found[k].result]
       /\ cursor' = i + 1
  /\ UNCHANGED <<step, analysis, transformed, plan, scheduled, removed, running>>

\* ... one by one: replaceAllUsesWith and eraseFromParent.
RemovePhi ==
  /\ step = "cleanup" /\ phis # << >>
  /\ LET phi   == CHOOSE inst \in Range(PhisIn(insts[blocks[cursor - 1]])) :
                    inst.result = Head(phis)
         value == [w \in {phi.result} |-> ConstantValue(phi)]
     IN  insts' = [n \in DOMAIN insts |->
                     ReplacedIn(SelectSeq(insts[n], LAMBDA inst : inst # phi), value)]
  /\ phis' = Tail(phis) /\ removed' = TRUE
  /\ UNCHANGED <<step, analysis, blocks, flow, liveValues, mapping, plan, scheduled,
                 cursor, running>>

Arguments == {<<a, a>> : a \in program.args \cup {Constant}}

StillRemoved_Never == TRUE
StillRemoved == removed

RepeatCleanUp ==
  /\ step = "cleanup" /\ phis = << >> /\ ~\E i \in DOMAIN blocks : WithConstantPhi(i)
  /\ StillRemoved
  /\ cursor' = 1 /\ removed' = FALSE
  /\ UNCHANGED <<step, analysis, transformed, plan, scheduled, phis, running>>

Fixed ==
  /\ step = "cleanup" /\ phis = << >> /\ ~\E i \in DOMAIN blocks : WithConstantPhi(i)
  /\ ~StillRemoved
  /\ step' = "run"
  /\ at' = NoCREntry /\ from' = Entry /\ holds' = Arguments
  /\ UNCHANGED <<analysis, transformed, plan, fixing, saved>>

----------------------------------------------------------------------------
(* The transformed main, next to the original.  A pair <<w, v>> of "holds" *)
(* says that what the name w holds is what v has in the original now.      *)

LabelOf(n) ==
  CHOOSE l \in DOMAIN labels : n \in {Checkpoint(labels[l]), Restart(labels[l])}
IsCheckpoint(n) == \E l \in DOMAIN labels : n = Checkpoint(labels[l])
IsRestart(n)    == \E l \in DOMAIN labels : n = Restart(labels[l])
ValuesOf(l)     == [i \in DOMAIN slots[l] |-> slots[l][i].value]

\* What the instructions of a block that are no PHI nodes are about.
Meant(n) ==
  IF IsCheckpoint(n)
  THEN LET vs == ValuesOf(LabelOf(n))
       IN  [i \in DOMAIN vs |-> Instruction(Constant, FALSE, << >>, Given(vs[i]))]
  ELSE IF IsRestart(n)
  THEN LET vs == ValuesOf(LabelOf(n))
       IN  [i \in DOMAIN vs |-> Instruction(vs[i], FALSE, << >>, SizesOf(vs[i]))]
  ELSE IF n = NoCREntry THEN RestIn(code[Entry])
  ELSE IF n = Entry THEN << >> ELSE RestIn(code[n])

Held(hs, w) == {pair[2] : pair \in {q \in hs : q[1] = w}}

TakenFromBlock(phi, m) ==
  LET pair == CHOOSE q \in Range(phi.incoming) : q[2] = m IN pair[1]

\* The PHI nodes of n, all at once: those of the original give their values new
\* instances, which are also held by whatever held the ones they take.
AfterPhis(n, m, hs) ==
  LET before   == IF n \in DOMAIN code THEN PhisIn(code[n]) ELSE << >>
      now      == PhisIn(insts[n])
      origin   == IF m = NoCREntry THEN Entry ELSE m
      results  == {phi.result : phi \in Range(before)}
      assigned == {phi.result : phi \in Range(now)}
      new(S)   == (S \ results)
                    \cup {phi.result : phi \in
                            {f \in Range(before) : TakenFromBlock(f, origin) \in S}}
      kept     == {q[1] : q \in hs} \ assigned
  IN  (UNION {{w} \X new(Held(hs, w)) : w \in kept})
        \cup (UNION {{phi.result} \X new(Held(hs, TakenFromBlock(phi, m))) :
                       phi \in Range(now)})

\* Whether an instruction is given what the original's is given.
GivenCurrent(hs, inst, meant) ==
  /\ \A v \in meant.operands : \E w \in inst.operands : <<w, v>> \in hs
  /\ \A w \in inst.operands : \E v \in meant.operands : <<w, v>> \in hs

\* A new result makes what holds the former one stale; a restored value is what
\* the checkpoint has of it.
AfterInstruction(hs, inst, v) ==
  IF inst.result = Constant THEN hs
  ELSE IF inst.result = v THEN {q \in hs : v \notin {q[1], q[2]}} \cup {<<v, v>>}
  ELSE {q \in hs : q[1] # inst.result}
         \cup (IF v \in saved.values THEN {<<inst.result, v>>} ELSE {})

\* What "holds" becomes in block n, and whether it is given what is current.
InBlock(n, m, hs) ==
  LET after == AfterPhis(n, m, hs)
      meant == Meant(n)
      rest  == RestIn(insts[n])
      held[i \in 0 .. Len(meant)] ==
        IF i = 0 THEN after
        ELSE AfterInstruction(held[i - 1], rest[i], meant[i].result)
  IN  [holds   |-> held[Len(meant)],
       current |-> /\ Len(rest) = Len(meant)
                   /\ \A phi \in Range(PhisIn(insts[n])) :
                        phi.result \in Values => <<phi.result, phi.result>> \in after
                   /\ \A i \in DOMAIN meant : GivenCurrent(held[i - 1], rest[i], meant[i])]

\* The runtime saves what the names given to it hold (CheckpointRestart).
NewCheckpoint(l, hs) ==
  [label  |-> l,
   values |-> {v \in Range(ValuesOf(l)) :
                 \E inst \in Range(RestIn(insts[at])) : \E w \in inst.operands :
                   <<w, v>> \in hs}]

\* A checkpoint may not be due.
RunBlock ==
  /\ step = "run" /\ flow[at] # {}
  /\ at' \in flow[at] /\ from' = at
  /\ holds' = InBlock(at, from, holds).holds
  /\ \/ UNCHANGED saved
     \/ /\ IsCheckpoint(at)
        /\ saved' = NewCheckpoint(LabelOf(at), holds')
  /\ UNCHANGED <<step, analysis, transformed, plan, fixing>>

\* Killed and launched again, with the same arguments.
RestartFromCheckpoint ==
  /\ step = "run" /\ saved # << >>
  /\ at' = Restart(labels[saved.label]) /\ from' = Entry /\ holds' = Arguments
  /\ UNCHANGED <<step, analysis, transformed, plan, fixing, saved>>

Pass == NotLinked \/ AddCheckpointsToFunction \/ CreateCheckpointAndRestartBlocks
          \/ InsertRestartBlock \/ FillNextBlock \/ RestoreScalar
          \/ RestoreSizesAndAliases \/ RestorePointer \/ PointerNotSupported
          \/ AllFilled \/ CreatePhis \/ AllCreated \/ UpdatePhis \/ NoMapping
          \/ CollectConstantPhis \/ RemovePhi \/ RepeatCleanUp \/ Fixed
\* The pass is a sequential program; the program it makes may be killed.
PassNext == Analyse \/ Pass \/ RunBlock \/ RestartFromCheckpoint
PassSpec == PassInit /\ [][PassNext]_passVars /\ WF_passVars(Analyse \/ Pass)

----------------------------------------------------------------------------
(* Properties *)

\* The types, and what the CFGNodes and the blocks share: a node for each block,
\* mappings of values only.
PassTypeOK ==
  /\ step \in {"analysis", "blocks", "fill", "phis", "update", "cleanup", "run",
               "unchanged", "exited", "undefined"}
  /\ Range(labels) \subseteq checkpointBlocks
  /\ DOMAIN flow = Range(blocks) /\ DOMAIN insts = Range(blocks)
  /\ \A n \in DOMAIN flow : flow[n] \subseteq Range(blocks)
  /\ \A n \in DOMAIN mapping : DOMAIN mapping[n] \subseteq Values
  /\ Len(slots) <= Len(labels)
  /\ \A pair \in holds : pair[2] \in Values \cup {Constant}

\* "Make sure all predecessors of B now point at the checkpoint": from then on a
\* checkpointed block is reached through its checkpoint or restart block only.
AllPredecessorsPointAtCheckpoint ==
  \A l \in DOMAIN labels :
    Preds(labels[l]) = {Checkpoint(labels[l]), Restart(labels[l])}

\* That is so where the block has one predecessor, as it has after PHI nodes.
PointsAtCheckpointIfSplit ==
  \A l \in DOMAIN labels :
    Cardinality({m \in Nodes : labels[l] \in succ[m]}) = 1 =>
      Preds(labels[l]) = {Checkpoint(labels[l]), Restart(labels[l])}

\* A checkpoint block saves every value once, and after the sizes and the pointers
\* it may equal; the candidates offered with an alias are those pointers' slots.
\* This is what CheckpointRestart assumes of a label's slots (OrderAssumption).
Precedes(l, v, i) == \E j \in 1 .. i - 1 : slots[l][j].value = v
SlotsInOrder ==
  \A l \in DOMAIN slots : \A i \in DOMAIN slots[l] :
    LET slot == slots[l][i]
    IN  /\ ~Precedes(l, slot.value, i)
        /\ \A w \in SizesOf(slot.value) \cup (IF slot.candidates = {} THEN {}
                                               ELSE program.aliases[slot.value]) :
             Precedes(l, w, i)
        /\ \A c \in slot.candidates : slots[l][c[2] + 1].value = c[1]

\* "For every live variable": a filled checkpoint block saves all that is live in
\* it, and the restart block's node maps each to what its own call restores.
LiveSaved ==
  step \in {"phis", "update", "cleanup", "run"} =>
    \A l \in DOMAIN labels :
      /\ {u.value : u \in live[labels[l]]} \subseteq Range(ValuesOf(l))
      /\ \A v \in Range(ValuesOf(l)) : mapping[Restart(labels[l])][v]
                                         = Version(v, Restart(labels[l]))

\* A PHI node of s takes v itself from n.
TakenFrom(n, s, v) ==
  \E i \in DOMAIN code[s] : code[s][i].isPhi /\ <<v, n>> \in Range(code[s][i].incoming)

\* The values that no block after the entry block finds in its mappings, though it
\* needs them: arguments, and what is mentioned as a possible target of a pointer
\* on the way to where it is computed.
NeededAfterEntry(v) ==
  \E s \in succ[Entry] : s \in LiveAt(v) \/ TakenFrom(Entry, s, v)
MappedNowhere ==
  \E v \in Values :
    NeededAfterEntry(v) /\ \A i \in DOMAIN code[Entry] : code[Entry][i].result # v

\* fixDominance goes past the end of a map exactly for these, as long as no PHI
\* node takes a value from two blocks (PhiSourcesMapped).
UndefinedIfMappedNowhere ==
  /\ step = "undefined" => MappedNowhere \/ ~PhiSourcesMapped
  /\ step \in {"cleanup", "run"} => ~MappedNowhere

\* No pointer is saved that may equal one which is computed only later, in the
\* loop the checkpoint is at the start of.
OnlyLiveSaved ==
  \A l \in DOMAIN slots :
    Range(ValuesOf(l)) \subseteq {u.value : u \in live[labels[l]]}

\* "Now need to fix dominance": wherever the transformed main has come from, by
\* itself or through a restart block, each of its instructions is given what the
\* original's is given.
GivenWhatIsCurrent ==
  step = "run" /\ OnlyLiveSaved => InBlock(at, from, holds).current

\* What is live in a block, and the sizes and targets of the pointers among that.
SavedWith(n) ==
  LET reached[i \in Nat] ==
        IF i = 0 THEN {u.value : u \in live[n]}
        ELSE UNION {{v} \cup SizesOf(v) \cup Targets(v) : v \in reached[i - 1]}
  IN  reached[Cardinality(Values)]

\* All of it can be saved: no pointer is an argument or the result of any other
\* instruction than the code has a case for.
Savable ==
  \A n \in checkpointBlocks : \A v \in SavedWith(n) :
    program.kind[v] \in {"scalar"} \cup Allocates \cup Derives

\* The pass comes to an end: every value live at a checkpoint is reached by the
\* recursion through sizes and alias sets, and every PHI node that is a constant by
\* the clean up, after finitely many steps.  The end is exit(-1), in the middle of
\* the transformation, if and only if one of these values cannot be saved.
PassEnds ==
  <>(\/ step = "unchanged"
     \/ step = "exited" /\ ~Savable
     \/ step \in {"run", "undefined"} /\ Savable)
=============================================================================
