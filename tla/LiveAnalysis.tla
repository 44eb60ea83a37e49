--------------------------- MODULE LiveAnalysis ---------------------------
(***************************************************************************)
(* What the ACRIiL pass works out about main before it changes it          *)
(* (CFGFunction::setUpCFG and doLiveAnalysis, CFGNode's constructor): the  *)
(* outermost loop headers to checkpoint, every block with PHI nodes split  *)
(* in two, and the values live at the start of every block.  The live      *)
(* values of a header are what its checkpoint saves; the mappings set up   *)
(* from them are what fixDominance looks up for every predecessor.         *)
(*                                                                         *)
(* A block is the sequence of its instructions; constants are left out of  *)
(* their operands, and the terminator is the block's successors.           *)
(***************************************************************************)
EXTENDS Integers, Sequences, SequencesExt, FiniteSets

CONSTANTS
  Blocks,     \* the basic blocks of a function
  Values,     \* its instructions with a result, and its arguments
  Constant,   \* a value of a PHI node that is no instruction or argument
  Anywhere,   \* the source block of a use that is not a PHI node's
  Programs    \* the functions to analyse

\* An instruction: its result, if it has one; for a PHI node the incoming
\* values with their blocks, in order; for any other its operands.
Instruction(result, isPhi, incoming, operands) ==
  [result |-> result, isPhi |-> isPhi, incoming |-> incoming,
   operands |-> operands]

Instructions ==
  [result : Values \cup {Constant}, isPhi : BOOLEAN,
   incoming : Seq((Values \cup {Constant}) \X Blocks),
   operands : SUBSET (Values \cup {Constant})]
PhisFirst(insts) ==
  \A i, j \in DOMAIN insts : i < j /\ insts[j].isPhi => insts[i].isPhi

ASSUME ValuesAssumption ==
  /\ IsFiniteSet(Values) /\ Constant \notin Values
  /\ Anywhere \notin Blocks \X {"", ".no_phis"}

\* "sizes" and "aliases" are what pointerAnalysis found out: the values that
\* hold the size of what a pointer points to, and the pointers it may equal,
\* itself in the case of an allocation.  "loops" is LoopInfo's answer.
ASSUME ProgramsAssumption ==
  \A p \in Programs :
    /\ p.order \in Seq(Blocks) /\ Len(p.order) > 0
    /\ Blocks = {p.order[i] : i \in DOMAIN p.order}
    /\ p.succ \in [Blocks -> SUBSET Blocks]
    /\ p.code \in [Blocks -> Seq(Instructions)]
    /\ \A b \in Blocks : PhisFirst(p.code[b])
    /\ p.args \subseteq Values
    /\ p.sizes \in [Values -> SUBSET Values]
    /\ p.aliases \in [Values -> SUBSET Values]
    /\ \A l \in p.loops : l.header \in Blocks /\ l.depth \in Nat \ {0}

VARIABLES
  phase,              \* "split", "converge", "done"
  program,            \* the function, as the pass was given it
  order, succ, code,  \* the function's blocks, in order
  phiNodes,           \* the blocks left with the PHI nodes of a split one
  checkpointBlocks,   \* the blocks to checkpoint
  use, def, in, out,  \* of every CFGNode
  next,               \* position of the next node in the pass over the nodes
  converged,          \* whether the pass has changed nothing so far
  live, liveValuesMap \* of every CFGNode

function == <<program, order, succ, code, phiNodes, checkpointBlocks>>
nodes    == <<use, def, live, liveValuesMap>>
vars     == <<phase, function, nodes, in, out, next, converged>>

\* BasicBlock::splitBasicBlock names the second half of b after it.
Name(b)   == <<b, "">>
NoPhis(n) == <<n[1], ".no_phis">>
Nodes     == {order[i] : i \in DOMAIN order}

----------------------------------------------------------------------------
(* Sets of CFGUse *)

Use(v, from) == [value |-> v, from |-> from]

\* CFGUse::operator< tells apart two values, and a PHI use from another use;
\* not two source blocks.
SameKey(u, w) ==
  u.value = w.value /\ ((u.from = Anywhere) <=> (w.from = Anywhere))

\* CFGUtils::CFGCopyAllOperands: std::set::insert keeps what is there.
CopyAll(to, uses) == to \cup {u \in uses : ~\E w \in to : SameKey(u, w)}

----------------------------------------------------------------------------
(* CFGNode's constructor *)

\* The pointers addPointerUses goes through from v: those v may equal, those
\* they may equal, and so on.
Through(v) ==
  LET more[i \in 0 .. Cardinality(Values)] ==
        IF i = 0 THEN {v}
        ELSE LET nearer == more[i - 1]
             IN  nearer \cup UNION {program.aliases[w] : w \in nearer}
  IN  more[Cardinality(Values)]

\* CFGNode::addPointerUses: nothing for what has no pointer information.
PointerUses(v) ==
  IF program.aliases[v] = {} THEN {}
  ELSE UNION {program.sizes[w] \cup program.aliases[w] : w \in Through(v)}

Mentioned(v) == {v} \cup (IF v \in Values THEN PointerUses(v) ELSE {})
UsesOf_Constants(v, from) == {Use(w, from) : w \in Mentioned(v)}
UsesOf(v, from) ==
  IF v = Constant THEN {} ELSE {Use(w, from) : w \in Mentioned(v)}

\* The uses of the incoming values of a PHI node, one after the other.
CopyIncoming(uses, incoming) ==
  LET copied[j \in 0 .. Len(incoming)] ==
        IF j = 0 THEN uses
        ELSE CopyAll(copied[j - 1], UsesOf(incoming[j][1], incoming[j][2]))
  IN  copied[Len(incoming)]

\* One instruction, met from the end of the block: its result is a definition
\* and no longer a use, its operands are uses.
AddInstruction(inst, node) ==
  LET uses == node.use \ {Use(inst.result, Anywhere)}
  IN  [def |-> node.def \cup ({inst.result} \cap Values),
       use |-> IF inst.isPhi THEN CopyIncoming(uses, inst.incoming)
               ELSE CopyAll(uses, UNION {UsesOf(v, Anywhere) : v \in inst.operands})]

\* The entry block also defines the arguments.
WithArguments(node) ==
  [def |-> node.def \cup program.args,
   use |-> node.use \ {Use(a, Anywhere) : a \in program.args}]

\* What the last k instructions of a block come to, up to all of them.
NewNode(n) ==
  LET size == Len(code[n])
      last[k \in 0 .. size] ==
        IF k = 0 THEN [def |-> {}, use |-> {}]
        ELSE AddInstruction(code[n][size - k + 1], last[k - 1])
  IN  IF n = Head(order) THEN WithArguments(last[size]) ELSE last[size]

----------------------------------------------------------------------------

\* CFGFunction::findCheckpointPoints: only the outermost loops.
FindCheckpointPoints(p) == {Name(l.header) : l \in {k \in p.loops : k.depth = 1}}

InNames(inst) ==
  [inst EXCEPT !.incoming =
     [i \in DOMAIN inst.incoming |->
        <<inst.incoming[i][1], Name(inst.incoming[i][2])>>]]

Init ==
  /\ phase = "split"
  /\ program \in Programs
  /\ order = [i \in DOMAIN program.order |-> Name(program.order[i])]
  /\ succ = [n \in {Name(b) : b \in Blocks} |-> {Name(s) : s \in program.succ[n[1]]}]
  /\ code = [n \in {Name(b) : b \in Blocks} |->
               [i \in DOMAIN program.code[n[1]] |-> InNames(program.code[n[1]][i])]]
  /\ phiNodes = {} /\ checkpointBlocks = FindCheckpointPoints(program)
  /\ use = << >> /\ def = << >> /\ in = << >> /\ out = << >>
  /\ next = 1 /\ converged = TRUE
  /\ live = << >> /\ liveValuesMap = << >>

HasPhis(n)  == code[n] # << >> /\ Head(code[n]).isPhi
Unsplit     == {n \in Nodes : HasPhis(n) /\ n \notin phiNodes}
Position(n) == CHOOSE i \in DOMAIN order : order[i] = n
\* getFirstNonPHI; a block has no PHI nodes after it.
FirstNonPhi(n) ==
  CHOOSE i \in 1 .. Len(code[n]) + 1 :
    /\ i > Len(code[n]) \/ ~code[n][i].isPhi
    /\ \A j \in 1 .. i - 1 : code[n][j].isPhi
Phis(n)     == SubSeq(code[n], 1, FirstNonPhi(n) - 1)
Rest(n)     == SubSeq(code[n], FirstNonPhi(n), Len(code[n]))

\* The instructions with block n as a source of PHI nodes replaced by m.
Renamed(insts, n, m) ==
  [i \in DOMAIN insts |->
     [insts[i] EXCEPT !.incoming =
        [j \in DOMAIN insts[i].incoming |->
           IF insts[i].incoming[j][2] = n THEN <<insts[i].incoming[j][1], m>>
           ELSE insts[i].incoming[j]]]]

\* "Make sure when splitting blocks to change the blocks to checkpoint."
MovedPast_Stays(checkpoints, n) == checkpoints
MovedPast(checkpoints, n) ==
  IF n \in checkpoints THEN (checkpoints \ {n}) \cup {NoPhis(n)} ELSE checkpoints

\* The first half of CFGFunction::setUpCFG: a block with PHI nodes keeps them,
\* and what follows goes to a block of its own.
SplitBasicBlock ==
  /\ phase = "split"
  /\ \E n \in Unsplit :
       /\ \A m \in Unsplit : Position(n) <= Position(m)
       /\ order' = InsertAt(order, Position(n) + 1, NoPhis(n))
       /\ LET halves == [m \in DOMAIN code \cup {NoPhis(n)} |->
                           IF m = n THEN Phis(n)
                           ELSE IF m = NoPhis(n) THEN Rest(n) ELSE code[m]]
          IN  code' = [m \in DOMAIN halves |-> Renamed(halves[m], n, NoPhis(n))]
       /\ succ' = [m \in DOMAIN succ \cup {NoPhis(n)} |->
                     IF m = n THEN {NoPhis(n)}
                     ELSE IF m = NoPhis(n) THEN succ[n] ELSE succ[m]]
       /\ phiNodes' = phiNodes \cup {n}
       /\ checkpointBlocks' = MovedPast(checkpointBlocks, n)
  /\ UNCHANGED <<phase, program, nodes, in, out, next, converged>>

\* The second half: a CFGNode for every block, in the function's order.
AddNodes ==
  /\ phase = "split" /\ Unsplit = {}
  /\ use' = [n \in Nodes |-> NewNode(n).use]
  /\ def' = [n \in Nodes |-> NewNode(n).def]
  /\ in' = [n \in Nodes |-> {}] /\ out' = [n \in Nodes |-> {}]
  /\ phase' = "converge" /\ next' = 1 /\ converged' = TRUE
  /\ UNCHANGED <<function, live, liveValuesMap>>

----------------------------------------------------------------------------
(* CFGFunction::doLiveAnalysis *)

\* in[n] = use[n] union (out[n] - def[n])
NewIn(n) ==
  CopyAll(CopyAll(in[n], use[n]), {u \in out[n] : u.value \notin def[n]})

\* out[n] = union of in[s] for all successors s of n, a PHI use only when it
\* is from n; "remove the fact that the variable is from the phi node".
Taken_AnyEdge(u, n) == TRUE
Taken_NotPhi(u, n) == u.from = Anywhere
Taken(u, n) == u.from \in {n, Anywhere}
NewOut(n, ins) ==
  CopyAll(out[n], {Use(u.value, Anywhere) :
                     u \in {w \in UNION {ins[s] : s \in succ[n]} : Taken(w, n)}})

StillConverged_NothingCopied(n) == converged /\ use[n] = {}
StillConverged_InOnly(n) == converged /\ in'[n] = in[n]
StillConverged(n) == converged /\ in'[n] = in[n] /\ out'[n] = out[n]

VisitNode ==
  /\ phase = "converge" /\ next <= Len(order)
  /\ LET n == order[next]
     IN  /\ in' = [in EXCEPT ![n] = NewIn(n)]
         /\ out' = [out EXCEPT ![n] = NewOut(n, in')]
         /\ converged' = StillConverged(n)
  /\ next' = next + 1
  /\ UNCHANGED <<phase, function, nodes>>

RepeatPass ==
  /\ phase = "converge" /\ next > Len(order) /\ ~converged
  /\ next' = 1 /\ converged' = TRUE
  /\ UNCHANGED <<phase, function, nodes, in, out>>

\* CFGFunction::setUpLiveSetsAndMappings
SetUpLiveSetsAndMappings ==
  /\ phase = "converge" /\ next > Len(order) /\ converged
  /\ live' = in
  /\ liveValuesMap' = [n \in Nodes |->
                          [v \in {u.value : u \in in[n]} \cup def[n] |-> v]]
  /\ phase' = "done"
  /\ UNCHANGED <<function, use, def, in, out, next, converged>>

Next == SplitBasicBlock \/ AddNodes \/ VisitNode \/ RepeatPass
          \/ SetUpLiveSetsAndMappings
Spec == Init /\ [][Next]_vars

----------------------------------------------------------------------------
(* Liveness, from the blocks alone *)

Defines(n, v) ==
  \/ \E i \in DOMAIN code[n] : code[n][i].result = v
  \/ n = Head(order) /\ v \in program.args
Needs(inst, v) == ~inst.isPhi /\ \E w \in inst.operands : v \in Mentioned(w)

\* v is needed at the start of n by an instruction of n ...
NeededIn(n, v) ==
  /\ ~(n = Head(order) /\ v \in program.args)
  /\ \E i \in DOMAIN code[n] :
       Needs(code[n][i], v) /\ \A j \in 1 .. i - 1 : code[n][j].result # v
\* ... or at its end, by a PHI node of the block s that comes after it.
NeededOnEdge(n, s, v) ==
  \E i \in DOMAIN code[s] : \E j \in DOMAIN code[s][i].incoming :
    LET pair == code[s][i].incoming[j]
    IN  /\ code[s][i].isPhi /\ pair[2] = n
        /\ pair[1] # Constant /\ v \in Mentioned(pair[1])

\* The blocks at whose start v is live: v is needed there, or v is needed at
\* the end of a path that nowhere defines it.
LiveAt(v) ==
  LET needed == {n \in Nodes : NeededIn(n, v)}
      free   == {n \in Nodes : ~Defines(n, v)}
      onEdge == {n \in free : \E s \in succ[n] : NeededOnEdge(n, s, v)}
      back[i \in 0 .. Len(order)] ==
        IF i = 0 THEN needed \cup onEdge
        ELSE LET later == back[i - 1]
             IN  later \cup {n \in free : succ[n] \cap later # {}}
  IN  back[Len(order)]

Is(n, v) == Use(v, Anywhere) \in in[n]

----------------------------------------------------------------------------
(* Properties *)

\* The types: only instructions and arguments are ever uses.
TypeOK ==
  /\ phase \in {"split", "converge", "done"}
  /\ phiNodes \cup checkpointBlocks \subseteq Nodes
  /\ Nodes \subseteq DOMAIN code /\ DOMAIN code = DOMAIN succ
  /\ \A n \in DOMAIN in :
       \A u \in in[n] \cup out[n] \cup use[n] :
         u.value \in Values /\ u.from \in Nodes \cup {Anywhere}
  /\ next \in 1 .. Len(order) + 1 /\ converged \in BOOLEAN

\* Nothing is ever recorded as live that no later instruction mentions: a
\* checkpoint saves no value only because another path needs it.
NothingDead == \A n \in DOMAIN in : \A v \in Values : Is(n, v) => n \in LiveAt(v)

\* When the analysis has converged, every live value is recorded, and so saved
\* by the checkpoint of the block.
AllLive == phase = "done" => \A v \in Values : \A n \in LiveAt(v) : Is(n, v)

\* "Otherwise we will try to checkpoint PHI nodes which will not work": what a
\* checkpointed block saves is live there whatever block control came from.
NoPhiCheckpointed ==
  phase = "done" =>
    \A n \in checkpointBlocks : \A u \in live[n] : u.from = Anywhere

\* "If this operand is used by a phi instruction and is from this block, then
\* add it to out": fixDominance finds, in every predecessor of a block, the
\* mapping of every value its PHI nodes take from there.
PhiSourcesMapped ==
  phase = "done" =>
    \A n \in Nodes : \A s \in succ[n] : \A v \in Values :
      NeededOnEdge(n, s, v) => v \in DOMAIN liveValuesMap[n]

\* So it does of every value live at the start of a block.
LiveMapped ==
  phase = "done" =>
    \A n \in Nodes : \A s \in succ[n] : \A u \in live[s] :
      u.from = Anywhere => u.value \in DOMAIN liveValuesMap[n]

\* The passes over the nodes come to an end.
Converges == <>(phase = "done")
=============================================================================
