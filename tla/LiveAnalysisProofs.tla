------------------------ MODULE LiveAnalysisProofs ------------------------
(***************************************************************************)
(* What the live analysis promises the transformation, for every function. *)
(* First, that a value live at the start of a block has a mapping in each  *)
(* of its predecessors when the passes over the nodes have come to an end. *)
(* The analysis stops after a pass that changes nothing, and what makes    *)
(* this enough is that every node visited since the pass began satisfies   *)
(* its data-flow equations as long as nothing has changed.                 *)
(*                                                                         *)
(* Then what the sets hold: the node of a block describes its              *)
(* instructions, nothing is recorded that is not live, and once a pass     *)
(* changes nothing all that is live is recorded.  The first is by the      *)
(* loops of CFGNode's constructor, one instruction at a time; the second   *)
(* by the invariant SetsInv; the third because the blocks a value is       *)
(* recorded at satisfy the equations whose least solution is the blocks it *)
(* is live at.                                                             *)
(***************************************************************************)
EXTENDS LiveAnalysis, Iteration, SequenceTheorems, FiniteSetTheorems, TLAPS

\* The equations of node n, as far as they say which values a set must hold.
InCovers(n) ==
  \A u \in use[n] \cup {x \in out[n] : x.value \notin def[n]} :
    \E w \in in[n] : SameKey(u, w)
OutCovers(n) ==
  \A s \in succ[n] : \A u \in in[s] :
    Taken(u, n) => \E w \in out[n] : SameKey(Use(u.value, Anywhere), w)
Solved(n) == InCovers(n) /\ OutCovers(n)

\* The blocks, and the edges among them.
Flow ==
  /\ order \in Seq(Nodes) /\ order # << >>
  /\ DOMAIN succ = Nodes /\ \A n \in Nodes : succ[n] \subseteq Nodes

\* Every block has its two sets once it has its node.
Noted ==
  /\ phase \in {"split", "converge", "done"} /\ converged \in BOOLEAN
  /\ next \in Nat
  /\ phase # "split" => /\ in = [n \in Nodes |-> in[n]]
                        /\ out = [n \in Nodes |-> out[n]]

\* While a pass has changed nothing, what it went over is solved.
SolvedSoFar ==
  /\ phase = "converge" /\ converged =>
       \A i \in DOMAIN order : i < next => Solved(order[i])
  /\ phase = "done" =>
       /\ \A n \in Nodes : Solved(n)
       /\ live = in
       /\ DOMAIN liveValuesMap = Nodes
       /\ \A n \in Nodes :
            DOMAIN liveValuesMap[n] = {u.value : u \in in[n]} \cup def[n]

\* A split block keeps its name, and no other block to checkpoint has the same
\* but for the suffix.
Named ==
  /\ \A n \in Nodes : n[2] \in {"", ".no_phis"}
  /\ checkpointBlocks \subseteq Nodes
  /\ \A c, d \in checkpointBlocks : c[1] = d[1] => c = d

LiveInv == Flow /\ Noted /\ SolvedSoFar /\ Named

----------------------------------------------------------------------------
(* Lemmas *)

\* What is copied has its key in the result, and what was there is kept.
LEMMA CopyAllCovers ==
  ASSUME NEW to, NEW uses, NEW u \in uses
  PROVE  /\ to \subseteq CopyAll(to, uses)
         /\ \E w \in CopyAll(to, uses) : SameKey(u, w)
  BY DEF CopyAll, SameKey

\* A block inserted into the order is one more node.
LEMMA Inserted ==
  ASSUME NEW S, NEW s \in Seq(S), NEW i \in 1 .. Len(s) + 1, NEW e \in S,
         NEW t, t = InsertAt(s, i, e)
  PROVE  /\ t \in Seq(S)
         /\ \A j \in DOMAIN t : t[j] \in {s[k] : k \in DOMAIN s} \cup {e}
         /\ \A k \in DOMAIN s : \E j \in DOMAIN t : t[j] = s[k]
         /\ \E j \in DOMAIN t : t[j] = e
  <1> DEFINE front == SubSeq(s, 1, i - 1)
             back  == SubSeq(s, i, Len(s))
  <1>1. /\ front \in Seq(S) /\ Len(front) = i - 1
        /\ \A j \in 1 .. i - 1 : front[j] = s[j]
    OBVIOUS
  <1>2. /\ back \in Seq(S) /\ Len(back) = Len(s) - i + 1
        /\ \A j \in 1 .. Len(s) - i + 1 : back[j] = s[i + j - 1]
    OBVIOUS
  <1>3. t = front \o <<e>> \o back
    BY DEF InsertAt
  <1> HIDE DEF front, back
  <1> DEFINE first == front \o <<e>>
  <1>4. /\ first \in Seq(S) /\ Len(first) = i
        /\ \A j \in 1 .. i - 1 : first[j] = s[j]
        /\ first[i] = e
    BY <1>1
  <1> HIDE DEF first
  <1>5. t = first \o back
    BY <1>3 DEF first
  <1>6. /\ t \in Seq(S) /\ Len(t) = Len(s) + 1
        /\ \A j \in 1 .. i - 1 : t[j] = s[j]
        /\ t[i] = e
        /\ \A j \in i + 1 .. Len(s) + 1 : t[j] = s[j - 1]
    BY <1>2, <1>4, <1>5, SMTT(30)
  <1>7. \A j \in DOMAIN t : t[j] \in {s[k] : k \in DOMAIN s} \cup {e}
    <2>1. TAKE j \in DOMAIN t
    <2>2. CASE j < i
      BY <1>6, <2>2
    <2>3. CASE j = i
      BY <1>6, <2>3
    <2>4. CASE j > i
      BY <1>6, <2>4
    <2> QED BY <1>6, <2>2, <2>3, <2>4
  <1>8. ASSUME NEW k \in DOMAIN s PROVE \E j \in DOMAIN t : t[j] = s[k]
    <2>1. CASE k < i
      BY <1>6, <2>1
    <2>2. CASE k >= i
      <3>1. k + 1 \in DOMAIN t /\ t[k + 1] = s[k]
        BY <1>6, <2>2
      <3> QED BY <3>1
    <2> QED BY <2>1, <2>2
  <1>9. \E j \in DOMAIN t : t[j] = e
    BY <1>6
  <1> QED BY <1>6, <1>7, <1>8, <1>9

----------------------------------------------------------------------------
(* The invariant *)

\* The function as it was.
LEMMA LiveInit == Init => LiveInv
  <1> SUFFICES ASSUME Init PROVE LiveInv
    OBVIOUS
  <1>1. program \in Programs /\ program.order \in Seq(Blocks)
    BY ProgramsAssumption DEF Init
  <1>2. order \in Seq(Nodes) /\ order # << >>
    <2>1. order = [i \in 1 .. Len(program.order) |-> Name(program.order[i])]
      BY <1>1 DEF Init
    <2>2. \A i \in 1 .. Len(program.order) : order[i] \in Nodes
      BY <2>1 DEF Nodes
    <2>3. Len(program.order) \in Nat /\ Len(program.order) > 0
      BY <1>1, ProgramsAssumption
    <2>4. order \in [1 .. Len(program.order) -> Nodes]
      BY <2>1, <2>2
    <2>5. order \in Seq(Nodes)
      BY <2>3, <2>4, SeqDef
    <2>6. 1 \in DOMAIN order
      BY <2>1, <2>3
    <2> QED BY <2>5, <2>6
  <1>3. Nodes = {Name(program.order[i]) : i \in DOMAIN program.order}
    BY DEF Init, Nodes
  <1>4. /\ program.succ \in [Blocks -> SUBSET Blocks]
        /\ Blocks = {program.order[i] : i \in DOMAIN program.order}
    BY <1>1, ProgramsAssumption
  <1>5. DOMAIN succ = Nodes
    BY <1>3, <1>4 DEF Init
  <1>6. ASSUME NEW n \in Nodes PROVE succ[n] \subseteq Nodes
    <2>1. PICK i \in DOMAIN program.order : n = Name(program.order[i])
      BY <1>3
    <2>2. program.order[i] \in Blocks /\ n[1] = program.order[i]
      <3>1. program.order[i] \in Blocks
        BY <1>1
      <3>2. n[1] = program.order[i]
        BY <2>1 DEF Name
      <3> QED BY <3>1, <3>2
    <2>3. succ[n] = {Name(s) : s \in program.succ[n[1]]}
      BY <2>1, <2>2 DEF Init
    <2>4. \A s \in program.succ[n[1]] : \E j \in DOMAIN program.order : s = program.order[j]
      BY <1>4, <2>2
    <2> QED BY <1>3, <2>3, <2>4
  <1>7. Named
    <2>1. \A b : Name(b)[2] = ""
      BY DEF Name
    <2>2. \A l \in program.loops : l.header \in Blocks
      BY <1>1, ProgramsAssumption
    <2>3. \A c \in checkpointBlocks : \E b \in Blocks : c = Name(b)
      BY <2>2 DEF Init, FindCheckpointPoints
    <2>4. \A b \in Blocks : Name(b) \in Nodes /\ Name(b)[1] = b
      BY <1>3, <1>4 DEF Name
    <2>5. \A n \in Nodes : n[2] = ""
      BY <1>3, <2>1
    <2>6. \A c, d \in checkpointBlocks : c[1] = d[1] => c = d
      BY <2>3, <2>4
    <2>7. checkpointBlocks \subseteq Nodes
      BY <2>3, <2>4
    <2> QED BY <2>5, <2>6, <2>7 DEF Named
  <1> QED BY <1>2, <1>5, <1>6, <1>7 DEF Init, LiveInv, Flow, Noted, SolvedSoFar

\* A split keeps blocks, edges and names together.
LEMMA SplitLive ==
  ASSUME LiveInv, SplitBasicBlock
  PROVE  LiveInv'
  <1>1. PICK n \in Unsplit :
          /\ order' = InsertAt(order, Position(n) + 1, NoPhis(n))
          /\ succ' = [m \in DOMAIN succ \cup {NoPhis(n)} |->
                        IF m = n THEN {NoPhis(n)}
                        ELSE IF m = NoPhis(n) THEN succ[n] ELSE succ[m]]
          /\ checkpointBlocks' = MovedPast(checkpointBlocks, n)
    BY DEF SplitBasicBlock
  <1>2. n \in Nodes /\ Position(n) \in DOMAIN order
    BY DEF Unsplit, Nodes, Position
  <1>3. order \in Seq(Nodes \cup {NoPhis(n)})
    BY DEF LiveInv, Flow
  <1>4. /\ order' \in Seq(Nodes') /\ order' # << >>
        /\ Nodes' = Nodes \cup {NoPhis(n)}
    <2>1. Position(n) + 1 \in 1 .. Len(order) + 1
      BY <1>2, <1>3
    <2>2. /\ order' \in Seq(Nodes \cup {NoPhis(n)}) /\ DOMAIN order' # {}
          /\ {order'[j] : j \in DOMAIN order'}
                = {order[j] : j \in DOMAIN order} \cup {NoPhis(n)}
      <3> DEFINE S == Nodes \cup {NoPhis(n)}
                 i == Position(n) + 1
      <3>1. order \in Seq(S) /\ i \in 1 .. Len(order) + 1 /\ NoPhis(n) \in S
        BY <1>3, <2>1
      <3>2. order' = InsertAt(order, i, NoPhis(n))
        BY <1>1
      <3> HIDE DEF S, i
      <3>3. /\ order' \in Seq(S)
            /\ \A j \in DOMAIN order' :
                 order'[j] \in {order[k] : k \in DOMAIN order} \cup {NoPhis(n)}
            /\ \A k \in DOMAIN order : \E j \in DOMAIN order' : order'[j] = order[k]
            /\ \E j \in DOMAIN order' : order'[j] = NoPhis(n)
        BY <3>1, <3>2, Inserted, SMTT(30)
      <3> QED BY <3>3 DEF S
    <2> QED BY <2>2 DEF Nodes
  <1>5. DOMAIN succ' = Nodes' /\ \A m \in Nodes' : succ'[m] \subseteq Nodes'
    BY <1>1, <1>2, <1>4 DEF LiveInv, Flow
  <1>6. NoPhis(n)[1] = n[1] /\ NoPhis(n)[2] = ".no_phis"
    BY DEF NoPhis
  <1>7. Named'
    <2>1. \A m \in Nodes' : m[2] \in {"", ".no_phis"}
      BY <1>4, <1>6 DEF LiveInv, Named
    <2>2. checkpointBlocks \subseteq Nodes /\ \A c, d \in checkpointBlocks : c[1] = d[1] => c = d
      BY DEF LiveInv, Named
    <2>3. CASE n \notin checkpointBlocks
      BY <1>1, <1>4, <2>1, <2>2, <2>3 DEF Named, MovedPast
    <2>4. CASE n \in checkpointBlocks
      <3>1. checkpointBlocks' = (checkpointBlocks \ {n}) \cup {NoPhis(n)}
        BY <1>1, <2>4 DEF MovedPast
      <3>2. \A c \in checkpointBlocks \ {n} : c[1] # NoPhis(n)[1]
        BY <1>6, <2>2, <2>4
      <3> HIDE DEF NoPhis
      <3>3. \A c, d \in checkpointBlocks' : c[1] = d[1] => c = d
        BY <2>2, <3>1, <3>2
      <3> QED BY <1>4, <2>1, <2>2, <3>1, <3>3 DEF Named
    <2> QED BY <2>3, <2>4
  <1> QED BY <1>4, <1>5, <1>7
      DEF SplitBasicBlock, LiveInv, Flow, Noted, SolvedSoFar

\* Before the first pass nothing has been visited.
LEMMA AddNodesLive ==
  ASSUME LiveInv, AddNodes
  PROVE  LiveInv'
  <1>1. Nodes' = Nodes /\ order' = order /\ succ' = succ
    BY DEF AddNodes, function, Nodes
  <1>2. in' = [n \in Nodes |-> {}] /\ out' = [n \in Nodes |-> {}] /\ next' = 1
    BY DEF AddNodes
  <1>3. \A i \in DOMAIN order : ~(i < 1)
    BY DEF LiveInv, Flow
  <1>4. Named'
    BY <1>1 DEF AddNodes, function, LiveInv, Named
  <1> QED BY <1>1, <1>2, <1>3, <1>4 DEF AddNodes, LiveInv, Flow, Noted, SolvedSoFar

\* A visit that changes nothing leaves its node solved.
LEMMA VisitLive ==
  ASSUME LiveInv, VisitNode
  PROVE  LiveInv'
  <1> DEFINE n == order[next]
  <1>1. /\ phase = "converge" /\ phase' = "converge" /\ next' = next + 1
        /\ Nodes' = Nodes /\ order' = order /\ succ' = succ
        /\ def' = def /\ use' = use
        /\ checkpointBlocks' = checkpointBlocks
    BY DEF VisitNode, function, nodes, Nodes
  <1>2. /\ in' = [in EXCEPT ![n] = NewIn(n)]
        /\ out' = [out EXCEPT ![n] = NewOut(n, in')]
        /\ converged' = StillConverged(n)
    BY DEF VisitNode
  <1>3. next \in DOMAIN order \/ next = 0
    BY DEF VisitNode, LiveInv, Flow, Noted
  <1>4. Flow' /\ Noted'
    <2>1. converged' \in BOOLEAN
      BY <1>2 DEF StillConverged, LiveInv, Noted
    <2>2. /\ in = [m \in Nodes |-> in[m]] /\ out = [m \in Nodes |-> out[m]]
      BY <1>1 DEF LiveInv, Noted
    <2>3. /\ in' = [m \in Nodes |-> in'[m]] /\ out' = [m \in Nodes |-> out'[m]]
      BY <1>2, <2>2
    <2>4. next \in Nat /\ next' \in Nat
      BY <1>1 DEF LiveInv, Noted
    <2> QED BY <1>1, <2>1, <2>3, <2>4 DEF LiveInv, Flow, Noted
  <1>5. ASSUME converged', NEW i \in DOMAIN order, i < next + 1
        PROVE  Solved(order[i])'
    <2>1. /\ converged /\ in'[n] = in[n] /\ out'[n] = out[n]
      BY <1>2, <1>5 DEF StillConverged
    <2>2. in' = in /\ out' = out
      BY <1>1, <1>2, <2>1 DEF LiveInv, Noted
    <2>3. CASE i < next
      BY <1>1, <2>1, <2>2, <2>3 DEF LiveInv, SolvedSoFar, Solved, InCovers, OutCovers, Taken, SameKey
    <2>4. CASE i = next
      <3>1. n \in Nodes /\ order[i] = n
        BY <2>4 DEF Nodes
      <3>2. in[n] = NewIn(n) /\ out[n] = NewOut(n, in)
        BY <1>1, <1>2, <2>1, <2>2, <3>1 DEF LiveInv, Noted
      <3>3. ASSUME NEW u \in use[n] \cup {x \in out[n] : x.value \notin def[n]}
            PROVE  \E w \in in[n] : SameKey(u, w)
        <4> DEFINE first == CopyAll(in[n], use[n])
                   rest  == {x \in out[n] : x.value \notin def[n]}
        <4>1. in[n] = CopyAll(first, rest)
          BY <3>2 DEF NewIn
        <4> HIDE DEF first, rest
        <4>2. CASE u \in use[n]
          <5>1. \E w \in first : SameKey(u, w)
            BY <4>2, CopyAllCovers DEF first
          <5>2. first \subseteq in[n]
            BY <4>1 DEF CopyAll
          <5> QED BY <5>1, <5>2
        <4>3. CASE u \in rest
          BY <4>1, <4>3, CopyAllCovers
        <4> QED BY <3>3, <4>2, <4>3 DEF rest
      <3>4. ASSUME NEW s \in succ[n], NEW u \in in[s], Taken(u, n)
            PROVE  \E w \in out[n] : SameKey(Use(u.value, Anywhere), w)
        <4> DEFINE taken == {Use(v.value, Anywhere) :
                               v \in {w \in UNION {in[m] : m \in succ[n]} : Taken(w, n)}}
        <4>1. Use(u.value, Anywhere) \in taken
          BY <3>4
        <4>2. out[n] = CopyAll(out[n], taken)
          BY <3>2 DEF NewOut
        <4> HIDE DEF taken
        <4> QED BY <4>1, <4>2, CopyAllCovers
      <3>5. Solved(n)
        BY <3>3, <3>4 DEF Solved, InCovers, OutCovers
      <3> QED BY <1>1, <2>2, <3>1, <3>5 DEF Solved, InCovers, OutCovers, Taken, SameKey
    <2>5. i \in Int /\ next \in Int
      BY DEF LiveInv, Flow, Noted
    <2> QED BY <1>5, <2>3, <2>4, <2>5
  <1>6. Named'
    BY <1>1 DEF LiveInv, Named
  <1> QED BY <1>1, <1>4, <1>5, <1>6 DEF LiveInv, SolvedSoFar

\* Another pass starts with nothing visited.
LEMMA RepeatLive ==
  ASSUME LiveInv, RepeatPass
  PROVE  LiveInv'
  <1>1. \A i \in DOMAIN order : ~(i < 1)
    BY DEF LiveInv, Flow
  <1>2. Nodes' = Nodes /\ Named'
    BY DEF RepeatPass, function, Nodes, LiveInv, Named
  <1> QED BY <1>1, <1>2
      DEF RepeatPass, function, nodes, LiveInv, Flow, Noted, SolvedSoFar

\* The pass that ends the analysis went over every node.
LEMMA SetUpLive ==
  ASSUME LiveInv, SetUpLiveSetsAndMappings
  PROVE  LiveInv'
  <1>1. /\ phase = "converge" /\ converged /\ next > Len(order) /\ phase' = "done"
        /\ live' = in
        /\ liveValuesMap' = [n \in Nodes |->
                               [v \in {u.value : u \in in[n]} \cup def[n] |-> v]]
        /\ UNCHANGED <<order, succ, use, def, in, out, next, converged, checkpointBlocks>>
    BY DEF SetUpLiveSetsAndMappings, function
  <1>2. \A n \in Nodes : Solved(n)
    <2>1. TAKE n \in Nodes
    <2>2. PICK i \in DOMAIN order : n = order[i]
      BY DEF Nodes
    <2>3. i < next
      BY <1>1 DEF LiveInv, Flow, Noted
    <2> QED BY <1>1, <2>2, <2>3 DEF LiveInv, SolvedSoFar
  <1>3. Nodes' = Nodes /\ \A n \in Nodes : Solved(n)'
    BY <1>1, <1>2 DEF Nodes, Solved, InCovers, OutCovers, Taken, SameKey
  <1>4. Flow' /\ Noted' /\ Named'
    BY <1>1, <1>3 DEF LiveInv, Flow, Noted, Named
  <1>5. \A n \in Nodes :
          DOMAIN liveValuesMap'[n] = {u.value : u \in in'[n]} \cup def'[n]
    BY <1>1
  <1> QED BY <1>1, <1>3, <1>4, <1>5 DEF LiveInv, SolvedSoFar

\* LiveInv is inductive.
LEMMA LiveStep ==
  ASSUME LiveInv, [Next]_vars
  PROVE  LiveInv'
  <1>1. CASE UNCHANGED vars
    <2>1. /\ UNCHANGED <<phase, order, succ, use, def, in, out, next, converged>>
          /\ UNCHANGED <<live, liveValuesMap, checkpointBlocks>>
          /\ Nodes' = Nodes
      BY <1>1 DEF vars, function, nodes, Nodes
    <2>2. \A n : Solved(n) <=> Solved(n)'
      BY <2>1 DEF Solved, InCovers, OutCovers, Taken, SameKey
    <2>3. Flow' /\ Noted' /\ Named'
      BY <2>1 DEF LiveInv, Flow, Noted, Named
    <2> QED BY <2>1, <2>2, <2>3 DEF LiveInv, SolvedSoFar
  <1> QED BY <1>1, SplitLive, AddNodesLive, VisitLive, RepeatLive, SetUpLive DEF Next

\* Every reachable state of the analysis satisfies LiveInv.
THEOREM LiveInvariant == Spec => []LiveInv
  BY LiveInit, LiveStep, PTL DEF Spec

\* Over an edge, what is in the successor is in out, so in or defined.
LEMMA LiveInvMaps == LiveInv => LiveMapped
  <1> SUFFICES ASSUME LiveInv, phase = "done",
                      NEW n \in Nodes, NEW s \in succ[n], NEW u \in live[s],
                      u.from = Anywhere
               PROVE  u.value \in DOMAIN liveValuesMap[n]
    BY DEF LiveMapped
  <1>1. s \in Nodes /\ u \in in[s] /\ Solved(n)
    BY DEF LiveInv, Flow, SolvedSoFar
  <1>2. PICK w \in out[n] : w.value = u.value
    BY <1>1 DEF Solved, OutCovers, Taken, SameKey, Use
  <1>3. w.value \in def[n] \/ \E x \in in[n] : x.value = w.value
    BY <1>1 DEF Solved, InCovers, SameKey
  <1> QED BY <1>2, <1>3 DEF LiveInv, SolvedSoFar

\* fixDominance finds, in every predecessor of a block, the mapping of every
\* value that is live at its start: doLiveAnalysis stops only when the sets
\* satisfy their equations.
THEOREM LiveValuesMapped == Spec => []LiveMapped
  BY LiveInvariant, LiveInvMaps, PTL

----------------------------------------------------------------------------
(* Pointer uses *)

Further(S) == S \cup UNION {program.aliases[w] : w \in S}
IsThrough(more, v, n) ==
  more = [i \in 0 .. n |-> IF i = 0 THEN {v} ELSE Further(more[i - 1])]

\* The pointers gone through from an instruction or argument are such too.
LEMMA ThroughTyped ==
  ASSUME program \in Programs, NEW v \in Values
  PROVE  Through(v) \subseteq Values
  <1> DEFINE n == Cardinality(Values)
             D == SUBSET Values
             m == CHOOSE more : IsThrough(more, v, n)
             step == [i \in 1 .. n |-> [S \in D |-> Further(S)]]
  <1>1. n \in Nat
    BY ValuesAssumption, FS_CardinalityType
  <1>2. \A S \in D : Further(S) \in D
    BY ProgramsAssumption DEF Further
  <1>3. Through(v) = m[n]
    BY DEF Through, IsThrough, Further
  <1> HIDE DEF n
  <1>4. \E f : IsThrough(f, v, n)
    <2>1. {v} \in D /\ step \in [1 .. n -> [D -> D]]
      BY <1>2
    <2> HIDE DEF D, step
    <2>2. PICK f \in [0 .. n -> D] : IsIterated(f, {v}, step, n)
      BY <1>1, <2>1, Iterated
    <2> USE DEF D, step
    <2>3. \A i \in 0 .. n : i # 0 => step[i][f[i - 1]] = Further(f[i - 1])
      BY <1>1
    <2>4. \A i \in 0 .. n : f[i] = IF i = 0 THEN {v} ELSE Further(f[i - 1])
      BY <2>2, <2>3 DEF IsIterated
    <2> QED BY <2>4 DEF IsThrough
  <1>5. IsThrough(m, v, n)
    BY <1>4, Zenon
  <1> HIDE DEF m
  <1> DEFINE S == {i \in 0 .. n : m[i] \in D}
  <1>6. 0 \in S /\ \A k \in 0 .. n - 1 : k \in S => k + 1 \in S
    BY <1>1, <1>2, <1>5 DEF IsThrough
  <1> HIDE DEF S
  <1>7. 0 .. n \subseteq S
    BY <1>1, <1>6, UpTo
  <1> QED BY <1>1, <1>3, <1>7 DEF S

\* A value mentioned is itself mentioned, with instructions and arguments only.
LEMMA MentionedTyped ==
  ASSUME program \in Programs, NEW v \in Values
  PROVE  v \in Mentioned(v) /\ Mentioned(v) \subseteq Values
  BY ThroughTyped, ProgramsAssumption DEF Mentioned, PointerUses

----------------------------------------------------------------------------
(* Sets of uses *)

NodeUse  == [value : Values, from : Nodes \cup {Anywhere}]
NodeUses == SUBSET NodeUse

\* What CFGNode reads of a block: results, operands and incoming values that
\* are values of the function, and incoming blocks that are blocks of it.
InstructionFrom(N) ==
  [result : Values \cup {Constant}, isPhi : BOOLEAN,
   incoming : Seq((Values \cup {Constant}) \X N),
   operands : SUBSET (Values \cup {Constant})]
NodeInstruction == InstructionFrom(Nodes)

\* Of uses that are not from PHI nodes, CFGCopyAllOperands loses none.
LEMMA CopyAllUses ==
  ASSUME NEW to \in NodeUses, NEW uses \in NodeUses
  PROVE  /\ CopyAll(to, uses) \in NodeUses
         /\ CopyAll(to, uses) \subseteq to \cup uses
         /\ \A v : Use(v, Anywhere) \in CopyAll(to, uses)
                    <=> Use(v, Anywhere) \in to \cup uses
  BY DEF CopyAll, SameKey, Use, NodeUse, NodeUses

\* One operand of an instruction, or one incoming value of a PHI node.
LEMMA UsesOfTyped ==
  ASSUME program \in Programs, NEW v \in Values \cup {Constant},
         NEW from \in Nodes \cup {Anywhere}
  PROVE  /\ UsesOf(v, from) \in NodeUses
         /\ UsesOf(v, from) = IF v = Constant THEN {} ELSE {Use(w, from) : w \in Mentioned(v)}
         /\ v # Constant => \A w \in Mentioned(v) : Use(w, from) \in UsesOf(v, from)
  BY MentionedTyped DEF UsesOf, Use, NodeUse, NodeUses

\* The uses of the first k incoming values: none is left out but for one with
\* its key, and no other is added.
Copied(uses, to, incoming, k) ==
  /\ uses \in NodeUses /\ to \subseteq uses
  /\ \A x \in uses : x \in to \/ \E j \in 1 .. k : x \in UsesOf(incoming[j][1], incoming[j][2])
  /\ \A j \in 1 .. k : \A u \in UsesOf(incoming[j][1], incoming[j][2]) :
       \E x \in uses : SameKey(u, x)

IsCopied(copied, to, incoming, n) ==
  copied = [j \in 0 .. n |->
              IF j = 0 THEN to
              ELSE CopyAll(copied[j - 1], UsesOf(incoming[j][1], incoming[j][2]))]

\* The loop over the incoming values ends with all of their uses.
LEMMA CopyIncomingIs ==
  ASSUME program \in Programs, NEW to \in NodeUses,
         NEW incoming \in Seq((Values \cup {Constant}) \X Nodes)
  PROVE  Copied(CopyIncoming(to, incoming), to, incoming, Len(incoming))
  <1> DEFINE n == Len(incoming)
             uses(j) == UsesOf(incoming[j][1], incoming[j][2])
             c == CHOOSE copied : IsCopied(copied, to, incoming, n)
             step == [j \in 1 .. n |-> [S \in NodeUses |-> CopyAll(S, uses(j))]]
  <1>1. n \in Nat
    OBVIOUS
  <1>2. CopyIncoming(to, incoming) = c[n]
    BY DEF CopyIncoming, IsCopied
  <1>3. \A j \in 1 .. n : uses(j) \in NodeUses
    <2> TAKE j \in 1 .. n
    <2>1. incoming[j] \in (Values \cup {Constant}) \X Nodes
      OBVIOUS
    <2>2. incoming[j][1] \in Values \cup {Constant} /\ incoming[j][2] \in Nodes
      BY <2>1
    <2> QED BY <2>2, UsesOfTyped
  <1> HIDE DEF n
  <1>4. \E f : IsCopied(f, to, incoming, n)
    <2>1. \A j \in 1 .. n : \A S \in NodeUses : CopyAll(S, uses(j)) \in NodeUses
      BY <1>3, CopyAllUses
    <2>2. to \in NodeUses /\ step \in [1 .. n -> [NodeUses -> NodeUses]]
      BY <2>1
    <2> HIDE DEF step
    <2>3. PICK f \in [0 .. n -> NodeUses] : IsIterated(f, to, step, n)
      BY <1>1, <2>2, Iterated
    <2> USE DEF step
    <2>4. \A j \in 0 .. n : j # 0 => step[j][f[j - 1]] = CopyAll(f[j - 1], uses(j))
      BY <1>1
    <2>5. \A j \in 0 .. n : f[j] = IF j = 0 THEN to ELSE CopyAll(f[j - 1], uses(j))
      BY <2>3, <2>4 DEF IsIterated
    <2> QED BY <2>5 DEF IsCopied
  <1>5. IsCopied(c, to, incoming, n)
    BY <1>4, Zenon
  <1> HIDE DEF c, uses
  <1> DEFINE S == {j \in 0 .. n : Copied(c[j], to, incoming, j)}
  <1>6. 0 \in S
    BY <1>1, <1>5 DEF IsCopied, Copied
  <1>7. ASSUME NEW k \in 0 .. n - 1, k \in S PROVE k + 1 \in S
    <2>1. c[k + 1] = CopyAll(c[k], uses(k + 1))
      BY <1>1, <1>5 DEF IsCopied, uses
    <2> DEFINE e == c[k + 1]
               added == uses(k + 1)
    <2>2. c[k] \in NodeUses /\ added \in NodeUses /\ e = CopyAll(c[k], added)
      BY <1>1, <1>3, <1>7, <2>1 DEF Copied
    <2> HIDE DEF e, added
    <2>3. /\ e \in NodeUses /\ e \subseteq c[k] \cup added /\ c[k] \subseteq e
          /\ \A u \in added : \E x \in e : SameKey(u, x)
      <3>1. c[k] \subseteq e
        BY <2>2 DEF CopyAll
      <3>2. e \in NodeUses /\ e \subseteq c[k] \cup added
        BY <2>2, CopyAllUses
      <3>3. \A u \in added : \E x \in e : SameKey(u, x)
        BY <2>2, CopyAllCovers
      <3> QED BY <3>1, <3>2, <3>3
    <2>4. /\ to \subseteq c[k]
          /\ \A x \in c[k] : x \in to \/ \E j \in 1 .. k : x \in uses(j)
          /\ \A j \in 1 .. k : \A u \in uses(j) : \E x \in c[k] : SameKey(u, x)
      BY <1>7 DEF Copied, uses
    <2>5. \A x \in e : x \in to \/ \E j \in 1 .. k + 1 : x \in uses(j)
      BY <2>3, <2>4 DEF added
    <2>6. \A j \in 1 .. k + 1 : \A u \in uses(j) : \E x \in e : SameKey(u, x)
      <3> TAKE j \in 1 .. k + 1
      <3>1. CASE j = k + 1
        BY <2>3, <3>1 DEF added
      <3>2. CASE j \in 1 .. k
        BY <2>3, <2>4, <3>2
      <3> QED BY <3>1, <3>2
    <2>7. Copied(e, to, incoming, k + 1)
      BY <2>3, <2>4, <2>5, <2>6 DEF Copied, uses
    <2> QED BY <1>1, <2>7 DEF e
  <1> HIDE DEF S
  <1>8. 0 .. n \subseteq S
    BY <1>1, <1>6, <1>7, UpTo
  <1> QED BY <1>1, <1>2, <1>8 DEF S, n

----------------------------------------------------------------------------
(* CFGNode's constructor *)

\* A PHI node takes v from block m.
Incomes(inst, m, v) ==
  /\ inst.isPhi
  /\ \E j \in DOMAIN inst.incoming :
       /\ inst.incoming[j][2] = m /\ inst.incoming[j][1] # Constant
       /\ v \in Mentioned(inst.incoming[j][1])

\* What the instructions from the a-th on add up to.
FromOn(node, insts, a) ==
  /\ node.use \in NodeUses
  /\ node.def = {v \in Values : \E i \in a .. Len(insts) : insts[i].result = v}
  /\ \A v \in Values :
       Use(v, Anywhere) \in node.use
         <=> \E i \in a .. Len(insts) :
               Needs(insts[i], v) /\ \A j \in a .. i - 1 : insts[j].result # v
  /\ \A x \in node.use :
       x.from # Anywhere => \E i \in a .. Len(insts) : Incomes(insts[i], x.from, x.value)
  /\ \A i \in a .. Len(insts) : \A m, v :
       Incomes(insts[i], m, v) => \E x \in node.use : x.value = v /\ x.from # Anywhere

\* What one instruction more adds.
Added(new, inst, node) ==
  /\ new.use \in NodeUses
  /\ new.def = node.def \cup ({inst.result} \cap Values)
  /\ \A v \in Values :
       Use(v, Anywhere) \in new.use
         <=> Needs(inst, v) \/ (Use(v, Anywhere) \in node.use /\ v # inst.result)
  /\ \A x \in new.use :
       x.from # Anywhere => x \in node.use \/ Incomes(inst, x.from, x.value)
  /\ \A x \in node.use : x.from # Anywhere => x \in new.use
  /\ \A m, v : Incomes(inst, m, v) => \E x \in new.use : x.value = v /\ x.from # Anywhere

\* A use is its value and its source block.
LEMMA UseIs == \A v, from, w, of :
                 /\ Use(v, from).value = v /\ Use(v, from).from = from
                 /\ Use(v, from) = Use(w, of) <=> v = w /\ from = of
  <1> TAKE v, from, w, of
  <1>1. Use(v, from).value = v /\ Use(v, from).from = from
    BY DEF Use
  <1>2. Use(w, of).value = w /\ Use(w, of).from = of
    BY DEF Use
  <1> QED BY <1>1, <1>2

\* What a PHI node makes of the sets of what comes after it in its block ...
LEMMA AddPhi ==
  ASSUME program \in Programs, Anywhere \notin Nodes, NEW inst \in NodeInstruction,
         NEW node, node.use \in NodeUses, inst.isPhi
  PROVE  Added(AddInstruction(inst, node), inst, node)
  <1> DEFINE new  == AddInstruction(inst, node)
             uses == node.use \ {Use(inst.result, Anywhere)}
             inc  == inst.incoming
  <1>1. new.def = node.def \cup ({inst.result} \cap Values) /\ new.use = CopyIncoming(uses, inc)
    BY DEF AddInstruction
  <1>2. inc \in Seq((Values \cup {Constant}) \X Nodes) /\ uses \in NodeUses
    BY DEF NodeInstruction, InstructionFrom, NodeUses
  <1>3. \A j \in 1 .. Len(inc) : /\ inc[j][1] \in Values \cup {Constant}
                                 /\ inc[j][2] \in Nodes
    <2> TAKE j \in 1 .. Len(inc)
    <2>1. inc[j] \in (Values \cup {Constant}) \X Nodes
      BY <1>2
    <2> QED BY <2>1
  <1>4. DOMAIN inc = 1 .. Len(inc)
    BY <1>2
  <1> HIDE DEF uses, inc
  <1>5. Copied(new.use, uses, inc, Len(inc))
    BY <1>1, <1>2, CopyIncomingIs
  <1>6. \A j \in 1 .. Len(inc) : \A x :
          x \in UsesOf(inc[j][1], inc[j][2])
            <=> /\ inc[j][1] # Constant
                /\ \E w \in Mentioned(inc[j][1]) : x = Use(w, inc[j][2])
    BY <1>3 DEF UsesOf
  <1> HIDE DEF new
  <1>7. ASSUME NEW x \in new.use, x \notin uses
        PROVE  x.from # Anywhere /\ Incomes(inst, x.from, x.value)
    <2>1. PICK j \in 1 .. Len(inc) : x \in UsesOf(inc[j][1], inc[j][2])
      BY <1>5, <1>7 DEF Copied
    <2>2. PICK w \in Mentioned(inc[j][1]) : x = Use(w, inc[j][2])
      BY <1>6, <2>1
    <2>3. x.value = w /\ x.from = inc[j][2]
      BY <2>2, UseIs
    <2> QED BY <1>3, <1>4, <1>6, <2>1, <2>3 DEF Incomes, inc
  <1>8. \A v \in Values :
          Use(v, Anywhere) \in new.use <=> Use(v, Anywhere) \in node.use /\ v # inst.result
    <2>1. uses \subseteq new.use
      BY <1>5 DEF Copied
    <2> QED BY <1>7, <2>1, UseIs DEF uses
  <1>9. ASSUME NEW m, NEW v, Incomes(inst, m, v)
        PROVE  \E x \in new.use : x.value = v /\ x.from # Anywhere
    <2>1. PICK j \in 1 .. Len(inc) : /\ inc[j][1] # Constant
                                     /\ v \in Mentioned(inc[j][1])
      BY <1>4, <1>9 DEF Incomes, inc
    <2>2. Use(v, inc[j][2]) \in UsesOf(inc[j][1], inc[j][2])
      BY <1>6, <2>1
    <2>3. PICK x \in new.use : SameKey(Use(v, inc[j][2]), x)
      BY <1>5, <2>2 DEF Copied
    <2> QED BY <1>3, <2>3, UseIs DEF SameKey
  <1>10. \A x \in node.use : x.from # Anywhere => x \in new.use
    BY <1>5, UseIs DEF Copied, uses
  <1>11. \A v : ~Needs(inst, v)
    BY DEF Needs
  <1>12. new.use \in NodeUses
    BY <1>5 DEF Copied
  <1>13. \A x \in uses : x \in node.use
    BY DEF uses
  <1> QED BY <1>1, <1>7, <1>8, <1>9, <1>10, <1>11, <1>12, <1>13 DEF Added, new

\* ... and any other instruction,
LEMMA AddOther ==
  ASSUME program \in Programs, Anywhere \notin Nodes, NEW inst \in NodeInstruction,
         NEW node, node.use \in NodeUses, ~inst.isPhi
  PROVE  Added(AddInstruction(inst, node), inst, node)
  <1> DEFINE new  == AddInstruction(inst, node)
             uses == node.use \ {Use(inst.result, Anywhere)}
             more == UNION {UsesOf(v, Anywhere) : v \in inst.operands}
  <1>1. new.def = node.def \cup ({inst.result} \cap Values) /\ new.use = CopyAll(uses, more)
    BY DEF AddInstruction
  <1>2. inst.operands \subseteq Values \cup {Constant}
    BY DEF NodeInstruction, InstructionFrom
  <1>3. \A x : x \in more <=> \E v \in inst.operands :
                               v # Constant /\ \E w \in Mentioned(v) : x = Use(w, Anywhere)
    BY DEF UsesOf
  <1> HIDE DEF new
  <1>4. more \in NodeUses
    <2>1. ASSUME NEW v \in inst.operands PROVE UsesOf(v, Anywhere) \subseteq NodeUse
      BY <1>2, UsesOfTyped DEF NodeUses
    <2> QED BY <2>1 DEF NodeUses, more
  <1>5. uses \in NodeUses
    BY DEF NodeUses
  <1> HIDE DEF uses, more
  <1>6. /\ new.use \in NodeUses /\ new.use \subseteq uses \cup more
        /\ \A v : Use(v, Anywhere) \in new.use <=> Use(v, Anywhere) \in uses \cup more
    BY <1>1, <1>4, <1>5, CopyAllUses
  <1>7. \A v \in Values : Use(v, Anywhere) \in more <=> Needs(inst, v)
    <2> TAKE v \in Values
    <2>1. \A w \in inst.operands : v \in Mentioned(w) => w # Constant
      BY ValuesAssumption DEF Mentioned
    <2>2. Needs(inst, v) <=> \E w \in inst.operands : v \in Mentioned(w)
      BY DEF Needs
    <2> QED BY <1>3, <2>1, <2>2, UseIs
  <1>8. \A v \in Values :
          Use(v, Anywhere) \in uses <=> Use(v, Anywhere) \in node.use /\ v # inst.result
    BY UseIs DEF uses
  <1>9. \A x \in more : x.from = Anywhere
    BY <1>3, UseIs
  <1>10. \A x \in node.use : x.from # Anywhere => x \in new.use
    <2>1. \A x \in node.use : x.from # Anywhere => x \in uses
      BY UseIs DEF uses
    <2>2. uses \subseteq new.use
      BY <1>1 DEF CopyAll
    <2> QED BY <2>1, <2>2
  <1>11. \A m, v : ~Incomes(inst, m, v)
    BY DEF Incomes
  <1>12. \A x \in uses : x \in node.use
    BY DEF uses
  <1>13. \A v \in Values :
           Use(v, Anywhere) \in new.use
             <=> Needs(inst, v) \/ (Use(v, Anywhere) \in node.use /\ v # inst.result)
    BY <1>6, <1>7, <1>8
  <1>14. \A x \in new.use : x.from # Anywhere => x \in node.use
    BY <1>6, <1>9, <1>12
  <1> QED BY <1>1, <1>6, <1>10, <1>11, <1>13, <1>14 DEF Added, new

\* ... so each of them.
LEMMA AddInstructionIs ==
  ASSUME program \in Programs, Anywhere \notin Nodes, NEW inst \in NodeInstruction,
         NEW node, node.use \in NodeUses
  PROVE  Added(AddInstruction(inst, node), inst, node)
  <1>1. inst.isPhi \/ ~inst.isPhi
    OBVIOUS
  <1> QED BY <1>1, AddPhi, AddOther

\* One instruction more, in front of those there were.
LEMMA FromOnStep ==
  ASSUME NEW insts \in Seq(NodeInstruction), NEW a \in 1 .. Len(insts),
         NEW node, NEW new, FromOn(node, insts, a + 1), Added(new, insts[a], node)
  PROVE  FromOn(new, insts, a)
  <1> DEFINE size == Len(insts)
  <1>1. size \in Nat /\ a \in Nat /\ a <= size
    OBVIOUS
  <1> HIDE DEF size
  <1>2. \A i : i \in a .. size <=> i = a \/ i \in a + 1 .. size
    BY <1>1
  <1>3. new.def = {v \in Values : \E i \in a .. size : insts[i].result = v}
    BY <1>2 DEF FromOn, Added, size
  <1>4. ASSUME NEW v \in Values
        PROVE  Use(v, Anywhere) \in new.use
                 <=> \E i \in a .. size :
                       Needs(insts[i], v) /\ \A j \in a .. i - 1 : insts[j].result # v
    <2>1. Use(v, Anywhere) \in new.use
            <=> Needs(insts[a], v) \/ (Use(v, Anywhere) \in node.use /\ v # insts[a].result)
      BY DEF Added
    <2>2. Use(v, Anywhere) \in node.use
            <=> \E i \in a + 1 .. size :
                  Needs(insts[i], v) /\ \A j \in a + 1 .. i - 1 : insts[j].result # v
      BY DEF FromOn, size
    <2>3. \A i \in a + 1 .. size :
            (\A j \in a .. i - 1 : insts[j].result # v)
              <=> insts[a].result # v /\ \A j \in a + 1 .. i - 1 : insts[j].result # v
      <3> TAKE i \in a + 1 .. size
      <3>1. \A j : j \in a .. i - 1 <=> j = a \/ j \in a + 1 .. i - 1
        BY <1>1
      <3> QED BY <3>1
    <2>4. \A j \in a .. a - 1 : FALSE
      BY <1>1
    <2> QED BY <1>2, <2>1, <2>2, <2>3, <2>4
  <1>5. \A x \in new.use :
          x.from # Anywhere => \E i \in a .. size : Incomes(insts[i], x.from, x.value)
    BY <1>2 DEF FromOn, Added, size
  <1>6. ASSUME NEW i \in a .. size, NEW m, NEW v, Incomes(insts[i], m, v)
        PROVE  \E x \in new.use : x.value = v /\ x.from # Anywhere
    <2>1. CASE i = a
      BY <1>6, <2>1 DEF Added
    <2>2. CASE i \in a + 1 .. size
      <3>1. PICK x \in node.use : x.value = v /\ x.from # Anywhere
        BY <1>6, <2>2 DEF FromOn, size
      <3> QED BY <3>1 DEF Added
    <2> QED BY <1>2, <2>1, <2>2
  <1> QED BY <1>3, <1>4, <1>5, <1>6 DEF FromOn, Added, size

NodeSets == [def : SUBSET Values, use : NodeUses]

IsLast(last, insts, size) ==
  last = [k \in 0 .. size |->
            IF k = 0 THEN [def |-> {}, use |-> {}]
            ELSE AddInstruction(insts[size - k + 1], last[k - 1])]

\* All instructions of a block, but for the arguments of the entry block.
LastOf(n) ==
  (CHOOSE last : IsLast(last, code[n], Len(code[n])))[Len(code[n])]

\* The loop from the end of a block to its first instruction.
LEMMA LastOfIs ==
  ASSUME program \in Programs, Anywhere \notin Nodes,
         NEW n, code[n] \in Seq(NodeInstruction)
  PROVE  LastOf(n) \in NodeSets /\ FromOn(LastOf(n), code[n], 1)
  <1> DEFINE insts == code[n]
             size  == Len(insts)
             empty == [def |-> {}, use |-> {}]
             D     == NodeSets
             last  == CHOOSE f : IsLast(f, insts, size)
             step  == [k \in 1 .. size |->
                         [node \in D |-> AddInstruction(insts[size - k + 1], node)]]
  <1>1. size \in Nat /\ insts \in Seq(NodeInstruction)
    OBVIOUS
  <1>2. \A k \in 1 .. size : size - k + 1 \in 1 .. size /\ insts[size - k + 1] \in NodeInstruction
    BY <1>1
  <1>3. LastOf(n) = last[size]
    BY DEF LastOf
  <1> HIDE DEF size, insts
  <1>4. empty \in D /\ FromOn(empty, insts, size + 1)
    <2>1. empty \in D
      BY DEF NodeSets, NodeUses
    <2>2. \A i \in size + 1 .. Len(insts) : FALSE
      BY <1>1 DEF size
    <2>3. empty.def = {} /\ empty.use = {}
      OBVIOUS
    <2> HIDE DEF empty
    <2>4. empty.use \in NodeUses
      BY <2>3 DEF NodeUses
    <2> QED BY <2>1, <2>2, <2>3, <2>4 DEF FromOn
  <1>5. ASSUME NEW k \in 1 .. size, NEW node \in D
        PROVE  LET new == AddInstruction(insts[size - k + 1], node)
               IN  new \in D /\ Added(new, insts[size - k + 1], node)
    <2> DEFINE new == AddInstruction(insts[size - k + 1], node)
    <2>1. node.use \in NodeUses /\ node.def \subseteq Values
      BY DEF NodeSets
    <2>2. Added(new, insts[size - k + 1], node)
      BY <1>2, <2>1, AddInstructionIs
    <2>3. new = [def |-> new.def, use |-> new.use]
      BY DEF AddInstruction
    <2> HIDE DEF new
    <2>4. new.use \in NodeUses /\ new.def \subseteq Values
      BY <2>1, <2>2 DEF Added
    <2>5. new \in D
      BY <2>3, <2>4 DEF NodeSets
    <2> QED BY <2>2, <2>5 DEF new
  <1>6. \E f : IsLast(f, insts, size)
    <2>1. empty \in D /\ step \in [1 .. size -> [D -> D]]
      BY <1>4, <1>5
    <2> HIDE DEF D, step, empty
    <2>2. PICK f \in [0 .. size -> D] : IsIterated(f, empty, step, size)
      BY <1>1, <2>1, Iterated
    <2> USE DEF D, step
    <2>3. \A k \in 0 .. size :
            k # 0 => step[k][f[k - 1]] = AddInstruction(insts[size - k + 1], f[k - 1])
      BY <1>1
    <2>4. \A k \in 0 .. size :
            f[k] = IF k = 0 THEN empty ELSE AddInstruction(insts[size - k + 1], f[k - 1])
      BY <2>2, <2>3 DEF IsIterated
    <2> QED BY <2>4 DEF IsLast, empty
  <1>7. IsLast(last, insts, size)
    BY <1>6, Zenon
  <1> HIDE DEF last, empty
  <1> DEFINE S == {k \in 0 .. size : last[k] \in D /\ FromOn(last[k], insts, size - k + 1)}
  <1>8. 0 \in S
    BY <1>1, <1>4, <1>7 DEF IsLast, empty
  <1>9. ASSUME NEW k \in 0 .. size - 1, k \in S PROVE k + 1 \in S
    <2> DEFINE a == size - k
    <2>1. /\ a \in 1 .. size /\ a + 1 = size - k + 1 /\ size - (k + 1) + 1 = a
          /\ k + 1 \in 1 .. size /\ k + 1 \in 0 .. size
          /\ k + 1 # 0 /\ (k + 1) - 1 = k
      BY <1>1
    <2>2. last[k + 1] = AddInstruction(insts[a], last[k])
      <3>1. \A i \in 0 .. size :
              i # 0 => last[i] = AddInstruction(insts[size - i + 1], last[i - 1])
        BY <1>7 DEF IsLast
      <3> QED BY <2>1, <3>1
    <2>3. last[k] \in D /\ FromOn(last[k], insts, a + 1)
      BY <1>9, <2>1
    <2>4. last[k + 1] \in D /\ Added(last[k + 1], insts[a], last[k])
      BY <1>5, <2>1, <2>2, <2>3
    <2> HIDE DEF a
    <2>5. FromOn(last[k + 1], insts, a)
      BY <1>1, <2>1, <2>3, <2>4, FromOnStep DEF size
    <2> QED BY <2>1, <2>4, <2>5
  <1> HIDE DEF S
  <1>10. 0 .. size \subseteq S
    BY <1>1, <1>8, <1>9, UpTo
  <1>11. size \in S /\ size - size + 1 = 1
    BY <1>1, <1>10
  <1> QED BY <1>3, <1>11 DEF S, insts

\* What the sets of a node say of its block.
Describes(node, n) ==
  /\ node.use \in NodeUses
  /\ node.def = {v \in Values : Defines(n, v)}
  /\ \A v \in Values : Use(v, Anywhere) \in node.use <=> NeededIn(n, v)
  /\ \A x \in node.use : x.from # Anywhere => NeededOnEdge(x.from, n, x.value)
  /\ \A m, v : NeededOnEdge(m, n, v) => \E x \in node.use : x.value = v /\ x.from # Anywhere

\* A value needed on an edge is one of those a PHI node takes from there.
LEMMA EdgeIncomes ==
  \A m, n, v : NeededOnEdge(m, n, v) <=> \E i \in DOMAIN code[n] : Incomes(code[n][i], m, v)
  BY DEF NeededOnEdge, Incomes

\* CFGNode's constructor: use and def are those of the block's instructions.
LEMMA NewNodeIs ==
  ASSUME program \in Programs, Anywhere \notin Nodes,
         NEW n, code[n] \in Seq(NodeInstruction)
  PROVE  Describes(NewNode(n), n)
  <1> DEFINE last == LastOf(n)
             new  == NewNode(n)
             entry == n = Head(order)
  <1>1. new = IF entry THEN WithArguments(last) ELSE last
    BY DEF NewNode, LastOf, IsLast
  <1>2. last \in NodeSets /\ FromOn(last, code[n], 1)
    BY LastOfIs
  <1>3. DOMAIN code[n] = 1 .. Len(code[n])
    OBVIOUS
  <1>4. new.def = last.def \cup (IF entry THEN program.args ELSE {})
    BY <1>1 DEF WithArguments
  <1>5. new.use = last.use \ (IF entry THEN {Use(a, Anywhere) : a \in program.args} ELSE {})
    BY <1>1 DEF WithArguments
  <1>6. program.args \subseteq Values
    BY ProgramsAssumption
  <1> HIDE DEF last, new, entry
  <1>7. new.use \in NodeUses /\ new.use \subseteq last.use
    BY <1>2, <1>5 DEF NodeSets, NodeUses
  <1>8. new.def = {v \in Values : Defines(n, v)}
    BY <1>2, <1>3, <1>4, <1>6 DEF FromOn, Defines, entry
  <1>9. ASSUME NEW v \in Values
        PROVE  Use(v, Anywhere) \in new.use <=> NeededIn(n, v)
    <2>1. Use(v, Anywhere) \in last.use
            <=> \E i \in DOMAIN code[n] :
                  Needs(code[n][i], v) /\ \A j \in 1 .. i - 1 : code[n][j].result # v
      BY <1>2, <1>3 DEF FromOn
    <2>2. Use(v, Anywhere) \in new.use
            <=> Use(v, Anywhere) \in last.use /\ ~(entry /\ v \in program.args)
      BY <1>5, UseIs
    <2> QED BY <2>1, <2>2 DEF NeededIn, entry
  <1>10. \A x \in new.use : x.from # Anywhere => NeededOnEdge(x.from, n, x.value)
    BY <1>2, <1>3, <1>7, EdgeIncomes DEF FromOn
  <1>11. \A x \in last.use : x.from # Anywhere => x \in new.use
    BY <1>5, UseIs
  <1>12. ASSUME NEW m, NEW v, NeededOnEdge(m, n, v)
         PROVE  \E x \in new.use : x.value = v /\ x.from # Anywhere
    <2>1. PICK i \in 1 .. Len(code[n]) : Incomes(code[n][i], m, v)
      BY <1>3, <1>12, EdgeIncomes
    <2>2. \A k \in 1 .. Len(code[n]) : \A y, z :
            Incomes(code[n][k], y, z) => \E x \in last.use : x.value = z /\ x.from # Anywhere
      BY <1>2 DEF FromOn
    <2>3. PICK x \in last.use : x.value = v /\ x.from # Anywhere
      BY <2>1, <2>2
    <2> QED BY <1>11, <2>3
  <1> QED BY <1>7, <1>8, <1>9, <1>10, <1>12 DEF Describes, new

----------------------------------------------------------------------------
(* The blocks at whose start a value is live *)

Free(v)  == {n \in Nodes : ~Defines(n, v)}
Start(v) == {n \in Nodes : NeededIn(n, v)}
              \cup {n \in Free(v) : \E s \in succ[n] : NeededOnEdge(n, s, v)}
Earlier(S, free, suc) == S \cup {n \in free : suc[n] \cap S # {}}
Closed(S, free, suc)  == \A n \in free : suc[n] \cap S # {} => n \in S

IsBack(back, start, free, suc, size) ==
  back = [i \in 0 .. size |-> IF i = 0 THEN start ELSE Earlier(back[i - 1], free, suc)]
Back(start, free, suc, size) == CHOOSE back : IsBack(back, start, free, suc, size)

\* Liveness as the last of the sets that go back along the edges.
LEMMA LiveAtIsBack ==
  \A v : LiveAt(v) = Back(Start(v), Free(v), succ, Len(order))[Len(order)]
  BY DEF LiveAt, Back, IsBack, Start, Free, Earlier

\* There are no more blocks than places in the order.
LEMMA NodesFinite ==
  ASSUME Flow
  PROVE  IsFiniteSet(Nodes) /\ Cardinality(Nodes) <= Len(order) /\ Len(order) \in Nat
  <1>1. DOMAIN order = 1 .. Len(order) /\ Len(order) \in Nat
    BY DEF Flow
  <1>2. IsFiniteSet(DOMAIN order) /\ Cardinality(DOMAIN order) = Len(order)
    <2> DEFINE n == Len(order)
    <2>1. n \in Nat /\ DOMAIN order = 1 .. n
      BY <1>1
    <2> HIDE DEF n
    <2>2. /\ IsFiniteSet(1 .. n)
          /\ Cardinality(1 .. n) = IF 1 > n THEN 0 ELSE n - 1 + 1
      BY <2>1, FS_Interval
    <2> QED BY <2>1, <2>2 DEF n
  <1>3. [i \in DOMAIN order |-> order[i]] \in Surjection(DOMAIN order, Nodes)
    BY DEF Surjection, Nodes
  <1> QED BY <1>1, <1>2, <1>3, FS_Surjection

\* Going back over as many edges as there are blocks is enough: each step but
\* the last ones adds a block.
LEMMA BackIs ==
  ASSUME NEW all, IsFiniteSet(all), NEW size \in Nat, Cardinality(all) <= size,
         NEW start \in SUBSET all, NEW free \in SUBSET all, NEW suc
  PROVE  LET back == Back(start, free, suc, size)[size]
         IN  /\ back \subseteq all /\ start \subseteq back
             /\ Closed(back, free, suc)
             /\ \A S : start \subseteq S /\ Closed(S, free, suc) => back \subseteq S
  <1> DEFINE D == SUBSET all
             b == Back(start, free, suc, size)
             step == [i \in 1 .. size |-> [S \in D |-> Earlier(S, free, suc)]]
  <1>1. \A S \in D : Earlier(S, free, suc) \in D
    BY DEF Earlier
  <1>2. \E f : IsBack(f, start, free, suc, size)
    <2>1. start \in D /\ step \in [1 .. size -> [D -> D]]
      BY <1>1
    <2> HIDE DEF D, step
    <2>2. PICK f \in [0 .. size -> D] : IsIterated(f, start, step, size)
      BY <2>1, Iterated
    <2> USE DEF D, step
    <2>3. \A i \in 0 .. size : i # 0 => step[i][f[i - 1]] = Earlier(f[i - 1], free, suc)
      OBVIOUS
    <2>4. \A i \in 0 .. size : f[i] = IF i = 0 THEN start ELSE Earlier(f[i - 1], free, suc)
      BY <2>2, <2>3 DEF IsIterated
    <2> QED BY <2>4 DEF IsBack
  <1>3. IsBack(b, start, free, suc, size)
    BY <1>2, Zenon DEF Back
  <1> HIDE DEF b
  <1>4. b[0] = start /\ \A k \in 0 .. size - 1 : b[k + 1] = Earlier(b[k], free, suc)
    <2>1. \A i \in 0 .. size : b[i] = IF i = 0 THEN start ELSE Earlier(b[i - 1], free, suc)
      BY <1>3 DEF IsBack
    <2>2. \A k \in 0 .. size - 1 : k + 1 \in 0 .. size /\ k + 1 # 0 /\ (k + 1) - 1 = k
      OBVIOUS
    <2> QED BY <2>1, <2>2
  <1> DEFINE Grown(k) == /\ b[k] \in D /\ start \subseteq b[k]
                         /\ Closed(b[k], free, suc) \/ Cardinality(b[k]) >= k
                         /\ \A S : start \subseteq S /\ Closed(S, free, suc) => b[k] \subseteq S
             T == {k \in 0 .. size : Grown(k)}
  <1>5. 0 \in T
    <2>1. Cardinality(start) >= 0
      <3>1. IsFiniteSet(start)
        BY FS_Subset
      <3> QED BY <3>1, FS_CardinalityType
    <2> QED BY <1>4, <2>1
  <1>6. ASSUME NEW k \in 0 .. size - 1, k \in T PROVE k + 1 \in T
    <2> DEFINE x == b[k]
               y == b[k + 1]
    <2>1. y = Earlier(x, free, suc) /\ Grown(k) /\ k \in Nat
      BY <1>4, <1>6
    <2>2. y \in D /\ start \subseteq y
      BY <1>1, <2>1 DEF Earlier
    <2>3. \A S : start \subseteq S /\ Closed(S, free, suc) => y \subseteq S
      <3> SUFFICES ASSUME NEW S, start \subseteq S, Closed(S, free, suc) PROVE y \subseteq S
        OBVIOUS
      <3>1. x \subseteq S
        BY <2>1
      <3> QED BY <2>1, <3>1 DEF Earlier, Closed
    <2>4. Closed(y, free, suc) \/ Cardinality(y) >= k + 1
      <3>1. CASE Closed(x, free, suc)
        <4>1. y = x
          BY <2>1, <3>1 DEF Earlier, Closed
        <4> QED BY <3>1, <4>1
      <3>2. CASE ~Closed(x, free, suc)
        <4>1. x \subseteq y /\ x # y
          BY <2>1, <3>2 DEF Earlier, Closed
        <4>2. IsFiniteSet(x) /\ IsFiniteSet(y)
          BY <2>1, <2>2, FS_Subset
        <4>3. /\ Cardinality(x) \in Nat /\ Cardinality(y) \in Nat
              /\ Cardinality(x) < Cardinality(y)
          <5>1. Cardinality(x) <= Cardinality(y)
                  /\ (Cardinality(x) = Cardinality(y) => x = y)
            BY <4>1, <4>2, FS_Subset
          <5> QED BY <4>1, <4>2, <5>1, FS_CardinalityType
        <4>4. Cardinality(x) >= k
          BY <2>1, <3>2
        <4> QED BY <2>1, <4>3, <4>4
      <3> QED BY <3>1, <3>2
    <2>5. Grown(k + 1)
      BY <2>2, <2>3, <2>4
    <2> QED BY <2>5
  <1> HIDE DEF T, Grown
  <1>7. 0 .. size \subseteq T
    BY <1>5, <1>6, UpTo
  <1>8. Grown(size)
    BY <1>7 DEF T
  <1>9. Closed(b[size], free, suc)
    <2>1. CASE Cardinality(b[size]) >= size
      <3>1. b[size] \subseteq all
        BY <1>8 DEF Grown
      <3>2. Cardinality(b[size]) = Cardinality(all) => b[size] = all
        BY <3>1, FS_Subset
      <3>3. /\ Cardinality(b[size]) <= Cardinality(all)
            /\ Cardinality(b[size]) \in Nat /\ Cardinality(all) \in Nat
        BY <3>1, FS_Subset, FS_CardinalityType
      <3>4. b[size] = all
        BY <2>1, <3>2, <3>3
      <3> QED BY <3>4 DEF Closed
    <2> QED BY <1>8, <2>1 DEF Grown
  <1> QED BY <1>8, <1>9 DEF Grown, b

\* Liveness is the least solution: it holds what is needed, is closed, and is
\* in everything that does and is.
LEMMA LiveAtIs ==
  ASSUME Flow, NEW v
  PROVE  /\ LiveAt(v) \subseteq Nodes /\ Start(v) \subseteq LiveAt(v)
         /\ Closed(LiveAt(v), Free(v), succ)
         /\ \A S : Start(v) \subseteq S /\ Closed(S, Free(v), succ) => LiveAt(v) \subseteq S
  <1>1. Start(v) \in SUBSET Nodes /\ Free(v) \in SUBSET Nodes
    BY DEF Start, Free
  <1> DEFINE n == Len(order)
             b == Back(Start(v), Free(v), succ, n)[n]
  <1>2. IsFiniteSet(Nodes) /\ Cardinality(Nodes) <= n /\ n \in Nat
    BY NodesFinite
  <1>3. LiveAt(v) = b
    BY LiveAtIsBack
  <1> HIDE DEF n
  <1>4. /\ b \subseteq Nodes /\ Start(v) \subseteq b
        /\ Closed(b, Free(v), succ)
        /\ \A S : Start(v) \subseteq S /\ Closed(S, Free(v), succ) => b \subseteq S
    BY <1>1, <1>2, BackIs
  <1> QED BY <1>3, <1>4

----------------------------------------------------------------------------
(* Blocks and their instructions *)

\* Instructions stay such, and PHI nodes stay PHI nodes, under the blocks' names.
LEMMA InNamesIs ==
  ASSUME NEW inst \in Instructions, NEW N, \A b \in Blocks : Name(b) \in N
  PROVE  InNames(inst) \in InstructionFrom(N) /\ InNames(inst).isPhi = inst.isPhi
  <1> DEFINE inc == inst.incoming
             named == [i \in DOMAIN inc |-> <<inc[i][1], Name(inc[i][2])>>]
             D == (Values \cup {Constant}) \X N
  <1>1. inc \in Seq((Values \cup {Constant}) \X Blocks)
    BY DEF Instructions
  <1>2. \A i \in 1 .. Len(inc) : named[i] \in D
    <2> TAKE i \in 1 .. Len(inc)
    <2>1. inc[i] \in (Values \cup {Constant}) \X Blocks
      BY <1>1
    <2>2. inc[i][1] \in Values \cup {Constant} /\ inc[i][2] \in Blocks
      BY <2>1
    <2> QED BY <1>1, <2>2
  <1>3. named \in [1 .. Len(inc) -> D] /\ Len(inc) \in Nat
    BY <1>1, <1>2
  <1>4. named \in Seq(D)
    BY <1>3, SeqDef, ZenonT(30)
  <1>5. InNames(inst) = [inst EXCEPT !.incoming = named]
    BY DEF InNames
  <1> HIDE DEF named, D, inc
  <1>6. InNames(inst) = [result |-> inst.result, isPhi |-> inst.isPhi,
                         incoming |-> named, operands |-> inst.operands]
    BY <1>5 DEF Instructions
  <1> QED BY <1>4, <1>6 DEF InstructionFrom, Instructions, D

RenamedSource(m, n, to) == IF m = n THEN to ELSE m

\* Only the sources of PHI nodes change.
LEMMA RenamedIs ==
  ASSUME NEW N, NEW insts \in Seq(InstructionFrom(N)), NEW n, NEW to
  PROVE  LET new == Renamed(insts, n, to)
         IN  /\ new \in Seq(InstructionFrom(N \cup {to})) /\ DOMAIN new = DOMAIN insts
             /\ \A i \in DOMAIN insts :
                  /\ new[i].isPhi = insts[i].isPhi
                  /\ DOMAIN new[i].incoming = DOMAIN insts[i].incoming
                  /\ \A j \in DOMAIN insts[i].incoming :
                       /\ new[i].incoming[j][1] = insts[i].incoming[j][1]
                       /\ new[i].incoming[j][2]
                            = RenamedSource(insts[i].incoming[j][2], n, to)
  <1> DEFINE new == Renamed(insts, n, to)
             S   == Values \cup {Constant}
             one(i) == [j \in DOMAIN insts[i].incoming |->
                          IF insts[i].incoming[j][2] = n THEN <<insts[i].incoming[j][1], to>>
                          ELSE insts[i].incoming[j]]
  <1>1. new = [i \in DOMAIN insts |-> [insts[i] EXCEPT !.incoming = one(i)]]
    BY DEF Renamed
  <1>2. ASSUME NEW i \in DOMAIN insts
        PROVE  /\ insts[i] \in InstructionFrom(N)
               /\ one(i) \in Seq(S \X (N \cup {to}))
               /\ DOMAIN one(i) = DOMAIN insts[i].incoming
               /\ \A j \in DOMAIN insts[i].incoming :
                    /\ one(i)[j][1] = insts[i].incoming[j][1]
                    /\ one(i)[j][2] = RenamedSource(insts[i].incoming[j][2], n, to)
    <2> DEFINE inc == insts[i].incoming
               o   == one(i)
    <2>1. insts[i] \in InstructionFrom(N)
      OBVIOUS
    <2>2. inc \in Seq(S \X N)
      BY <2>1 DEF InstructionFrom
    <2>3. /\ DOMAIN inc = 1 .. Len(inc) /\ Len(inc) \in Nat
          /\ \A j \in DOMAIN inc : inc[j] \in S \X N
      BY <2>2
    <2>4. o = [j \in DOMAIN inc |-> IF inc[j][2] = n THEN <<inc[j][1], to>> ELSE inc[j]]
      OBVIOUS
    <2> HIDE DEF inc, o, S
    <2>5. \A j \in DOMAIN inc : /\ o[j] \in S \X (N \cup {to}) /\ o[j][1] = inc[j][1]
                                /\ o[j][2] = RenamedSource(inc[j][2], n, to)
      <3> TAKE j \in DOMAIN inc
      <3>1. inc[j] \in S \X N /\ inc[j][1] \in S /\ inc[j][2] \in N
        BY <2>3
      <3>2. CASE inc[j][2] = n
        BY <2>4, <3>1, <3>2 DEF RenamedSource
      <3>3. CASE inc[j][2] # n
        BY <2>4, <3>1, <3>3 DEF RenamedSource
      <3> QED BY <3>2, <3>3
    <2>6. o \in [1 .. Len(inc) -> S \X (N \cup {to})]
      BY <2>3, <2>4, <2>5
    <2>7. o \in Seq(S \X (N \cup {to}))
      BY <2>3, <2>6, SeqDef
    <2> QED BY <2>1, <2>3, <2>4, <2>5, <2>7 DEF inc, o, S
  <1> HIDE DEF one, new, S
  <1>3. ASSUME NEW i \in DOMAIN insts
        PROVE  new[i] = [result |-> insts[i].result, isPhi |-> insts[i].isPhi,
                         incoming |-> one(i), operands |-> insts[i].operands]
    <2>1. insts[i] \in InstructionFrom(N)
      BY <1>2
    <2>2. new[i] = [insts[i] EXCEPT !.incoming = one(i)]
      BY <1>1
    <2> QED BY <2>1, <2>2 DEF InstructionFrom
  <1>4. \A i \in DOMAIN insts : new[i] \in InstructionFrom(N \cup {to})
    <2> TAKE i \in DOMAIN insts
    <2>1. /\ insts[i].result \in S /\ insts[i].isPhi \in BOOLEAN
          /\ insts[i].operands \subseteq S
      BY <1>2 DEF InstructionFrom, S
    <2>2. one(i) \in Seq(S \X (N \cup {to}))
      BY <1>2
    <2> DEFINE P == S \X (N \cup {to})
    <2> HIDE DEF P
    <2>3. [result |-> insts[i].result, isPhi |-> insts[i].isPhi,
           incoming |-> one(i), operands |-> insts[i].operands]
            \in [result : S, isPhi : BOOLEAN, incoming : Seq(P), operands : SUBSET S]
      BY <2>1, <2>2 DEF P
    <2>4. new[i] \in [result : S, isPhi : BOOLEAN, incoming : Seq(P), operands : SUBSET S]
      BY <1>3, <2>3
    <2> QED BY <2>4 DEF InstructionFrom, S, P
  <1>5. DOMAIN insts = 1 .. Len(insts) /\ Len(insts) \in Nat /\ DOMAIN new = DOMAIN insts
    BY <1>1
  <1>6. new \in Seq(InstructionFrom(N \cup {to}))
    <2>1. new \in [1 .. Len(insts) -> InstructionFrom(N \cup {to})]
      BY <1>1, <1>4, <1>5
    <2> QED BY <1>5, <2>1, SeqDef
  <1> QED BY <1>2, <1>3, <1>5, <1>6 DEF new

NoPhiIn(insts) == \A i \in DOMAIN insts : ~insts[i].isPhi

\* The PHI nodes of a block come first, and the rest has none.
LEMMA Halves ==
  ASSUME NEW n, NEW D, code[n] \in Seq(D), PhisFirst(code[n])
  PROVE  /\ Phis(n) \in Seq(D) /\ Rest(n) \in Seq(D)
         /\ PhisFirst(Phis(n)) /\ NoPhiIn(Rest(n))
         /\ DOMAIN Phis(n) \subseteq DOMAIN code[n]
         /\ \A i \in DOMAIN Phis(n) : Phis(n)[i] = code[n][i]
  <1> DEFINE insts == code[n]
             size  == Len(insts)
             First(i) == /\ i > size \/ ~insts[i].isPhi
                         /\ \A j \in 1 .. i - 1 : insts[j].isPhi
             f == FirstNonPhi(n)
  <1>1. size \in Nat /\ DOMAIN insts = 1 .. size
    OBVIOUS
  <1>2. f = CHOOSE i \in 1 .. size + 1 : First(i)
    BY DEF FirstNonPhi
  <1> HIDE DEF insts, f, size
  <1>3. \E i \in 1 .. size + 1 : First(i)
    <2> DEFINE T == {i \in 1 .. size + 1 : i > size \/ ~insts[i].isPhi}
    <2>1. size + 1 \in T /\ T \subseteq Nat
      BY <1>1
    <2> HIDE DEF T
    <2>2. PICK i \in T : \A j \in T : ~(<<j, i>> \in OpToRel(<, Nat))
      <3>1. T # {}
        BY <2>1
      <3> QED BY <2>1, <3>1, WFMin, NatLessThanWellFounded
    <2>3. \A j \in T : ~(j < i)
      BY <2>1, <2>2 DEF OpToRel
    <2>4. i \in 1 .. size + 1 /\ (i > size \/ ~insts[i].isPhi)
      BY DEF T
    <2>5. \A j \in 1 .. i - 1 : insts[j].isPhi
      <3> TAKE j \in 1 .. i - 1
      <3>1. j < i /\ j \in 1 .. size + 1 /\ ~(j > size)
        BY <1>1, <2>4
      <3> QED BY <2>3, <3>1 DEF T
    <2> QED BY <2>4, <2>5
  <1>4. f \in 1 .. size + 1 /\ First(f)
    BY <1>2, <1>3, Zenon
  <1>5. Phis(n) = SubSeq(insts, 1, f - 1) /\ Rest(n) = SubSeq(insts, f, size)
    BY DEF Phis, Rest, insts, f, size
  <1>6. insts \in Seq(D)
    BY DEF insts
  <1>7. /\ Phis(n) \in Seq(D) /\ Len(Phis(n)) = f - 1
        /\ \A i \in 1 .. f - 1 : Phis(n)[i] = insts[i]
    BY <1>1, <1>4, <1>5, <1>6 DEF size
  <1>8. /\ Rest(n) \in Seq(D) /\ Len(Rest(n)) = size - f + 1
        /\ \A i \in 1 .. size - f + 1 : Rest(n)[i] = insts[f + i - 1]
    BY <1>1, <1>4, <1>5, <1>6 DEF size
  <1>9. PhisFirst(Phis(n)) /\ DOMAIN Phis(n) \subseteq DOMAIN insts
    BY <1>1, <1>4, <1>7 DEF PhisFirst
  <1>10. ASSUME NEW i \in DOMAIN Rest(n) PROVE ~Rest(n)[i].isPhi
    <2>1. i \in 1 .. size - f + 1 /\ f + i - 1 \in 1 .. size /\ f \in 1 .. size
      BY <1>1, <1>4, <1>8
    <2>2. ~insts[f].isPhi
      <3>1. ~(f > size)
        BY <1>1, <2>1
      <3> QED BY <1>4, <3>1
    <2>3. ~insts[f + i - 1].isPhi
      <3>1. f < f + i - 1 \/ f = f + i - 1
        BY <2>1
      <3>2. f \in DOMAIN insts /\ f + i - 1 \in DOMAIN insts
        BY <1>1, <2>1
      <3> QED BY <2>2, <3>1, <3>2 DEF PhisFirst, insts
    <2> QED BY <1>8, <2>1, <2>3
  <1> QED BY <1>1, <1>7, <1>8, <1>9, <1>10 DEF NoPhiIn, insts

----------------------------------------------------------------------------
(* The invariant *)

BlockSuffixes == {"", ".no_phis"}

\* The blocks as the splitting leaves them: no block to checkpoint is one left
\* with PHI nodes, and none that took the rest of another has any.
Coded ==
  /\ program \in Programs /\ Nodes \subseteq Blocks \X BlockSuffixes
  /\ DOMAIN code = Nodes
  /\ \A n \in Nodes : code[n] \in Seq(NodeInstruction) /\ PhisFirst(code[n])
  /\ phiNodes \subseteq Nodes /\ checkpointBlocks \cap phiNodes = {}
  /\ \A n \in phiNodes : n[2] = ""
  /\ \A n \in Nodes : n[2] = ".no_phis" => NoPhiIn(code[n])
  /\ \A n \in Nodes : n[2] = "" /\ NoPhis(n) \in Nodes => n \in phiNodes
  /\ phase # "split" => Unsplit = {}

\* Every use recorded of a node is needed in its block or on an edge into it,
\* or live: what comes in over an edge is known with its edge only where it
\* comes in.
InSound(n) ==
  \A u \in in[n] : IF u.from = Anywhere THEN n \in LiveAt(u.value)
                   ELSE NeededOnEdge(u.from, n, u.value)
OutSound(n) ==
  \A u \in out[n] :
    u.from = Anywhere
      /\ \E s \in succ[n] : s \in LiveAt(u.value) \/ NeededOnEdge(n, s, u.value)

\* A node that is there describes its block, and its sets are sound.
Recorded ==
  /\ phase = "split" => in = << >>
  /\ next \in 1 .. Len(order) + 1
  /\ phase # "split" =>
       /\ DOMAIN in = Nodes
       /\ \A n \in Nodes : /\ Describes([def |-> def[n], use |-> use[n]], n)
                           /\ in[n] \in NodeUses /\ out[n] \in NodeUses
                           /\ InSound(n) /\ OutSound(n)

SetsInv == LiveInv /\ Coded /\ Recorded

\* No block is the place that stands for none.
LEMMA NotAnywhere ==
  ASSUME Coded
  PROVE  Anywhere \notin Nodes
  BY ValuesAssumption DEF Coded, BlockSuffixes

\* Two pairs with the same components are one.
LEMMA SamePair ==
  ASSUME NEW S, NEW T, NEW m \in S \X T, NEW n \in S \X T, m[1] = n[1], m[2] = n[2]
  PROVE  m = n
  OBVIOUS

\* The function as the pass is given it.
LEMMA InitCoded ==
  ASSUME Init
  PROVE  Coded /\ Recorded
  <1>1. /\ program \in Programs /\ program.order \in Seq(Blocks)
        /\ Blocks = {program.order[i] : i \in DOMAIN program.order}
        /\ program.code \in [Blocks -> Seq(Instructions)]
        /\ \A b \in Blocks : PhisFirst(program.code[b])
        /\ Len(program.order) > 0
    BY ProgramsAssumption DEF Init
  <1>2. Nodes = {Name(b) : b \in Blocks}
    <2>1. DOMAIN order = DOMAIN program.order
      BY DEF Init
    <2>2. \A i \in DOMAIN order : order[i] = Name(program.order[i])
      BY DEF Init
    <2> QED BY <1>1, <2>1, <2>2 DEF Nodes
  <1>3. \A b : Name(b)[1] = b /\ Name(b)[2] = "" /\ NoPhis(Name(b))[2] = ".no_phis"
    BY DEF Name, NoPhis
  <1>4. Nodes \subseteq Blocks \X BlockSuffixes
    <2> SUFFICES ASSUME NEW n \in Nodes PROVE n \in Blocks \X BlockSuffixes
      OBVIOUS
    <2>1. PICK b \in Blocks : n = Name(b)
      BY <1>2
    <2> QED BY <2>1 DEF Name, BlockSuffixes
  <1>5. DOMAIN code = Nodes
    BY <1>2 DEF Init
  <1>6. ASSUME NEW n \in Nodes
        PROVE  code[n] \in Seq(NodeInstruction) /\ PhisFirst(code[n])
    <2>1. n[1] \in Blocks /\ n \in {Name(b) : b \in Blocks}
      BY <1>2, <1>3
    <2> DEFINE insts == program.code[n[1]]
    <2>2. code[n] = [i \in DOMAIN insts |-> InNames(insts[i])]
      BY <2>1 DEF Init
    <2>3. insts \in Seq(Instructions) /\ PhisFirst(insts)
      BY <1>1, <2>1
    <2> HIDE DEF insts
    <2>4. \A i \in DOMAIN insts : /\ InNames(insts[i]) \in NodeInstruction
                                  /\ InNames(insts[i]).isPhi = insts[i].isPhi
      <3>1. \A b \in Blocks : Name(b) \in Nodes
        BY <1>2
      <3>2. \A i \in DOMAIN insts : insts[i] \in Instructions
        BY <2>3
      <3> QED BY <3>1, <3>2, InNamesIs DEF NodeInstruction
    <2>5. DOMAIN insts = 1 .. Len(insts) /\ Len(insts) \in Nat
      BY <2>3
    <2>6. code[n] \in [1 .. Len(insts) -> NodeInstruction]
      BY <2>2, <2>4, <2>5
    <2>7. code[n] \in Seq(NodeInstruction)
      BY <2>5, <2>6, SeqDef
    <2> QED BY <2>2, <2>3, <2>4, <2>7 DEF PhisFirst
  <1>7. Coded
    <2>1. ASSUME NEW n \in Nodes PROVE n[2] = "" /\ NoPhis(n) \notin Nodes
      <3>1. \A m \in Nodes : \E b \in Blocks : m = Name(b)
        BY <1>2
      <3>2. n[2] = "" /\ NoPhis(n)[2] = ".no_phis"
        <4>1. PICK b \in Blocks : n = Name(b)
          BY <3>1
        <4> QED BY <1>3, <4>1
      <3> QED BY <1>3, <3>1, <3>2
    <2>2. phiNodes = {} /\ phase = "split"
      BY DEF Init
    <2> QED BY <1>1, <1>4, <1>5, <1>6, <2>1, <2>2 DEF Coded
  <1>8. Len(order) \in Nat
    <2>1. order \in Seq(Nodes)
      BY LiveInit DEF LiveInv, Flow
    <2> QED BY <2>1
  <1>9. Recorded
    BY <1>8 DEF Recorded, Init
  <1> QED BY <1>7, <1>9

\* Splitting a block leaves the PHI nodes and the rest well-formed.
LEMMA SplitCoded ==
  ASSUME LiveInv, Coded, Recorded, SplitBasicBlock
  PROVE  Coded' /\ Recorded'
  <1>1. PICK n \in Unsplit :
          /\ order' = InsertAt(order, Position(n) + 1, NoPhis(n))
          /\ LET halves == [m \in DOMAIN code \cup {NoPhis(n)} |->
                             IF m = n THEN Phis(n)
                             ELSE IF m = NoPhis(n) THEN Rest(n) ELSE code[m]]
             IN  code' = [m \in DOMAIN halves |-> Renamed(halves[m], n, NoPhis(n))]
          /\ phiNodes' = phiNodes \cup {n}
          /\ checkpointBlocks' = MovedPast(checkpointBlocks, n)
    BY DEF SplitBasicBlock
  <1> DEFINE to == NoPhis(n)
  <1>2. /\ phase = "split" /\ phase' = "split" /\ program' = program
        /\ in' = in /\ next' = next
    BY DEF SplitBasicBlock
  <1>3. /\ n \in Nodes /\ HasPhis(n) /\ n \notin phiNodes
    BY DEF Unsplit
  <1>4. to[1] = n[1] /\ to[2] = ".no_phis" /\ \A m : NoPhis(m)[1] = m[1]
    BY DEF NoPhis
  <1>5. n[2] = ""
    <2>1. code[n] \in Seq(NodeInstruction)
      BY <1>3 DEF Coded
    <2>2. 1 \in DOMAIN code[n] /\ code[n][1].isPhi
      BY <1>3, <2>1 DEF HasPhis
    <2> QED BY <1>3, <2>2 DEF Coded, NoPhiIn, LiveInv, Named
  <1>6. to \notin Nodes
    BY <1>3, <1>5 DEF Coded
  <1>7. /\ Nodes' = Nodes \cup {to} /\ order' \in Seq(Nodes') /\ Len(order') = Len(order) + 1
    <2>1. Position(n) \in DOMAIN order /\ order \in Seq(Nodes) /\ order \in Seq(Nodes \cup {to})
      BY <1>3 DEF Nodes, Position, LiveInv, Flow
    <2> DEFINE i == Position(n) + 1
               S == Nodes \cup {to}
    <2>2. i \in 1 .. Len(order) + 1 /\ to \in S /\ order \in Seq(S)
      BY <2>1
    <2>3. order' = InsertAt(order, i, to)
      BY <1>1
    <2> HIDE DEF i, to, S
    <2>4. /\ order' \in Seq(S)
          /\ \A j \in DOMAIN order' : order'[j] \in {order[k] : k \in DOMAIN order} \cup {to}
          /\ \A k \in DOMAIN order : \E j \in DOMAIN order' : order'[j] = order[k]
          /\ \E j \in DOMAIN order' : order'[j] = to
      BY <2>2, <2>3, Inserted, SMTT(30)
    <2>5. Len(order') = Len(order) + 1
      <3>1. SubSeq(order, 1, i - 1) \in Seq(S) /\ Len(SubSeq(order, 1, i - 1)) = i - 1
        BY <2>2
      <3>2. SubSeq(order, i, Len(order)) \in Seq(S)
              /\ Len(SubSeq(order, i, Len(order))) = Len(order) - i + 1
        BY <2>2
      <3>3. order' = SubSeq(order, 1, i - 1) \o <<to>> \o SubSeq(order, i, Len(order))
        BY <2>3 DEF InsertAt
      <3>4. SubSeq(order, 1, i - 1) \o <<to>> \in Seq(S)
              /\ Len(SubSeq(order, 1, i - 1) \o <<to>>) = i
        BY <2>2, <3>1
      <3>5. Len(order') = i + (Len(order) - i + 1)
        BY <3>2, <3>3, <3>4
      <3>6. i \in Int /\ Len(order) \in Int
        BY <2>2
      <3> QED BY <3>5, <3>6
    <2>6. Nodes' = Nodes \cup {to}
      BY <2>4 DEF Nodes
    <2> QED BY <2>4, <2>5, <2>6 DEF S
  <1> DEFINE half(m) == IF m = n THEN Phis(n) ELSE IF m = to THEN Rest(n) ELSE code[m]
  <1>8. /\ DOMAIN code' = Nodes'
        /\ \A m \in Nodes' : code'[m] = Renamed(half(m), n, to)
    BY <1>1, <1>7 DEF Coded
  <1>9. /\ Phis(n) \in Seq(NodeInstruction) /\ Rest(n) \in Seq(NodeInstruction)
        /\ PhisFirst(Phis(n)) /\ NoPhiIn(Rest(n))
        /\ DOMAIN Phis(n) \subseteq DOMAIN code[n]
        /\ \A i \in DOMAIN Phis(n) : Phis(n)[i] = code[n][i]
    BY <1>3, Halves DEF Coded
  <1> HIDE DEF to
  <1>10. ASSUME NEW m \in Nodes'
         PROVE  /\ half(m) \in Seq(NodeInstruction) /\ PhisFirst(half(m))
                /\ m[2] = ".no_phis" => NoPhiIn(half(m))
                /\ \A i \in DOMAIN half(m) :
                     half(m)[i].isPhi =>
                       m \in Nodes /\ i \in DOMAIN code[m] /\ half(m)[i] = code[m][i]
    <2>1. CASE m = n
      BY <1>3, <1>5, <1>9, <2>1
    <2>2. CASE m = to
      BY <1>3, <1>6, <1>9, <2>2 DEF NoPhiIn, PhisFirst
    <2>3. CASE m \notin {n, to}
      BY <1>7, <2>3 DEF Coded
    <2> QED BY <2>1, <2>2, <2>3
  <1> HIDE DEF half
  <1>11. ASSUME NEW m \in Nodes'
         PROVE  /\ code'[m] \in Seq(NodeInstruction') /\ PhisFirst(code'[m])
                /\ m[2] = ".no_phis" => NoPhiIn(code'[m])
    <2> DEFINE old == half(m)
               new == code'[m]
    <2>1. old \in Seq(InstructionFrom(Nodes)) /\ new = Renamed(old, n, to)
      BY <1>8, <1>10 DEF NodeInstruction
    <2>2. InstructionFrom(Nodes \cup {to}) = NodeInstruction'
      BY <1>7 DEF NodeInstruction, InstructionFrom
    <2>3. \A i \in DOMAIN old :
            old[i].isPhi => m \in Nodes /\ i \in DOMAIN code[m] /\ old[i] = code[m][i]
      BY <1>10
    <2>4. PhisFirst(old) /\ (m[2] = ".no_phis" => NoPhiIn(old))
      BY <1>10
    <2> HIDE DEF old, new
    <2>5. /\ new \in Seq(InstructionFrom(Nodes \cup {to})) /\ DOMAIN new = DOMAIN old
          /\ \A i \in DOMAIN old :
               /\ new[i].isPhi = old[i].isPhi
               /\ DOMAIN new[i].incoming = DOMAIN old[i].incoming
               /\ \A j \in DOMAIN old[i].incoming :
                    /\ new[i].incoming[j][1] = old[i].incoming[j][1]
                    /\ new[i].incoming[j][2] = RenamedSource(old[i].incoming[j][2], n, to)
      BY <2>1, RenamedIs, SMTT(30)
    <2>6. PhisFirst(new) /\ (m[2] = ".no_phis" => NoPhiIn(new))
      BY <2>4, <2>5 DEF PhisFirst, NoPhiIn
    <2> QED BY <2>2, <2>5, <2>6 DEF new
  <1>12. ASSUME NEW m \in Nodes', m[2] = "", NoPhis(m) \in Nodes'
         PROVE  m \in phiNodes'
    <2>1. m \in Nodes
      BY <1>4, <1>7, <1>12 DEF to
    <2>2. CASE NoPhis(m) = to
      <3>1. m[1] = n[1]
        BY <1>4, <2>2 DEF to
      <3>2. m = n
        <4>1. m \in Blocks \X BlockSuffixes /\ n \in Blocks \X BlockSuffixes
          BY <1>3, <2>1 DEF Coded
        <4> QED BY <1>5, <1>12, <3>1, <4>1, SamePair
      <3> QED BY <1>1, <3>2
    <2>3. CASE NoPhis(m) \in Nodes
      BY <1>1, <1>12, <2>1, <2>3 DEF Coded
    <2> QED BY <1>7, <1>12, <2>2, <2>3
  <1>13. Nodes' \subseteq Blocks \X BlockSuffixes
    <2>1. n \in Blocks \X BlockSuffixes
      BY <1>3 DEF Coded
    <2>2. n[1] \in Blocks
      BY <2>1
    <2>3. to \in Blocks \X BlockSuffixes
      BY <2>2 DEF to, NoPhis, BlockSuffixes
    <2> QED BY <1>7, <2>3 DEF Coded
  <1>14. /\ phiNodes' \subseteq Nodes' /\ \A m \in phiNodes' : m[2] = ""
         /\ checkpointBlocks' \cap phiNodes' = {}
    BY <1>1, <1>3, <1>4, <1>5, <1>7 DEF Coded, MovedPast, to
  <1>15. Coded'
    BY <1>2, <1>8, <1>11, <1>12, <1>13, <1>14 DEF Coded
  <1>16. Recorded'
    BY <1>2, <1>7 DEF Recorded, LiveInv, Flow
  <1> QED BY <1>15, <1>16

\* What is said of the blocks alone stays as it is once they are split.
LEMMA SameBlocks ==
  ASSUME UNCHANGED <<program, order, succ, code>>
  PROVE  /\ Nodes' = Nodes /\ NodeUses' = NodeUses /\ NodeInstruction' = NodeInstruction
         /\ \A n, v : Defines(n, v)' <=> Defines(n, v)
         /\ \A n, v : NeededIn(n, v)' <=> NeededIn(n, v)
         /\ \A m, n, v : NeededOnEdge(m, n, v)' <=> NeededOnEdge(m, n, v)
         /\ \A v : LiveAt(v)' = LiveAt(v)
         /\ \A node, n : Describes(node, n)' <=> Describes(node, n)
  <1>1. Nodes' = Nodes
    BY DEF Nodes
  <1>2. NodeUses' = NodeUses /\ NodeInstruction' = NodeInstruction
    BY <1>1 DEF NodeUses, NodeUse, NodeInstruction
  <1>3. \A w : Mentioned(w)' = Mentioned(w)
    <2>1. \A w : Through(w)' = Through(w)
      BY DEF Through
    <2> QED BY <2>1 DEF Mentioned, PointerUses
  <1>4. \A n, v : Defines(n, v)' <=> Defines(n, v)
    BY DEF Defines
  <1>5. \A n, v : NeededIn(n, v)' <=> NeededIn(n, v)
    BY <1>3 DEF NeededIn, Needs
  <1>6. \A m, n, v : NeededOnEdge(m, n, v)' <=> NeededOnEdge(m, n, v)
    BY <1>3 DEF NeededOnEdge
  <1>7. \A v : LiveAt(v)' = LiveAt(v)
    <2> TAKE v
    <2>1. Free(v)' = Free(v)
      BY <1>1, <1>4 DEF Free
    <2>2. Start(v)' = Start(v)
      BY <1>1, <1>5, <1>6, <2>1 DEF Start
    <2>3. LiveAt(v)' = Back(Start(v)', Free(v)', succ', Len(order'))[Len(order')]
      BY DEF LiveAt, Back, IsBack, Start, Free, Earlier
    <2>4. LiveAt(v) = Back(Start(v), Free(v), succ, Len(order))[Len(order)]
      BY LiveAtIsBack
    <2> QED BY <2>1, <2>2, <2>3, <2>4
  <1>8. \A node, n : Describes(node, n)' <=> Describes(node, n)
    BY <1>2, <1>4, <1>5, <1>6 DEF Describes
  <1> QED BY <1>1, <1>2, <1>4, <1>5, <1>6, <1>7, <1>8

\* What the code consists of does not change after the split.
LEMMA SameCoded ==
  ASSUME Coded, UNCHANGED function, phase' = phase \/ Unsplit = {}
  PROVE  Coded'
  <1>1. /\ UNCHANGED <<program, order, succ, code, phiNodes, checkpointBlocks>>
    BY DEF function
  <1>2. Nodes' = Nodes /\ NodeInstruction' = NodeInstruction
    BY <1>1, SameBlocks
  <1>3. Unsplit' = Unsplit
    BY <1>1, <1>2 DEF Unsplit, HasPhis
  <1> QED BY <1>1, <1>2, <1>3 DEF Coded

\* Only the values of a node matter to what it describes.
LEMMA DescribesSets ==
  ASSUME NEW node, NEW n
  PROVE  Describes(node, n) <=> Describes([def |-> node.def, use |-> node.use], n)
  BY DEF Describes

\* The nodes' sets are right when they are made ...
LEMMA AddNodesSets ==
  ASSUME SetsInv, AddNodes
  PROVE  Coded' /\ Recorded'
  <1>1. /\ UNCHANGED function /\ Unsplit = {} /\ phase' = "converge" /\ next' = 1
        /\ in' = [n \in Nodes |-> {}] /\ out' = [n \in Nodes |-> {}]
        /\ use' = [n \in Nodes |-> NewNode(n).use]
        /\ def' = [n \in Nodes |-> NewNode(n).def]
    BY DEF AddNodes
  <1>2. UNCHANGED <<program, order, succ, code>>
    BY <1>1 DEF function
  <1>3. Coded'
    BY <1>1, SameCoded DEF SetsInv
  <1>4. ASSUME NEW n \in Nodes
        PROVE  /\ Describes([def |-> def[n], use |-> use[n]], n)'
               /\ in'[n] = {} /\ out'[n] = {}
    <2>1. Describes(NewNode(n), n)
      BY NewNodeIs, NotAnywhere DEF SetsInv, Coded
    <2>2. Describes([def |-> NewNode(n).def, use |-> NewNode(n).use], n)
      BY <2>1, DescribesSets
    <2>3. def'[n] = NewNode(n).def /\ use'[n] = NewNode(n).use
      BY <1>1
    <2>4. Describes([def |-> def'[n], use |-> use'[n]], n)
      BY <2>2, <2>3
    <2>5. /\ NodeUses' = NodeUses
          /\ \A v : Defines(n, v)' <=> Defines(n, v)
          /\ \A v : NeededIn(n, v)' <=> NeededIn(n, v)
          /\ \A m, v : NeededOnEdge(m, n, v)' <=> NeededOnEdge(m, n, v)
      BY <1>2, SameBlocks
    <2> QED BY <1>1, <2>4, <2>5 DEF Describes
  <1>5. Nodes' = Nodes
    BY <1>2, SameBlocks
  <1>6. Len(order) \in Nat /\ next' \in 1 .. Len(order') + 1
    BY <1>1, <1>2 DEF SetsInv, LiveInv, Flow
  <1>7. DOMAIN in' = Nodes'
    BY <1>1, <1>5
  <1>8. \A n \in Nodes' : /\ in'[n] \in NodeUses' /\ out'[n] \in NodeUses'
                          /\ InSound(n)' /\ OutSound(n)'
    BY <1>4, <1>5 DEF NodeUses, InSound, OutSound
  <1>9. Recorded'
    BY <1>1, <1>4, <1>5, <1>6, <1>7, <1>8 DEF Recorded
  <1> QED BY <1>3, <1>9

\* ... and a visit records only what is live.
LEMMA VisitSets ==
  ASSUME SetsInv, VisitNode
  PROVE  Coded' /\ Recorded'
  <1> DEFINE n == order[next]
  <1>1. /\ phase = "converge" /\ phase' = "converge" /\ next <= Len(order) /\ next' = next + 1
        /\ UNCHANGED function /\ def' = def /\ use' = use
        /\ in' = [in EXCEPT ![n] = NewIn(n)]
        /\ out' = [out EXCEPT ![n] = NewOut(n, in')]
    BY DEF VisitNode, nodes
  <1>2. UNCHANGED <<program, order, succ, code>>
    BY <1>1 DEF function
  <1>3. Coded'
    BY <1>1, SameCoded DEF SetsInv
  <1>4. /\ order \in Seq(Nodes) /\ next \in 1 .. Len(order) + 1 /\ n \in Nodes
        /\ \A m \in Nodes : succ[m] \subseteq Nodes
    <2>1. order \in Seq(Nodes) /\ next \in 1 .. Len(order) + 1
      BY DEF SetsInv, LiveInv, Flow, Recorded
    <2>2. next \in DOMAIN order
      BY <1>1, <2>1
    <2> QED BY <2>1, <2>2 DEF Nodes, SetsInv, LiveInv, Flow
  <1>5. /\ in = [m \in Nodes |-> in[m]] /\ out = [m \in Nodes |-> out[m]]
    BY <1>1 DEF SetsInv, LiveInv, Noted
  <1>6. /\ DOMAIN in' = Nodes
        /\ in'[n] = NewIn(n) /\ \A m \in Nodes \ {n} : in'[m] = in[m]
        /\ out'[n] = NewOut(n, in') /\ \A m \in Nodes \ {n} : out'[m] = out[m]
    BY <1>1, <1>4, <1>5
  <1>7. \A m \in Nodes : /\ Describes([def |-> def[m], use |-> use[m]], m)
                         /\ in[m] \in NodeUses /\ out[m] \in NodeUses
                         /\ InSound(m) /\ OutSound(m)
    BY <1>1 DEF SetsInv, Recorded
  <1>8. Flow /\ Anywhere \notin Nodes
    BY NotAnywhere DEF SetsInv, LiveInv
  <1> HIDE DEF n
  <1>9. /\ def[n] = {w \in Values : Defines(n, w)} /\ use[n] \in NodeUses
        /\ \A w \in Values : Use(w, Anywhere) \in use[n] <=> NeededIn(n, w)
        /\ \A x \in use[n] : x.from # Anywhere => NeededOnEdge(x.from, n, x.value)
    BY <1>4, <1>7 DEF Describes
  <1>10. \A u \in NodeUse : u.value \in Values /\ u = Use(u.value, u.from)
                              /\ u.from \in Nodes \cup {Anywhere}
    BY DEF NodeUse, Use
  <1>11. /\ NewIn(n) \in NodeUses
         /\ NewIn(n) \subseteq in[n] \cup use[n] \cup {u \in out[n] : u.value \notin def[n]}
    <2> DEFINE first == CopyAll(in[n], use[n])
               rest  == {u \in out[n] : u.value \notin def[n]}
    <2>1. rest \in NodeUses
      BY <1>4, <1>7 DEF NodeUses
    <2> HIDE DEF rest
    <2>2. first \in NodeUses /\ first \subseteq in[n] \cup use[n]
      BY <1>4, <1>7, <1>9, CopyAllUses
    <2> HIDE DEF first
    <2>3. CopyAll(first, rest) \in NodeUses /\ CopyAll(first, rest) \subseteq first \cup rest
      BY <2>1, <2>2, CopyAllUses
    <2>4. NewIn(n) = CopyAll(first, rest)
      BY DEF NewIn, first, rest
    <2> QED BY <2>2, <2>3, <2>4 DEF rest
  <1>12. ASSUME NEW u \in NewIn(n)
         PROVE  IF u.from = Anywhere THEN n \in LiveAt(u.value)
                ELSE NeededOnEdge(u.from, n, u.value)
    <2>1. u \in NodeUse /\ u.value \in Values /\ u = Use(u.value, u.from)
      BY <1>10, <1>11 DEF NodeUses
    <2>2. CASE u \in in[n]
      BY <1>4, <1>7, <2>2 DEF InSound
    <2>3. CASE u \in use[n] /\ u.from = Anywhere
      <3>1. NeededIn(n, u.value)
        BY <1>9, <2>1, <2>3
      <3>2. n \in Start(u.value)
        BY <1>4, <3>1 DEF Start
      <3> QED BY <1>8, <2>3, <3>2, LiveAtIs
    <2>4. CASE u \in use[n] /\ u.from # Anywhere
      BY <1>9, <2>4
    <2>5. CASE u \in out[n] /\ u.value \notin def[n]
      <3>1. n \in Free(u.value)
        BY <1>4, <1>9, <2>1, <2>5 DEF Free
      <3>2. /\ u.from = Anywhere
            /\ \E s \in succ[n] : s \in LiveAt(u.value) \/ NeededOnEdge(n, s, u.value)
        BY <1>4, <1>7, <2>5 DEF OutSound
      <3>3. CASE \E s \in succ[n] : s \in LiveAt(u.value)
        <4>1. Closed(LiveAt(u.value), Free(u.value), succ)
          BY <1>8, LiveAtIs
        <4> QED BY <3>1, <3>2, <3>3, <4>1 DEF Closed
      <3>4. CASE \E s \in succ[n] : NeededOnEdge(n, s, u.value)
        <4>1. n \in Start(u.value)
          BY <3>1, <3>4 DEF Start
        <4> QED BY <1>8, <3>2, <4>1, LiveAtIs
      <3> QED BY <3>2, <3>3, <3>4
    <2> QED BY <1>11, <2>2, <2>3, <2>4, <2>5
  <1>13. ASSUME NEW m \in Nodes
         PROVE  /\ in'[m] \in NodeUses
                /\ \A u \in in'[m] : IF u.from = Anywhere THEN m \in LiveAt(u.value)
                                     ELSE NeededOnEdge(u.from, m, u.value)
    BY <1>6, <1>7, <1>11, <1>12 DEF InSound
  <1>14. /\ NewOut(n, in') \in NodeUses
         /\ \A u \in NewOut(n, in') :
              u.from = Anywhere
                /\ \E s \in succ[n] : s \in LiveAt(u.value) \/ NeededOnEdge(n, s, u.value)
    <2> DEFINE taken == {Use(u.value, Anywhere) :
                           u \in {w \in UNION {in'[s] : s \in succ[n]} : Taken(w, n)}}
    <2>1. ASSUME NEW x \in taken
          PROVE  /\ x \in NodeUse /\ x.from = Anywhere
                 /\ \E s \in succ[n] : s \in LiveAt(x.value) \/ NeededOnEdge(n, s, x.value)
      <3>0. PICK s \in succ[n] :
              \E w \in in'[s] : Taken(w, n) /\ x = Use(w.value, Anywhere)
        OBVIOUS
      <3>1. PICK w \in in'[s] : Taken(w, n) /\ x = Use(w.value, Anywhere)
        BY <3>0
      <3>2. s \in Nodes
        BY <1>4
      <3>3. w \in NodeUse
        BY <1>13, <3>2 DEF NodeUses
      <3>4. IF w.from = Anywhere THEN s \in LiveAt(w.value) ELSE NeededOnEdge(w.from, s, w.value)
        BY <1>13, <3>2
      <3>5. x.value = w.value /\ x.from = Anywhere
        BY <3>1, UseIs
      <3>6. x \in NodeUse
        BY <1>10, <3>1, <3>3 DEF NodeUse, Use
      <3>7. w.from = Anywhere \/ w.from = n
        BY <3>1 DEF Taken
      <3> QED BY <1>8, <1>4, <3>4, <3>5, <3>6, <3>7
    <2>2. NewOut(n, in') = CopyAll(out[n], taken)
      BY DEF NewOut
    <2> HIDE DEF taken
    <2>3. taken \in NodeUses
      BY <2>1 DEF NodeUses
    <2>4. NewOut(n, in') \in NodeUses /\ NewOut(n, in') \subseteq out[n] \cup taken
      <3>1. out[n] \in NodeUses
        BY <1>4, <1>7
      <3>2. /\ CopyAll(out[n], taken) \in NodeUses
            /\ CopyAll(out[n], taken) \subseteq out[n] \cup taken
        BY <2>3, <3>1, CopyAllUses
      <3> QED BY <2>2, <3>2
    <2>5. \A u \in out[n] :
            u.from = Anywhere
              /\ \E s \in succ[n] : s \in LiveAt(u.value) \/ NeededOnEdge(n, s, u.value)
      BY <1>4, <1>7 DEF OutSound
    <2> QED BY <2>1, <2>4, <2>5
  <1>15. ASSUME NEW m \in Nodes
         PROVE  /\ out'[m] \in NodeUses
                /\ \A u \in out'[m] :
                     u.from = Anywhere
                       /\ \E s \in succ[m] : s \in LiveAt(u.value) \/ NeededOnEdge(m, s, u.value)
    <2>1. CASE m = n
      BY <1>6, <1>14, <2>1
    <2>2. CASE m # n
      BY <1>6, <1>7, <2>2 DEF OutSound
    <2> QED BY <2>1, <2>2
  <1>16. /\ Nodes' = Nodes /\ NodeUses' = NodeUses /\ succ' = succ
         /\ \A m, k, w : NeededOnEdge(m, k, w)' <=> NeededOnEdge(m, k, w)
         /\ \A w : LiveAt(w)' = LiveAt(w)
    BY <1>2, SameBlocks
  <1>17. \A m \in Nodes : InSound(m)' /\ OutSound(m)'
    BY <1>13, <1>15, <1>16 DEF InSound, OutSound
  <1>18. ASSUME NEW m \in Nodes PROVE Describes([def |-> def[m], use |-> use[m]], m)'
    <2>1. /\ NodeUses' = NodeUses
          /\ \A w : Defines(m, w)' <=> Defines(m, w)
          /\ \A w : NeededIn(m, w)' <=> NeededIn(m, w)
          /\ \A k, w : NeededOnEdge(k, m, w)' <=> NeededOnEdge(k, m, w)
      BY <1>2, SameBlocks
    <2>2. Describes([def |-> def[m], use |-> use[m]], m)
      BY <1>7
    <2> QED BY <1>1, <2>1, <2>2 DEF Describes
  <1>19. next' \in 1 .. Len(order') + 1
    BY <1>1, <1>2, <1>4
  <1>20. Recorded'
    <2>1. DOMAIN in' = Nodes'
      BY <1>6, <1>16
    <2>2. ASSUME NEW m \in Nodes'
          PROVE  /\ Describes([def |-> def[m], use |-> use[m]], m)'
                 /\ (in[m] \in NodeUses)' /\ (out[m] \in NodeUses)'
                 /\ InSound(m)' /\ OutSound(m)'
      <3>1. m \in Nodes
        BY <1>16
      <3>2. in'[m] \in NodeUses /\ out'[m] \in NodeUses
        BY <1>13, <1>15, <3>1
      <3> QED BY <1>16, <1>17, <1>18, <3>1, <3>2
    <2>3. phase' # "split"
      BY <1>1
    <2> QED BY <1>19, <2>1, <2>2, <2>3 DEF Recorded
  <1> QED BY <1>3, <1>20

\* A step that leaves the blocks and the sets alone.
LEMMA SameSets ==
  ASSUME SetsInv, UNCHANGED <<function, use, def, in, out>>,
         phase' = phase \/ (phase # "split" /\ phase' # "split"),
         next' \in 1 .. Len(order) + 1
  PROVE  Coded' /\ Recorded'
  <1>1. UNCHANGED <<program, order, succ, code>>
    BY DEF function
  <1>2. /\ Nodes' = Nodes /\ NodeUses' = NodeUses
        /\ \A n, v : Defines(n, v)' <=> Defines(n, v)
        /\ \A n, v : NeededIn(n, v)' <=> NeededIn(n, v)
        /\ \A m, k, w : NeededOnEdge(m, k, w)' <=> NeededOnEdge(m, k, w)
        /\ \A w : LiveAt(w)' = LiveAt(w)
    BY <1>1, SameBlocks
  <1>3. \A n : InSound(n)' <=> InSound(n)
    BY <1>2 DEF InSound
  <1>4. \A n : OutSound(n)' <=> OutSound(n)
    BY <1>1, <1>2 DEF OutSound
  <1>5. \A n : Describes([def |-> def[n], use |-> use[n]], n)'
                 <=> Describes([def |-> def[n], use |-> use[n]], n)
    BY <1>2 DEF Describes
  <1>6. Coded'
    BY SameCoded DEF SetsInv, Coded
  <1> QED BY <1>1, <1>2, <1>3, <1>4, <1>5, <1>6 DEF SetsInv, Recorded

\* SetsInv is inductive.
LEMMA SetsStep ==
  ASSUME SetsInv, [Next]_vars
  PROVE  SetsInv'
  <1>1. LiveInv'
    BY LiveStep DEF SetsInv
  <1>2. next \in 1 .. Len(order) + 1 /\ Len(order) \in Nat
    BY DEF SetsInv, Recorded, LiveInv, Flow
  <1>3. CASE SplitBasicBlock
    BY <1>1, <1>3, SplitCoded DEF SetsInv
  <1>4. CASE AddNodes
    BY <1>1, <1>4, AddNodesSets DEF SetsInv
  <1>5. CASE VisitNode
    BY <1>1, <1>5, VisitSets DEF SetsInv
  <1>6. CASE RepeatPass
    <2>1. Coded' /\ Recorded'
      BY <1>2, <1>6, SameSets DEF RepeatPass, nodes
    <2> QED BY <1>1, <2>1 DEF SetsInv
  <1>7. CASE SetUpLiveSetsAndMappings
    <2>1. Coded' /\ Recorded'
      BY <1>2, <1>7, SameSets DEF SetUpLiveSetsAndMappings
    <2> QED BY <1>1, <2>1 DEF SetsInv
  <1>8. CASE UNCHANGED vars
    <2>1. Coded' /\ Recorded'
      BY <1>2, <1>8, SameSets DEF vars, nodes
    <2> QED BY <1>1, <2>1 DEF SetsInv
  <1> QED BY <1>3, <1>4, <1>5, <1>6, <1>7, <1>8 DEF Next

\* Every reachable state of the analysis satisfies SetsInv.
THEOREM SetsInvariant == Spec => []SetsInv
  <1>1. Init => SetsInv
    BY LiveInit, InitCoded DEF SetsInv
  <1>2. SetsInv /\ [Next]_vars => SetsInv'
    BY SetsStep
  <1> QED BY <1>1, <1>2, PTL DEF Spec

----------------------------------------------------------------------------
(* The theorems *)

\* What SetsInv says, property by property.
LEMMA SetsInvTypes == SetsInv => TypeOK
  <1> SUFFICES ASSUME SetsInv PROVE TypeOK
    OBVIOUS
  <1>1. ASSUME NEW n \in DOMAIN in, NEW u \in in[n] \cup out[n] \cup use[n]
        PROVE  u.value \in Values /\ u.from \in Nodes \cup {Anywhere}
    <2>1. phase # "split" /\ n \in Nodes
      BY <1>1 DEF SetsInv, Recorded
    <2>2. /\ Describes([def |-> def[n], use |-> use[n]], n)
          /\ in[n] \in NodeUses /\ out[n] \in NodeUses
      BY <2>1 DEF SetsInv, Recorded
    <2>3. use[n] \in NodeUses
      BY <2>2 DEF Describes
    <2> QED BY <2>2, <2>3 DEF NodeUses, NodeUse
  <1>2. DOMAIN code = Nodes /\ DOMAIN succ = Nodes
    BY DEF SetsInv, Coded, LiveInv, Flow
  <1>3. phiNodes \cup checkpointBlocks \subseteq Nodes
    BY DEF SetsInv, Coded, LiveInv, Named
  <1> QED BY <1>1, <1>2, <1>3 DEF SetsInv, LiveInv, Noted, Recorded, TypeOK

\* What is recorded of a block is a use of an instruction or argument of main,
\* from a block of it: no constant and no block the splitting did away with.
THEOREM LiveTypes == Spec => []TypeOK
  BY SetsInvariant, SetsInvTypes, PTL

\* A recorded use is of a value that is live there.
LEMMA SetsInvNothingDead == SetsInv => NothingDead
  <1> SUFFICES ASSUME SetsInv, NEW n \in DOMAIN in, NEW v \in Values, Is(n, v)
               PROVE  n \in LiveAt(v)
    BY DEF NothingDead
  <1>1. phase # "split" /\ n \in Nodes
    BY DEF SetsInv, Recorded
  <1>2. InSound(n)
    BY <1>1 DEF SetsInv, Recorded
  <1> QED BY <1>2, UseIs DEF InSound, Is

\* doLiveAnalysis adds to the sets as long as a pass changes them, and never
\* adds a value at the start of a block that nothing after it needs.
THEOREM NothingDeadRecorded == Spec => []NothingDead
  BY SetsInvariant, SetsInvNothingDead, PTL

\* A checkpointed block has no PHI nodes left, so no PHI uses.
LEMMA SetsInvNoPhi == SetsInv => NoPhiCheckpointed
  <1> SUFFICES ASSUME SetsInv, phase = "done",
                      NEW n \in checkpointBlocks, NEW u \in live[n]
               PROVE  u.from = Anywhere
    BY DEF NoPhiCheckpointed
  <1>1. n \in Nodes /\ u \in in[n]
    BY DEF SetsInv, LiveInv, Named, SolvedSoFar
  <1>2. n \notin phiNodes /\ code[n] \in Seq(NodeInstruction) /\ PhisFirst(code[n])
    BY <1>1 DEF SetsInv, Coded
  <1>3. ~HasPhis(n)
    BY <1>1, <1>2 DEF SetsInv, Coded, Unsplit
  <1>4. ASSUME NEW i \in DOMAIN code[n] PROVE ~code[n][i].isPhi
    <2>1. i \in 1 .. Len(code[n]) /\ 1 \in DOMAIN code[n] /\ code[n] # << >>
      BY <1>2
    <2>2. ~code[n][1].isPhi
      BY <1>2, <1>3, <2>1 DEF HasPhis
    <2>3. i = 1 \/ 1 < i
      BY <2>1
    <2> QED BY <1>2, <2>1, <2>2, <2>3 DEF PhisFirst
  <1>5. \A m, v : ~NeededOnEdge(m, n, v)
    BY <1>4 DEF NeededOnEdge
  <1>6. InSound(n)
    BY <1>1 DEF SetsInv, Recorded
  <1> QED BY <1>1, <1>5, <1>6 DEF InSound

\* "Otherwise we will try to checkpoint PHI nodes which will not work": with
\* its PHI nodes split off, a block to checkpoint takes nothing over one edge
\* only, in whatever order the blocks were split.
THEOREM NoPhiSaved == Spec => []NoPhiCheckpointed
  BY SetsInvariant, SetsInvNoPhi, PTL

\* The blocks at whose start v is live whatever PHI nodes take over an edge.
LiveInside(v) ==
  {s \in Nodes : \A S \in SUBSET Nodes :
     {n \in Nodes : NeededIn(n, v)} \subseteq S /\ Closed(S, Free(v), succ) => s \in S}

\* No block takes one value from two predecessors, unless the value is live in
\* it anyway: of two PHI uses of a value the sets keep one.
OneSource ==
  \A s, m, n \in Nodes : \A v \in Values :
    NeededOnEdge(m, s, v) /\ NeededOnEdge(n, s, v) => m = n \/ s \in LiveInside(v)

\* The use that stands in for one not from a PHI node is that use.
LEMMA OneUse ==
  ASSUME SetsInv, phase = "done", NEW n \in Nodes, NEW v, NEW S,
         S \in {in[n], out[n], use[n]},
         NEW w \in S, SameKey(Use(v, Anywhere), w)
  PROVE  Use(v, Anywhere) \in S
  <1>1. S \in NodeUses
    BY DEF SetsInv, Recorded, Describes
  <1>2. w \in NodeUse /\ w.value = v /\ w.from = Anywhere
    BY <1>1, UseIs DEF SameKey, NodeUses
  <1>3. w = Use(v, Anywhere)
    BY <1>2 DEF NodeUse, Use
  <1> QED BY <1>3

\* When nothing changes any more, what out has and def has not, in has.
LEMMA OutIsIn ==
  ASSUME SetsInv, phase = "done",
         NEW n \in Nodes, NEW v \in Values, Use(v, Anywhere) \in out[n], v \notin def[n]
  PROVE  Is(n, v)
  <1>1. Solved(n)
    BY DEF SetsInv, LiveInv, SolvedSoFar
  <1>2. PICK w \in in[n] : SameKey(Use(v, Anywhere), w)
    BY <1>1, UseIs DEF Solved, InCovers
  <1> QED BY <1>2, OneUse DEF Is

\* What is recorded at the start of a block is at the end of those before it.
LEMMA InIsOut ==
  ASSUME SetsInv, phase = "done",
         NEW n \in Nodes, NEW s \in succ[n], NEW v, Is(s, v)
  PROVE  Use(v, Anywhere) \in out[n]
  <1>1. Solved(n)
    BY DEF SetsInv, LiveInv, SolvedSoFar
  <1>2. Use(v, Anywhere) \in in[s] /\ Taken(Use(v, Anywhere), n)
    BY UseIs DEF Taken, Is
  <1>3. Use(Use(v, Anywhere).value, Anywhere) = Use(v, Anywhere)
    BY UseIs
  <1>4. PICK w \in out[n] : SameKey(Use(v, Anywhere), w)
    BY <1>1, <1>2, <1>3 DEF Solved, OutCovers
  <1> QED BY <1>4, OneUse

\* The blocks v is recorded at are closed under going back.
LEMMA IsClosed ==
  ASSUME SetsInv, phase = "done", NEW v \in Values
  PROVE  LET S == {n \in Nodes : Is(n, v)}
         IN  /\ \A n \in Nodes : NeededIn(n, v) => n \in S
             /\ Closed(S, Free(v), succ)
             /\ LiveInside(v) \subseteq S
  <1> DEFINE S == {n \in Nodes : Is(n, v)}
  <1>1. ASSUME NEW n \in Nodes, NeededIn(n, v) PROVE n \in S
    <2>1. Describes([def |-> def[n], use |-> use[n]], n) /\ Solved(n)
      BY DEF SetsInv, LiveInv, SolvedSoFar, Recorded
    <2>2. Use(v, Anywhere) \in use[n]
      BY <1>1, <2>1 DEF Describes
    <2>3. PICK w \in in[n] : SameKey(Use(v, Anywhere), w)
      BY <2>1, <2>2 DEF Solved, InCovers
    <2> QED BY <2>3, OneUse DEF Is
  <1>2. ASSUME NEW n \in Free(v), NEW s \in succ[n], s \in S PROVE n \in S
    <2>1. n \in Nodes /\ v \notin def[n]
      BY DEF Free, SetsInv, Recorded, Describes
    <2>2. Use(v, Anywhere) \in out[n]
      BY <1>2, <2>1, InIsOut
    <2> QED BY <2>1, <2>2, OutIsIn
  <1>3. Closed(S, Free(v), succ)
    BY <1>2 DEF Closed
  <1> HIDE DEF S
  <1>4. S \in SUBSET Nodes
    BY DEF S
  <1>5. LiveInside(v) \subseteq S
    BY <1>1, <1>3, <1>4 DEF LiveInside
  <1> QED BY <1>1, <1>3, <1>5 DEF S

\* A value that block s takes from n is recorded at the end of n.
LEMMA PhiUseOut ==
  ASSUME SetsInv, OneSource, phase = "done",
         NEW n \in Nodes, NEW s \in succ[n], NEW v \in Values, NeededOnEdge(n, s, v)
  PROVE  Use(v, Anywhere) \in out[n]
  <1>1. s \in Nodes /\ Solved(n) /\ Solved(s)
    BY DEF SetsInv, LiveInv, Flow, SolvedSoFar
  <1>2. /\ Describes([def |-> def[s], use |-> use[s]], s) /\ InSound(s)
        /\ in[s] \in NodeUses
    BY <1>1 DEF SetsInv, Recorded
  <1>3. PICK x \in use[s] : x.value = v /\ x.from # Anywhere
    BY <1>2 DEF Describes
  <1>4. PICK w \in in[s] : SameKey(x, w)
    BY <1>1 DEF Solved, InCovers
  <1>5. w.value = v /\ w.from # Anywhere
    BY <1>3, <1>4 DEF SameKey
  <1>6. NeededOnEdge(w.from, s, v) /\ w.from \in Nodes
    BY <1>2, <1>4, <1>5 DEF InSound, NodeUses, NodeUse
  <1>7. CASE w.from = n
    <2>1. PICK y \in out[n] : SameKey(Use(v, Anywhere), y)
      BY <1>1, <1>4, <1>5, <1>7 DEF Solved, OutCovers, Taken
    <2> QED BY <2>1, OneUse
  <1>8. CASE s \in LiveInside(v)
    BY <1>8, IsClosed, InIsOut
  <1> QED BY <1>1, <1>6, <1>7, <1>8 DEF OneSource

\* Is(., v) solves the equations whose least solution is LiveAt(v).
LEMMA SetsInvAllLive == SetsInv /\ OneSource => AllLive
  <1> SUFFICES ASSUME SetsInv, OneSource, phase = "done", NEW v \in Values
               PROVE  \A n \in LiveAt(v) : Is(n, v)
    BY DEF AllLive
  <1> DEFINE S == {n \in Nodes : Is(n, v)}
  <1>1. /\ \A n \in Nodes : NeededIn(n, v) => n \in S
        /\ Closed(S, Free(v), succ)
    BY IsClosed
  <1>2. ASSUME NEW n \in Free(v), NEW s \in succ[n], NeededOnEdge(n, s, v) PROVE Is(n, v)
    <2>1. n \in Nodes /\ v \notin def[n]
      BY DEF Free, SetsInv, Recorded, Describes
    <2> QED BY <1>2, <2>1, PhiUseOut, OutIsIn
  <1>3. Start(v) \subseteq S
    BY <1>1, <1>2 DEF Start, Free
  <1> HIDE DEF S
  <1>4. LiveAt(v) \subseteq S
    BY <1>1, <1>3, LiveAtIs DEF SetsInv, LiveInv
  <1> QED BY <1>4 DEF S

\* A checkpoint saves all that is live: when no pass changes a set any more,
\* every value some path still needs is recorded at the start of the block.
\* A PHI node's value that comes over two edges may not be.
THEOREM AllLiveRecorded == Spec => [](OneSource => AllLive)
  BY SetsInvariant, SetsInvAllLive, PTL

\* A value taken from a block is recorded at its end, and so mapped there.
LEMMA SetsInvPhiMapped == SetsInv /\ OneSource => PhiSourcesMapped
  <1> SUFFICES ASSUME SetsInv, OneSource, phase = "done",
                      NEW n \in Nodes, NEW s \in succ[n], NEW v \in Values,
                      NeededOnEdge(n, s, v)
               PROVE  v \in DOMAIN liveValuesMap[n]
    BY DEF PhiSourcesMapped
  <1>1. Use(v, Anywhere) \in out[n]
    BY PhiUseOut
  <1>2. v \in def[n] \/ Use(v, Anywhere) \in in[n]
    BY <1>1, OutIsIn DEF Is
  <1> QED BY <1>2, UseIs DEF SetsInv, LiveInv, SolvedSoFar

\* fixDominance finds, in every predecessor of a block, the mapping of every
\* value its PHI nodes take from there, under the same condition.
THEOREM PhiSourcesHaveMappings == Spec => [](OneSource => PhiSourcesMapped)
  BY SetsInvariant, SetsInvPhiMapped, PTL

===========================================================================
