----------------------- MODULE FixDominanceProofs -----------------------
(***************************************************************************)
(* The whole pass and the main it makes, for every function: the types of  *)
(* both, and what fixDominance looks up.  A place of a PHI node is         *)
(* scheduled for a value and later given what the block that control comes *)
(* from maps the value to.  Each block maps what the analysis has found    *)
(* (PlacesInv says where, after every edge the pass has moved), and the    *)
(* invariant NamesInv follows the places: those scheduled will be found,   *)
(* and those that ask the moved entry block are all scheduled in the end.  *)
(***************************************************************************)
EXTENDS TransformationProofs

----------------------------------------------------------------------------
(* The types of the pass *)

\* The blocks there may be.
AllBlocks ==
  Nodes \cup {NoCREntry} \cup {Checkpoint(c) : c \in Range(labels)}
        \cup {Restart(c) : c \in Range(labels)}

\* What the CFGNodes and the blocks share, and which blocks there are by when.
Shaped ==
  /\ blocks \in Seq(AllBlocks)
  /\ DOMAIN flow = Range(blocks) /\ DOMAIN insts = Range(blocks)
  /\ DOMAIN mapping = Range(blocks) /\ DOMAIN liveValues = Range(blocks)
  /\ \A n \in Range(blocks) : /\ flow[n] \subseteq Range(blocks)
                              /\ DOMAIN mapping[n] \subseteq Values
                              /\ {u.value : u \in liveValues[n]} \subseteq Values
  /\ step = "analysis" => blocks = << >>
  /\ step \notin {"analysis", "unchanged"} => Nodes \subseteq Range(blocks)
  /\ step \notin {"analysis", "unchanged", "blocks"} => NoCREntry \in Range(blocks)

\* The transformed main is at one of its blocks, and its newest checkpoint is one of
\* a label.
Running ==
  /\ step \in {"analysis", "blocks", "fill", "phis", "update", "cleanup", "run",
               "unchanged", "exited", "undefined"}
  /\ step = "run" => at \in Range(blocks)
  /\ saved # << >> => step = "run" /\ saved.label \in DOMAIN labels
  /\ \A pair \in holds : pair[2] \in Values \cup {Constant}

\* The invariant of the types.
TypesInv == Shaped /\ Running

\* One more element.
LEMMA RangeAppend ==
  ASSUME NEW S, NEW s \in Seq(S), NEW a
  PROVE  Range(Append(s, a)) = Range(s) \cup {a} /\ Append(s, a) \in Seq(S \cup {a})
  <1> DEFINE n == Len(s)
             t == Append(s, a)
  <1>1. n \in Nat /\ DOMAIN s = 1 .. n /\ \A i \in 1 .. n : s[i] \in S
    OBVIOUS
  <1>2. /\ DOMAIN t = 1 .. n + 1 /\ t[n + 1] = a /\ \A i \in 1 .. n : t[i] = s[i]
        /\ t \in Seq(S \cup {a})
    OBVIOUS
  <1> HIDE DEF n, t
  <1>3. Range(t) = Range(s) \cup {a}
    BY <1>1, <1>2 DEF Range
  <1> QED BY <1>2, <1>3 DEF t

\* What the labels are, once there are some.
LEMMA LabelsTyped ==
  ASSUME SlotsInv
  PROVE  /\ labels \in Seq(checkpointBlocks) /\ Range(labels) \subseteq checkpointBlocks
         /\ step \notin {"analysis", "unchanged"} => Labelled
         /\ step \in {"analysis", "unchanged"} => labels = << >>
  BY DEF SlotsInv, Labelled, Range

\* The steps with the blocks all there.
Laid == {"fill", "phis", "update", "cleanup", "run", "exited", "undefined"}

\* A step that stays with the same blocks.
Onward ==
  \/ step' = step
  \/ step \in Laid /\ step' \in Laid
  \/ step = "analysis" /\ step' = "unchanged"

\* A step that adds no block and no edge.
LEMMA ShapeKept ==
  ASSUME Shaped, UNCHANGED <<analysis, labels, blocks, flow, liveValues>>,
         DOMAIN insts' = DOMAIN insts, DOMAIN mapping' = DOMAIN mapping,
         \A n \in Range(blocks) : DOMAIN mapping'[n] \subseteq Values,
         Onward
  PROVE  Shaped'
  <1>1. order' = order /\ Nodes' = Nodes
    BY SameAnalysis
  <1>2. AllBlocks' = AllBlocks
    BY <1>1 DEF AllBlocks, NoCREntry, Entry
  <1> QED BY <1>1, <1>2 DEF Shaped, NoCREntry, Entry, Laid, Onward

\* Outside the transformed main.
LEMMA RunningKept ==
  ASSUME Running, UNCHANGED running, step' = step \/ "run" \notin {step, step'},
         step' = step \/ step' \in Laid \cup {"unchanged", "blocks"},
         <<labels, blocks>>' = <<labels, blocks>> \/ step # "run"
  PROVE  Running'
  <1>1. at' = at /\ holds' = holds /\ saved' = saved
    BY DEF running
  <1>2. step' # step => saved = << >>
    BY DEF Running
  <1>3. saved' # << >> => step' = "run" /\ saved'.label \in DOMAIN labels'
    BY <1>1, <1>2 DEF Running
  <1>4. step' = "run" => at' \in Range(blocks')
    BY <1>1 DEF Running
  <1>5. step' \in {"analysis", "blocks", "fill", "phis", "update", "cleanup", "run",
                  "unchanged", "exited", "undefined"}
    BY DEF Running, Laid
  <1> QED BY <1>1, <1>3, <1>4, <1>5 DEF Running

\* A step that changes what is in the blocks only.
LEMMA TypesKept ==
  ASSUME TypesInv, step' = step,
         UNCHANGED <<analysis, labels, blocks, flow, liveValues, running>>,
         DOMAIN insts' = DOMAIN insts, DOMAIN mapping' = DOMAIN mapping,
         \A n \in Range(blocks) : DOMAIN mapping'[n] \subseteq Values
  PROVE  TypesInv'
  <1>1. Onward /\ Shaped /\ Running
    BY DEF Onward, TypesInv
  <1>2. Shaped'
    BY <1>1, ShapeKept
  <1>3. Running'
    BY <1>1, RunningKept
  <1> QED BY <1>2, <1>3 DEF TypesInv

\* Before the analysis there are no blocks.
LEMMA TypesInit == PassInit => TypesInv
  <1> SUFFICES ASSUME PassInit PROVE TypesInv
    OBVIOUS
  <1>1. /\ step = "analysis" /\ blocks = << >> /\ flow = << >> /\ insts = << >>
        /\ liveValues = << >> /\ mapping = << >> /\ holds = {} /\ saved = << >>
    BY DEF PassInit
  <1>2. Range(blocks) = {} /\ DOMAIN blocks = {}
    BY <1>1 DEF Range
  <1> QED BY <1>1, <1>2 DEF TypesInv, Shaped, Running

\* The analysis leaves it so.
LEMMA AnalyseTypes ==
  ASSUME TypesInv, Analyse
  PROVE  TypesInv'
  <1>1. step = "analysis" /\ UNCHANGED <<step, transformed, plan, running>> /\ blocks = << >>
    BY DEF Analyse, TypesInv, Shaped
  <1>2. Range(blocks) = {} /\ blocks' = << >> /\ Range(blocks') = {}
    BY <1>1 DEF transformed, Range
  <1>3. Shaped'
    BY <1>1, <1>2 DEF Shaped, TypesInv, transformed
  <1> QED BY <1>1, <1>3, RunningKept DEF TypesInv, plan

\* The blocks of main, as the analysis left them.
LEMMA StartTypes ==
  ASSUME TypesInv, PassInv, AddCheckpointsToFunction
  PROVE  TypesInv'
  <1>1. /\ step = "analysis" /\ phase = "done" /\ step' \in {"unchanged", "blocks"}
        /\ blocks' = order /\ flow' = succ /\ insts' = code /\ liveValues' = live
        /\ mapping' = liveValuesMap /\ UNCHANGED <<analysis, plan, fixing, running>>
    BY DEF AddCheckpointsToFunction
  <1>2. Nodes' = Nodes /\ UNCHANGED order
    BY <1>1, SameAnalysis
  <1>3. /\ LiveInv /\ Coded /\ Recorded /\ order \in Seq(Nodes) /\ DOMAIN succ = Nodes
        /\ DOMAIN code = Nodes /\ live = in /\ DOMAIN in = Nodes
        /\ \A n \in Nodes : succ[n] \subseteq Nodes
    BY <1>1 DEF PassInv, SetsInv, LiveInv, Flow, Coded, Recorded, SolvedSoFar
  <1>4. Range(order) = Nodes
    BY DEF Range, Nodes
  <1>5. \A n \in Nodes : {u.value : u \in live[n]} \subseteq Values
    BY <1>1, LiveTyped DEF PassInv
  <1>6. DOMAIN liveValuesMap = Nodes
        /\ \A n \in Nodes : DOMAIN liveValuesMap[n] \subseteq Values
    <2>1. \A n \in Nodes : def[n] \subseteq Values
      BY <1>1, <1>3 DEF Recorded, Describes
    <2> QED BY <1>1, <1>3, <1>5, <2>1 DEF LiveInv, SolvedSoFar
  <1>7. blocks' \in Seq(AllBlocks')
    BY <1>1, <1>2, <1>3 DEF AllBlocks
  <1>8. Shaped'
    BY <1>1, <1>2, <1>3, <1>4, <1>5, <1>6, <1>7 DEF Shaped
  <1>9. Running'
    BY <1>1, RunningKept DEF TypesInv, Laid, plan
  <1> QED BY <1>8, <1>9 DEF TypesInv

\* What is put in for a label: two blocks without instructions, whose nodes map what is
\* live in the labelled block; one edge is led to the first of them.
Placed(n, first, g, h, k) ==
  /\ labels' = Append(labels, n) /\ blocks' = blocks \o <<Checkpoint(n), Restart(n)>>
  /\ flow' = [m \in DOMAIN flow \cup {Checkpoint(n), Restart(n)} |->
                IF m \in {Checkpoint(n), Restart(n)} THEN {n}
                ELSE Redirected(m, n, first)]
  /\ DOMAIN g = {Checkpoint(n), Restart(n)} /\ insts' = Insert(g, insts)
  /\ \A m \in DOMAIN g : g[m] = << >>
  /\ DOMAIN h = {Checkpoint(n), Restart(n)} /\ liveValues' = Insert(h, liveValues)
  /\ \A m \in DOMAIN h : h[m] = IF m = Restart(n) THEN {} ELSE liveValues[n]
  /\ DOMAIN k = {Checkpoint(n), Restart(n)} /\ mapping' = Insert(k, mapping)
  /\ \A m \in DOMAIN k : DOMAIN k[m] = {u.value : u \in liveValues[n]}

\* So for some label.
LEMMA CreateIs ==
  ASSUME CreateCheckpointAndRestartBlocks
  PROVE  \E n \in checkpointBlocks \ Range(labels) : \E first \in Preds(n) :
           \E g, h, k : Placed(n, first, g, h, k)
  <1>1. PICK n \in checkpointBlocks \ Range(labels) : \E first \in Preds(n) :
          LET added  == {Checkpoint(n), Restart(n)}
              values == {u.value : u \in liveValues[n]}
          IN  /\ labels' = Append(labels, n) /\ blocks' = blocks \o <<Checkpoint(n), Restart(n)>>
              /\ flow' = [m \in DOMAIN flow \cup added |->
                            IF m \in added THEN {n} ELSE Redirected(m, n, first)]
              /\ insts' = Insert([m \in added |-> << >>], insts)
              /\ liveValues' = Insert([m \in added |->
                     IF m = Restart(n) THEN {} ELSE LiveAtCheckpoint(n)], liveValues)
              /\ mapping' = Insert([m \in added |-> Identity(values)], mapping)
    BY DEF CreateCheckpointAndRestartBlocks
  <1> DEFINE added == {Checkpoint(n), Restart(n)}
             g == [m \in added |-> << >>]
             h == [m \in added |-> IF m = Restart(n) THEN {} ELSE LiveAtCheckpoint(n)]
             k == [m \in added |-> Identity({u.value : u \in liveValues[n]})]
  <1>2. /\ insts' = Insert(g, insts) /\ liveValues' = Insert(h, liveValues)
        /\ mapping' = Insert(k, mapping)
    BY <1>1
  <1>3. /\ DOMAIN g = added /\ DOMAIN h = added /\ DOMAIN k = added
        /\ \A m \in added : g[m] = << >>
        /\ \A m \in added : h[m] = IF m = Restart(n) THEN {} ELSE liveValues[n]
        /\ \A m \in added : DOMAIN k[m] = {u.value : u \in liveValues[n]}
    BY DEF LiveAtCheckpoint, Identity
  <1> HIDE DEF g, h, k
  <1>4. \E first \in Preds(n) : Placed(n, first, g, h, k)
    BY <1>1, <1>2, <1>3 DEF Placed
  <1> QED BY <1>4

\* Two blocks more for a label.
LEMMA CreateTypes ==
  ASSUME TypesInv, PassInv, CreateCheckpointAndRestartBlocks
  PROVE  TypesInv'
  <1>1. PICK n \in checkpointBlocks \ Range(labels) :
          \E first \in Preds(n) : \E g, h, k : Placed(n, first, g, h, k)
    BY CreateIs
  <1>1a. PICK first \in Preds(n) : \E g, h, k : Placed(n, first, g, h, k)
    BY <1>1
  <1>1b. PICK g, h, k : Placed(n, first, g, h, k)
    BY <1>1a
  <1>2. /\ labels' = Append(labels, n) /\ blocks' = blocks \o <<Checkpoint(n), Restart(n)>>
        /\ flow' = [m \in DOMAIN flow \cup {Checkpoint(n), Restart(n)} |->
                      IF m \in {Checkpoint(n), Restart(n)} THEN {n}
                      ELSE Redirected(m, n, first)]
        /\ DOMAIN g = {Checkpoint(n), Restart(n)} /\ insts' = Insert(g, insts)
        /\ \A m \in DOMAIN g : g[m] = << >>
        /\ DOMAIN h = {Checkpoint(n), Restart(n)} /\ liveValues' = Insert(h, liveValues)
        /\ \A m \in DOMAIN h : h[m] = IF m = Restart(n) THEN {} ELSE liveValues[n]
        /\ DOMAIN k = {Checkpoint(n), Restart(n)} /\ mapping' = Insert(k, mapping)
        /\ \A m \in DOMAIN k : DOMAIN k[m] = {u.value : u \in liveValues[n]}
    BY <1>1b DEF Placed
  <1>3. step = "blocks" /\ step' = "blocks" /\ UNCHANGED <<analysis, running>>
    BY DEF CreateCheckpointAndRestartBlocks
  <1>4. order' = order /\ Nodes' = Nodes
    BY <1>3, SameAnalysis
  <1>5. /\ labels \in Seq(checkpointBlocks) /\ blocks \in Seq(AllBlocks)
        /\ checkpointBlocks \subseteq Nodes /\ Nodes \subseteq Range(blocks)
        /\ DOMAIN flow = Range(blocks) /\ DOMAIN insts = Range(blocks)
        /\ DOMAIN mapping = Range(blocks) /\ DOMAIN liveValues = Range(blocks)
        /\ \A m \in Range(blocks) : /\ flow[m] \subseteq Range(blocks)
                                    /\ DOMAIN mapping[m] \subseteq Values
                                    /\ {u.value : u \in liveValues[m]} \subseteq Values
    BY <1>3, LabelsTyped DEF TypesInv, Shaped, PassInv, SetsInv, LiveInv, Named
  <1> DEFINE added == {Checkpoint(n), Restart(n)}
  <1>6. Range(labels') = Range(labels) \cup {n} /\ Range(blocks') = Range(blocks) \cup added
        /\ blocks' \in Seq(AllBlocks \cup added)
    <2>1. Range(Append(labels, n)) = Range(labels) \cup {n}
      BY <1>5, RangeAppend
    <2>2. Range(blocks') = Range(blocks) \cup added /\ blocks' \in Seq(AllBlocks \cup added)
      <3> DEFINE c == Checkpoint(n)
                 r == Restart(n)
                 s == Append(blocks, c)
      <3>1. blocks' = blocks \o <<c, r>> /\ blocks \in Seq(AllBlocks)
        BY <1>2, <1>5
      <3> HIDE DEF c, r
      <3>2. blocks' = Append(s, r)
        BY <3>1
      <3>3. Range(s) = Range(blocks) \cup {c} /\ s \in Seq(AllBlocks \cup {c})
        BY <3>1, RangeAppend
      <3> HIDE DEF s
      <3>4. /\ Range(Append(s, r)) = Range(s) \cup {r}
            /\ Append(s, r) \in Seq((AllBlocks \cup {c}) \cup {r})
        BY <3>3, RangeAppend
      <3>5. (AllBlocks \cup {c}) \cup {r} = AllBlocks \cup added /\ {c} \cup {r} = added
        BY DEF c, r
      <3> HIDE DEF added
      <3> QED BY <3>2, <3>3, <3>4, <3>5
    <2> QED BY <1>2, <2>1, <2>2
  <1>7. AllBlocks' = AllBlocks \cup added
    BY <1>4, <1>6 DEF AllBlocks, NoCREntry, Entry
  <1>8. blocks' \in Seq(AllBlocks')
    BY <1>6, <1>7
  <1>9. /\ DOMAIN flow' = Range(blocks') /\ DOMAIN insts' = Range(blocks')
        /\ DOMAIN mapping' = Range(blocks') /\ DOMAIN liveValues' = Range(blocks')
    BY <1>2, <1>5, <1>6 DEF Insert
  <1>10. ASSUME NEW m \in Range(blocks')
         PROVE  /\ flow'[m] \subseteq Range(blocks')
                /\ DOMAIN mapping'[m] \subseteq Values
                /\ {u.value : u \in liveValues'[m]} \subseteq Values
    <2>1. n \in Range(blocks)
      BY <1>5
    <2>2. CASE m \in added
      <3>1. flow'[m] = {n}
        BY <1>2, <2>2
      <3>2. DOMAIN mapping'[m] = {u.value : u \in liveValues[n]}
        BY <1>2, <2>2 DEF Insert
      <3>3. liveValues'[m] \subseteq liveValues[n]
        BY <1>2, <2>2 DEF Insert
      <3> QED BY <1>5, <1>6, <2>1, <3>1, <3>2, <3>3
    <2>3. CASE m \notin added
      <3>1. m \in Range(blocks)
        BY <1>6, <2>3
      <3>2. mapping'[m] = mapping[m] /\ liveValues'[m] = liveValues[m]
        BY <1>2, <1>5, <2>3, <3>1 DEF Insert
      <3>3. flow'[m] = Redirected(m, n, first)
        BY <1>2, <1>5, <2>3, <3>1
      <3>4. flow'[m] \subseteq flow[m] \cup added
        BY <3>3 DEF Redirected
      <3> QED BY <1>5, <1>6, <3>1, <3>2, <3>4
    <2> QED BY <2>2, <2>3
  <1>11. Shaped'
    BY <1>3, <1>4, <1>5, <1>6, <1>8, <1>9, <1>10 DEF Shaped
  <1>12. Running'
    BY <1>3, RunningKept DEF TypesInv
  <1> QED BY <1>11, <1>12 DEF TypesInv

\* The block that takes the entry block's code.
LEMMA EntryTypes ==
  ASSUME TypesInv, PassInv, InsertRestartBlock
  PROVE  TypesInv'
  <1>1. /\ step = "blocks" /\ step' = "fill" /\ Range(labels) = checkpointBlocks
        /\ blocks' = Append(blocks, NoCREntry)
        /\ flow' = [m \in DOMAIN flow \cup {NoCREntry} |->
                      IF m = Entry THEN {NoCREntry} \cup {Restart(n) : n \in checkpointBlocks}
                      ELSE IF m = NoCREntry THEN flow[Entry] ELSE flow[m]]
        /\ DOMAIN insts' = DOMAIN insts \cup {NoCREntry}
        /\ liveValues' = Insert([m \in {NoCREntry} |-> {}], liveValues)
        /\ mapping' = Insert([m \in {NoCREntry} |-> MappedAtNoCREntry], mapping)
        /\ UNCHANGED <<analysis, plan, fixing, running>>
    BY DEF InsertRestartBlock
  <1>2. order' = order /\ Nodes' = Nodes /\ labels' = labels
    BY <1>1, SameAnalysis DEF plan
  <1>3. /\ Labelled /\ blocks \in Seq(AllBlocks) /\ Nodes \subseteq Range(blocks)
        /\ DOMAIN flow = Range(blocks) /\ DOMAIN insts = Range(blocks)
        /\ DOMAIN mapping = Range(blocks) /\ DOMAIN liveValues = Range(blocks)
        /\ \A m \in Range(blocks) : /\ flow[m] \subseteq Range(blocks)
                                    /\ DOMAIN mapping[m] \subseteq Values
                                    /\ {u.value : u \in liveValues[m]} \subseteq Values
    BY <1>1, LabelsTyped DEF TypesInv, Shaped, PassInv
  <1>4. Range(blocks') = Range(blocks) \cup {NoCREntry}
    <2>1. Range(Append(blocks, NoCREntry)) = Range(blocks) \cup {NoCREntry}
      BY <1>3, RangeAppend
    <2> QED BY <1>1, <2>1
  <1>5. AllBlocks' = AllBlocks /\ NoCREntry \in AllBlocks
    BY <1>2 DEF AllBlocks, NoCREntry, Entry
  <1>6. blocks' \in Seq(AllBlocks')
    BY <1>1, <1>3, <1>5
  <1>7. Entry \in Range(blocks) /\ \A c \in checkpointBlocks : Restart(c) \in Range(blocks)
    <2>1. Entry \in Nodes
      BY DEF PassInv, SetsInv, LiveInv, Flow, Entry, Nodes
    <2> QED BY <1>1, <1>3, <2>1 DEF Labelled
  <1>8. DOMAIN MappedAtNoCREntry \subseteq Values
    BY DEF MappedAtNoCREntry, Identity, Results
  <1>9. ASSUME NEW m \in Range(blocks')
        PROVE  /\ flow'[m] \subseteq Range(blocks')
               /\ DOMAIN mapping'[m] \subseteq Values
               /\ {u.value : u \in liveValues'[m]} \subseteq Values
    <2>1. flow'[m] \subseteq Range(blocks')
      BY <1>1, <1>3, <1>4, <1>7
    <2>2. mapping'[m] = IF m = NoCREntry THEN MappedAtNoCREntry ELSE mapping[m]
      BY <1>1, <1>3, <1>4 DEF Insert
    <2>3. liveValues'[m] = IF m = NoCREntry THEN {} ELSE liveValues[m]
      BY <1>1, <1>3, <1>4 DEF Insert
    <2> QED BY <1>3, <1>4, <1>8, <2>1, <2>2, <2>3
  <1>10. /\ DOMAIN flow' = Range(blocks') /\ DOMAIN insts' = Range(blocks')
         /\ DOMAIN mapping' = Range(blocks') /\ DOMAIN liveValues' = Range(blocks')
    BY <1>1, <1>3, <1>4 DEF Insert
  <1>11. Shaped'
    <2>1. Nodes' \subseteq Range(blocks') /\ NoCREntry' \in Range(blocks')
      BY <1>2, <1>3, <1>4 DEF NoCREntry, Entry
    <2> QED BY <1>1, <1>6, <1>9, <1>10, <2>1 DEF Shaped
  <1>12. Running'
    BY <1>1, RunningKept DEF TypesInv, Laid
  <1> QED BY <1>11, <1>12 DEF TypesInv

\* The filling maps one value more in a restart block, or nothing.
LEMMA AddSlotTypes ==
  ASSUME TypesInv, PassInv, step = "fill", step' = "fill", slots # << >>,
         NEW v \in Values, AddSlotOnce(v),
         UNCHANGED <<analysis, blocks, flow, liveValues, labels, running>>
  PROVE  TypesInv'
  <1>1. /\ DOMAIN insts' = DOMAIN insts /\ DOMAIN mapping' = DOMAIN mapping
        /\ \A n \in DOMAIN mapping : DOMAIN mapping'[n] \subseteq DOMAIN mapping[n] \cup {v}
    <2>1. CASE HasSlot(v)
      BY <2>1 DEF AddSlotOnce
    <2>2. CASE ~HasSlot(v)
      BY <2>2 DEF AddSlotOnce, AddSlot, Insert
    <2> QED BY <2>1, <2>2
  <1>2. \A n \in Range(blocks) : DOMAIN mapping'[n] \subseteq Values
    BY <1>1 DEF TypesInv, Shaped
  <1>3. step' = step
    OBVIOUS
  <1> QED BY <1>1, <1>2, <1>3, TypesKept

\* The steps of the filling.
LEMMA FillTypes ==
  ASSUME TypesInv, PassInv,
         FillNextBlock \/ RestoreScalar \/ RestoreSizesAndAliases \/ RestorePointer
  PROVE  TypesInv'
  <1>1. CASE FillNextBlock \/ RestoreSizesAndAliases
    <2>1. step' = step /\ UNCHANGED <<analysis, transformed, labels, fixing, running>>
          /\ step = "fill"
      BY <1>1 DEF FillNextBlock, RestoreSizesAndAliases
    <2>2. /\ UNCHANGED <<blocks, flow, insts, liveValues, mapping>>
          /\ \A n \in Range(blocks) : DOMAIN mapping'[n] \subseteq Values
      BY <2>1 DEF transformed, TypesInv, Shaped
    <2> QED BY <2>1, <2>2, TypesKept
  <1>2. CASE RestoreScalar \/ RestorePointer
    <2>1. /\ step = "fill" /\ step' = "fill" /\ work # << >> /\ AddSlotOnce(Head(work)[2])
          /\ UNCHANGED <<analysis, blocks, flow, liveValues, labels, running>>
      BY <1>2 DEF RestoreScalar, RestorePointer
    <2>2. Head(work)[2] \in Values /\ slots # << >>
      BY <2>1, HeadTyped DEF PassInv
    <2> QED BY <2>1, <2>2, AddSlotTypes
  <1> QED BY <1>1, <1>2

\* Step 1 of fixDominance maps the values that are live in a block.
LEMMA CreatePhisTypes ==
  ASSUME TypesInv, PassInv, CreatePhis
  PROVE  TypesInv'
  <1>1. PICK i \in DOMAIN blocks :
          /\ insts' = [insts EXCEPT ![blocks[i]] =
                         AddedPhis(blocks[i]) \o ReplacedIn(@, NewNames(blocks[i]))]
          /\ mapping' = [mapping EXCEPT ![blocks[i]] = Insert(NewNames(blocks[i]), @)]
    BY DEF CreatePhis
  <1>2. /\ step = "phis" /\ step' = "phis"
        /\ UNCHANGED <<analysis, blocks, flow, liveValues, labels, running>>
    BY DEF CreatePhis, plan
  <1>3. /\ blocks[i] \in Range(blocks) /\ LiveIn(blocks[i]) \subseteq Values
        /\ DOMAIN mapping = Range(blocks)
        /\ \A n \in Range(blocks) : DOMAIN mapping[n] \subseteq Values
    BY DEF Range, TypesInv, Shaped, LiveIn
  <1>4. /\ DOMAIN mapping' = DOMAIN mapping
        /\ \A n \in DOMAIN mapping : DOMAIN mapping'[n] \subseteq DOMAIN mapping[n] \cup LiveIn(blocks[i])
    BY <1>1 DEF Insert, NewNames
  <1>5. DOMAIN insts' = DOMAIN insts
    BY <1>1
  <1>6. \A n \in Range(blocks) : DOMAIN mapping'[n] \subseteq Values
    BY <1>3, <1>4
  <1> QED BY <1>2, <1>4, <1>5, <1>6, TypesKept

\* The steps that change no mapping.
LEMMA UnmappedShape ==
  ASSUME TypesInv, Unmapped
  PROVE  Shaped' /\ UNCHANGED <<labels, blocks>>
  <1>1. /\ UNCHANGED <<analysis, labels, blocks, flow, liveValues, mapping>>
        /\ DOMAIN insts' = DOMAIN insts
        /\ Onward
    <2>1. CASE NotLinked
      BY <2>1 DEF NotLinked, Onward, transformed, plan
    <2>2. CASE PointerNotSupported
      BY <2>2 DEF PointerNotSupported, Onward, transformed, plan, Laid
    <2>3. CASE AllFilled
      BY <2>3 DEF AllFilled, Onward, transformed, plan, Laid
    <2>4. CASE AllCreated
      BY <2>4 DEF AllCreated, Onward, transformed, plan, Laid
    <2>5. CASE UpdatePhis
      BY <2>5 DEF UpdatePhis, Onward, plan, Laid
    <2>6. CASE NoMapping
      BY <2>6 DEF NoMapping, Onward, transformed, plan, Laid
    <2>7. CASE CollectConstantPhis
      BY <2>7 DEF CollectConstantPhis, Onward, transformed, plan
    <2>8. CASE RemovePhi
      BY <2>8 DEF RemovePhi, Onward, plan
    <2>9. CASE RepeatCleanUp
      BY <2>9 DEF RepeatCleanUp, Onward, transformed, plan
    <2>10. CASE Fixed
      BY <2>10 DEF Fixed, Onward, transformed, plan, Laid
    <2>11. CASE RunBlock
      BY <2>11 DEF RunBlock, Onward, transformed, plan
    <2>12. CASE RestartFromCheckpoint
      BY <2>12 DEF RestartFromCheckpoint, Onward, transformed, plan
    <2> QED BY <2>1, <2>2, <2>3, <2>4, <2>5, <2>6, <2>7, <2>8, <2>9, <2>10, <2>11, <2>12
            DEF Unmapped
  <1>2. \A n \in Range(blocks) : DOMAIN mapping'[n] \subseteq Values
    BY <1>1 DEF TypesInv, Shaped
  <1> QED BY <1>1, <1>2, ShapeKept DEF TypesInv

----------------------------------------------------------------------------
(* The transformed main *)

\* What a name may hold a current instance of.
Meanings == Values \cup {Constant}

\* What the instructions of a block are about.
LEMMA MeantTyped ==
  ASSUME TypesInv, PassInv, step = "run", NEW n \in Range(blocks)
  PROVE  /\ Len(Meant(n)) \in Nat /\ DOMAIN Meant(n) = 1 .. Len(Meant(n))
         /\ \A i \in DOMAIN Meant(n) : Meant(n)[i].result \in Meanings
  <1>1. /\ Coded /\ Flow /\ labels \in Seq(checkpointBlocks) /\ slots \in Seq(Seq(SlotType))
        /\ Len(slots) = Len(labels) /\ n \in AllBlocks
    BY LabelsTyped DEF PassInv, SetsInv, LiveInv, SlotsInv, TypesInv, Shaped, Range
  <1>2. \A l \in DOMAIN labels :
          /\ ValuesOf(l) = [i \in 1 .. Len(slots[l]) |-> slots[l][i].value]
          /\ Len(slots[l]) \in Nat /\ \A i \in 1 .. Len(slots[l]) : ValuesOf(l)[i] \in Values
    <2> TAKE l \in DOMAIN labels
    <2> DEFINE q == slots[l]
    <2>1. q \in Seq(SlotType)
      BY <1>1
    <2>2. ValuesOf(l) = [i \in DOMAIN q |-> q[i].value]
      BY DEF ValuesOf
    <2> HIDE DEF q
    <2>3. DOMAIN q = 1 .. Len(q) /\ Len(q) \in Nat /\ \A i \in 1 .. Len(q) : q[i] \in SlotType
      BY <2>1
    <2>4. \A i \in 1 .. Len(q) : q[i].value \in Values
      BY <2>3 DEF SlotType
    <2>5. /\ ValuesOf(l) = [i \in 1 .. Len(q) |-> q[i].value]
          /\ Len(q) \in Nat /\ \A i \in 1 .. Len(q) : ValuesOf(l)[i] \in Values
      BY <2>2, <2>3, <2>4
    <2> QED BY <2>5 DEF q
  <1>3. ASSUME IsCheckpoint(n) \/ IsRestart(n)
        PROVE  LabelOf(n) \in DOMAIN labels
    BY <1>3 DEF IsCheckpoint, IsRestart, LabelOf
  <1>4. CASE IsCheckpoint(n)
    <2> DEFINE vs == ValuesOf(LabelOf(n))
               k  == Len(slots[LabelOf(n)])
    <2>1. vs = [i \in 1 .. k |-> vs[i]] /\ k \in Nat
      BY <1>2, <1>3, <1>4
    <2>2. Meant(n) = [i \in DOMAIN vs |-> Instruction(Constant, FALSE, << >>, Given(vs[i]))]
      BY <1>4 DEF Meant
    <2> HIDE DEF vs, k
    <2>3. DOMAIN vs = 1 .. k
      BY <2>1
    <2> QED BY <2>1, <2>2, <2>3 DEF Instruction, Meanings
  <1>5. CASE ~IsCheckpoint(n) /\ IsRestart(n)
    <2> DEFINE vs == ValuesOf(LabelOf(n))
               k  == Len(slots[LabelOf(n)])
    <2>1. vs = [i \in 1 .. k |-> vs[i]] /\ k \in Nat /\ \A i \in 1 .. k : vs[i] \in Values
      BY <1>2, <1>3, <1>5
    <2>2. Meant(n) = [i \in DOMAIN vs |-> Instruction(vs[i], FALSE, << >>, SizesOf(vs[i]))]
      BY <1>5 DEF Meant
    <2> HIDE DEF vs, k
    <2>3. DOMAIN vs = 1 .. k
      BY <2>1
    <2> QED BY <2>1, <2>2, <2>3 DEF Instruction, Meanings
  <1>6. CASE ~IsCheckpoint(n) /\ ~IsRestart(n)
    <2>1. n \in Nodes \cup {NoCREntry} /\ Entry \in Nodes
      BY <1>1, <1>6 DEF AllBlocks, IsCheckpoint, IsRestart, Range, Entry, Flow, Nodes
    <2>2. Meant(n) = << >> \/ \E m \in Nodes : Meant(n) = RestIn(code[m])
      BY <1>6, <2>1 DEF Meant
    <2>3. \A m \in Nodes : RestIn(code[m]) \in Seq(NodeInstruction)
      <3>1. TAKE m \in Nodes
      <3> DEFINE c == code[m]
                 S == {inst \in Range(c) : ~inst.isPhi}
      <3>2. c \in Seq(NodeInstruction) /\ RestIn(c) = Walk(c, S)
        BY <1>1 DEF Coded, RestIn
      <3> HIDE DEF c, S
      <3>3. Walk(c, S) \in Seq(NodeInstruction \cap S)
        BY <3>2, WalkIs
      <3>4. RestIn(c) \in Seq(NodeInstruction)
        BY <3>2, <3>3
      <3> QED BY <3>4 DEF c
    <2> DEFINE S == NodeInstruction
    <2> HIDE DEF S
    <2>4. Meant(n) \in Seq(S)
      <3>1. CASE Meant(n) = << >>
        BY <3>1
      <3>2. CASE \E m \in Nodes : Meant(n) = RestIn(code[m])
        BY <3>2, <2>3 DEF S
      <3> QED BY <2>2, <3>1, <3>2
    <2>5. \A inst \in S : inst.result \in Meanings
      BY DEF S, NodeInstruction, InstructionFrom, Meanings
    <2> QED BY <2>4, <2>5
  <1> QED BY <1>4, <1>5, <1>6

\* The PHI nodes of a block give what they hold the meanings there are.
LEMMA AfterPhisTyped ==
  ASSUME Coded, NEW n, NEW m, NEW hs, \A q \in hs : q[2] \in Meanings
  PROVE  \E W : AfterPhis(n, m, hs) \subseteq W \X Meanings
  <1> DEFINE before   == IF n \in DOMAIN code THEN PhisIn(code[n]) ELSE << >>
             now      == PhisIn(insts[n])
             origin   == IF m = NoCREntry THEN Entry ELSE m
             results  == {phi.result : phi \in Range(before)}
             assigned == {phi.result : phi \in Range(now)}
             taken(S) == {phi.result : phi \in
                            {f \in Range(before) : TakenFromBlock(f, origin) \in S}}
             new(S)   == (S \ results) \cup taken(S)
             kept     == {q[1] : q \in hs} \ assigned
             W        == kept \cup assigned
  <1>1. results \subseteq Meanings
    <2>1. CASE n \in DOMAIN code
      <3> DEFINE c == code[n]
                 S == {inst \in Range(c) : inst.isPhi}
      <3>1. c \in Seq(NodeInstruction)
        BY <2>1 DEF Coded
      <3>2. before = Walk(c, S)
        BY <2>1 DEF PhisIn
      <3> HIDE DEF c, S
      <3>3. Walk(c, S) \in Seq(NodeInstruction \cap S)
        BY <3>1, WalkIs
      <3> DEFINE b == before
                 I == NodeInstruction
      <3>4. \A inst \in I : inst.result \in Meanings
        BY DEF NodeInstruction, InstructionFrom, Meanings
      <3>5. b \in Seq(I \cap S)
        BY <3>2, <3>3
      <3> HIDE DEF before, b, I
      <3>6. \A i \in DOMAIN b : b[i] \in I
        BY <3>5
      <3> QED BY <3>4, <3>6 DEF Range, b
    <2>2. CASE n \notin DOMAIN code
      BY <2>2 DEF Range
    <2> QED BY <2>1, <2>2
  <1>2. \A S : taken(S) \subseteq results
    OBVIOUS
  <1>3. \A w : Held(hs, w) \subseteq Meanings
    BY DEF Held
  <1>4. \A S \in SUBSET Meanings : new(S) \subseteq Meanings
    BY <1>1, <1>2
  <1>5. ASSUME NEW q \in AfterPhis(n, m, hs)
        PROVE  \/ \E w \in kept : q \in {w} \X new(Held(hs, w))
               \/ \E phi \in Range(now) :
                    q \in {phi.result} \X new(Held(hs, TakenFromBlock(phi, m)))
    BY DEF AfterPhis
  <1> HIDE DEF new, kept, now
  <1>6. \A w \in kept : {w} \X new(Held(hs, w)) \subseteq W \X Meanings
    BY <1>3, <1>4
  <1>7. \A phi \in Range(now) :
          {phi.result} \X new(Held(hs, TakenFromBlock(phi, m))) \subseteq W \X Meanings
    BY <1>3, <1>4
  <1>8. ASSUME NEW q \in AfterPhis(n, m, hs) PROVE q \in W \X Meanings
    <2>1. CASE \E w \in kept : q \in {w} \X new(Held(hs, w))
      BY <1>6, <2>1
    <2>2. CASE \E phi \in Range(now) : q \in {phi.result} \X new(Held(hs, TakenFromBlock(phi, m)))
      BY <1>7, <2>2
    <2> QED BY <1>5, <2>1, <2>2
  <1> QED BY <1>8

\* The loop within InBlock.
IsHeld(f, rest, meant, after) ==
  f = [i \in 0 .. Len(meant) |->
         IF i = 0 THEN after ELSE AfterInstruction(f[i - 1], rest[i], meant[i].result)]

\* One instruction more.
LEMMA AfterInstructionTyped ==
  ASSUME NEW W, Meanings \subseteq W, NEW hs \in SUBSET (W \X Meanings),
         NEW inst, inst.result \in W, NEW v \in Meanings
  PROVE  AfterInstruction(hs, inst, v) \in SUBSET (W \X Meanings)
  <1>1. {q \in hs : v \notin {q[1], q[2]}} \cup {<<v, v>>} \subseteq W \X Meanings
    OBVIOUS
  <1>2. {q \in hs : q[1] # inst.result} \cup {<<inst.result, v>>} \subseteq W \X Meanings
    OBVIOUS
  <1> QED BY <1>1, <1>2 DEF AfterInstruction

\* What the names hold after a block are meanings.
LEMMA InBlockTyped ==
  ASSUME TypesInv, PassInv, step = "run", NEW n \in Range(blocks), NEW m,
         NEW hs, \A q \in hs : q[2] \in Meanings
  PROVE  \A q \in InBlock(n, m, hs).holds : q[2] \in Meanings
  <1> DEFINE after == AfterPhis(n, m, hs)
             meant == Meant(n)
             rest  == RestIn(insts[n])
             L     == Len(meant)
             held  == CHOOSE f : IsHeld(f, rest, meant, after)
  <1>1. InBlock(n, m, hs).holds = held[L]
    BY DEF InBlock, IsHeld
  <1>2. PICK V : after \subseteq V \X Meanings
    BY AfterPhisTyped DEF PassInv, SetsInv, LiveInv
  <1>3. L \in Nat /\ \A i \in 1 .. L : meant[i].result \in Meanings
    BY MeantTyped
  <1> DEFINE W == V \cup Meanings \cup {rest[i].result : i \in 1 .. L}
             D == SUBSET (W \X Meanings)
             go == [i \in 1 .. L |-> [s \in D |-> AfterInstruction(s, rest[i], meant[i].result)]]
  <1> HIDE DEF after, meant, rest, L
  <1>4. /\ after \in D
        /\ \A i \in 1 .. L, s \in D : AfterInstruction(s, rest[i], meant[i].result) \in D
    <2>1. after \in D
      BY <1>2
    <2>2. ASSUME NEW i \in 1 .. L, NEW s \in D
          PROVE  AfterInstruction(s, rest[i], meant[i].result) \in D
      <3>1. Meanings \subseteq W /\ rest[i].result \in W /\ meant[i].result \in Meanings
        BY <1>3
      <3> HIDE DEF W
      <3> QED BY <3>1, AfterInstructionTyped
    <2> QED BY <2>1, <2>2
  <1> HIDE DEF D
  <1>5. \E f : IsHeld(f, rest, meant, after)
    <2>1. go \in [1 .. L -> [D -> D]]
      BY <1>4
    <2> HIDE DEF go
    <2>2. PICK f \in [0 .. L -> D] : IsIterated(f, after, go, L)
      BY <1>3, <1>4, <2>1, Iterated
    <2>3. \A i \in 0 .. L : i # 0 =>
            go[i][f[i - 1]] = AfterInstruction(f[i - 1], rest[i], meant[i].result)
      <3>1. \A i \in 0 .. L : i # 0 => i \in 1 .. L /\ i - 1 \in 0 .. L
        BY <1>3
      <3>2. \A i \in 0 .. L : i # 0 => f[i - 1] \in D
        BY <3>1
      <3> QED BY <3>1, <3>2 DEF go
    <2>4. \A i \in 0 .. L : f[i] = IF i = 0 THEN after
                 ELSE AfterInstruction(f[i - 1], rest[i], meant[i].result)
      BY <2>2, <2>3 DEF IsIterated
    <2>5. f = [i \in 0 .. L |-> f[i]]
      OBVIOUS
    <2>6. f = [i \in 0 .. L |-> IF i = 0 THEN after
                 ELSE AfterInstruction(f[i - 1], rest[i], meant[i].result)]
      BY <2>4, <2>5
    <2> QED BY <2>6 DEF IsHeld, L
  <1>6. IsHeld(held, rest, meant, after)
    BY <1>5, Zenon
  <1> HIDE DEF held
  <1> DEFINE T == {i \in 0 .. L : held[i] \in D}
  <1>7. 0 \in T
    BY <1>3, <1>4, <1>6 DEF IsHeld, L
  <1>8. ASSUME NEW i \in 0 .. L - 1, i \in T PROVE i + 1 \in T
    <2>1. i + 1 \in 0 .. L /\ i + 1 # 0 /\ (i + 1) - 1 = i /\ i + 1 \in 1 .. L
      BY <1>3
    <2>2. held[i + 1] = IF i + 1 = 0 THEN after
            ELSE AfterInstruction(held[(i + 1) - 1], rest[i + 1], meant[i + 1].result)
      BY <1>6, <2>1 DEF IsHeld, L
    <2>3. held[i + 1] = AfterInstruction(held[i], rest[i + 1], meant[i + 1].result)
      BY <2>1, <2>2
    <2>4. held[i] \in D
      BY <1>8
    <2>5. held[i + 1] \in D
      BY <1>4, <2>1, <2>3, <2>4
    <2> QED BY <2>1, <2>5
  <1> HIDE DEF T
  <1>9. 0 .. L \subseteq T
    BY <1>3, <1>7, <1>8, UpTo
  <1>10. held[L] \in D
    BY <1>3, <1>9 DEF T
  <1> QED BY <1>1, <1>10 DEF D

\* At its start main has its arguments.
LEMMA ArgumentsTyped ==
  ASSUME PassInv
  PROVE  \A q \in Arguments : q[2] \in Meanings
  <1>1. program.args \subseteq Values
    BY ProgramsAssumption DEF PassInv, SetsInv, Coded
  <1> QED BY <1>1 DEF Arguments, Meanings

\* The steps that change no mapping leave the transformed main in one of its blocks.
LEMMA UnmappedRunning ==
  ASSUME TypesInv, PassInv, Unmapped
  PROVE  Running'
  <1>1. Shaped' /\ UNCHANGED <<labels, blocks>> /\ Shaped /\ Running /\ UNCHANGED <<analysis, flow>>
    BY UnmappedShape, OthersKeep DEF TypesInv, Unmapped, Others
  <1>2. CASE \/ NotLinked \/ PointerNotSupported \/ AllFilled \/ AllCreated \/ UpdatePhis
             \/ NoMapping \/ CollectConstantPhis \/ RemovePhi \/ RepeatCleanUp
    <2>1. step # "run" /\ step' # "run" /\ UNCHANGED running
          /\ (step' = step \/ step' \in Laid \cup {"unchanged"})
      BY <1>2 DEF NotLinked, PointerNotSupported, AllFilled, AllCreated, UpdatePhis, NoMapping,
                  CollectConstantPhis, RemovePhi, RepeatCleanUp, Laid
    <2> QED BY <1>1, <2>1, RunningKept
  <1>3. CASE Fixed
    <2>1. /\ step = "cleanup" /\ step' = "run" /\ at' = NoCREntry /\ holds' = Arguments
          /\ saved' = saved
      BY <1>3 DEF Fixed
    <2>2. NoCREntry \in Range(blocks) /\ saved = << >>
      BY <1>1, <2>1 DEF Shaped, Running
    <2> QED BY <1>1, <2>1, <2>2, ArgumentsTyped DEF Running, Meanings
  <1>4. CASE RunBlock
    <2>1. /\ step = "run" /\ step' = "run" /\ at' \in flow[at]
          /\ holds' = InBlock(at, from, holds).holds
          /\ \/ saved' = saved
             \/ IsCheckpoint(at) /\ saved' = NewCheckpoint(LabelOf(at), holds')
      BY <1>4 DEF RunBlock
    <2>2. at \in Range(blocks) /\ at' \in Range(blocks)
      BY <1>1, <2>1 DEF Shaped, Running
    <2>3. \A q \in holds' : q[2] \in Meanings
      BY <1>1, <2>1, <2>2, InBlockTyped DEF Running, Meanings
    <2>4. IsCheckpoint(at) => LabelOf(at) \in DOMAIN labels
      BY DEF IsCheckpoint, LabelOf
    <2>5. saved' # << >> => saved'.label \in DOMAIN labels
      <3>1. CASE saved' = saved
        BY <1>1, <3>1 DEF Running
      <3>2. CASE IsCheckpoint(at) /\ saved' = NewCheckpoint(LabelOf(at), holds')
        BY <2>4, <3>2 DEF NewCheckpoint
      <3> QED BY <2>1, <3>1, <3>2
    <2> QED BY <1>1, <2>1, <2>2, <2>3, <2>5 DEF Running, Meanings
  <1>5. CASE RestartFromCheckpoint
    <2>1. /\ step = "run" /\ step' = "run" /\ saved # << >> /\ saved' = saved
          /\ at' = Restart(labels[saved.label]) /\ holds' = Arguments
      BY <1>5 DEF RestartFromCheckpoint
    <2>2. saved.label \in DOMAIN labels
      BY <1>1, <2>1 DEF Running
    <2>3. labels[saved.label] \in Range(labels)
      BY <2>2 DEF Range
    <2>4. Restart(labels[saved.label]) \in DOMAIN mapping
      BY <2>1, <2>3, LabelsTyped DEF PassInv, Labelled
    <2>5. at' \in Range(blocks)
      BY <1>1, <2>1, <2>4 DEF Shaped
    <2> QED BY <1>1, <2>1, <2>2, <2>5, ArgumentsTyped DEF Running, Meanings
  <1> QED BY <1>2, <1>3, <1>4, <1>5 DEF Unmapped

\* Every step keeps the types.
LEMMA TypesStep ==
  ASSUME TypesInv, PassInv, [PassNext]_passVars
  PROVE  TypesInv'
  <1>1. CASE Analyse
    BY <1>1, AnalyseTypes
  <1>2. CASE AddCheckpointsToFunction
    BY <1>2, StartTypes
  <1>3. CASE CreateCheckpointAndRestartBlocks
    BY <1>3, CreateTypes
  <1>4. CASE InsertRestartBlock
    BY <1>4, EntryTypes
  <1>5. CASE FillNextBlock \/ RestoreScalar \/ RestoreSizesAndAliases \/ RestorePointer
    BY <1>5, FillTypes
  <1>6. CASE CreatePhis
    BY <1>6, CreatePhisTypes
  <1>7. CASE Unmapped
    BY <1>7, UnmappedShape, UnmappedRunning DEF TypesInv
  <1>8. CASE UNCHANGED passVars
    <2>1. /\ step' = step /\ UNCHANGED <<analysis, labels, blocks, flow, liveValues, running>>
          /\ insts' = insts /\ mapping' = mapping
      BY <1>8 DEF passVars, transformed, plan
    <2>2. \A n \in Range(blocks) : DOMAIN mapping'[n] \subseteq Values
      BY <2>1 DEF TypesInv, Shaped
    <2> QED BY <2>1, <2>2, TypesKept
  <1> QED BY <1>1, <1>2, <1>3, <1>4, <1>5, <1>6, <1>7, <1>8 DEF PassNext, Pass, Unmapped

\* The types of the pass and of the main it makes, whatever the function: every block
\* has a node, an edge leads to a block there is, only values are mapped, and a name
\* of the transformed main holds what has a meaning in the original.
THEOREM PassTypes == PassSpec => []PassTypeOK
  <1>1. PassInit => TypesInv
    BY TypesInit
  <1>2. PassInv /\ TypesInv /\ [PassNext]_passVars => TypesInv'
    BY TypesStep
  <1>3. PassInv /\ TypesInv => PassTypeOK
    <2> SUFFICES ASSUME PassInv, TypesInv PROVE PassTypeOK
      OBVIOUS
    <2>1. Range(labels) \subseteq checkpointBlocks /\ Len(slots) <= Len(labels)
      BY LabelsTyped DEF PassInv, SlotsInv
    <2> QED BY <2>1 DEF TypesInv, Shaped, Running, PassTypeOK
  <1> QED BY <1>1, <1>2, <1>3, PassInvariant, PTL DEF PassSpec

----------------------------------------------------------------------------
(* What the verifier says of main *)

\* Nothing jumps to the entry block; a PHI node takes values from predecessors of its
\* block, where no other instruction has its result.
Verified ==
  /\ \A m \in Nodes : Entry \notin succ[m]
  /\ \A n \in Nodes : \A i \in DOMAIN code[n] : code[n][i].isPhi =>
       /\ \A j \in DOMAIN code[n][i].incoming : n \in succ[code[n][i].incoming[j][2]]
       /\ \A j \in DOMAIN code[n] : code[n][j].result = code[n][i].result => j = i

\* So it is of the function the pass is given.
LEMMA VerifiedInit ==
  ASSUME Init
  PROVE  Verified
  <1>1. /\ program \in Programs /\ program.order \in Seq(Blocks) /\ Len(program.order) > 0
        /\ Blocks = {program.order[i] : i \in DOMAIN program.order}
        /\ program.code \in [Blocks -> Seq(Instructions)]
        /\ program.succ \in [Blocks -> SUBSET Blocks]
        /\ \A b \in Blocks :
             /\ Head(program.order) \notin program.succ[b]
             /\ \A i \in DOMAIN program.code[b] : program.code[b][i].isPhi =>
                  /\ \A pair \in Range(program.code[b][i].incoming) : b \in program.succ[pair[2]]
                  /\ \A j \in DOMAIN program.code[b] :
                       program.code[b][j].result = program.code[b][i].result => j = i
    BY ProgramsAssumption, VerifierAssumption DEF Init
  <1>2. \A b, c : Name(b)[1] = b /\ (Name(b) = Name(c) <=> b = c)
    BY DEF Name
  <1>3. \A n \in Nodes : \E b \in Blocks : n = Name(b)
    <2>1. DOMAIN order = DOMAIN program.order
          /\ \A i \in DOMAIN order : order[i] = Name(program.order[i])
      BY DEF Init
    <2> QED BY <1>1, <2>1 DEF Nodes
  <1>4. Entry = Name(Head(program.order))
    <2>1. order = [i \in DOMAIN program.order |-> Name(program.order[i])]
      BY DEF Init
    <2>2. 1 \in DOMAIN program.order /\ Head(program.order) = program.order[1]
      BY <1>1
    <2>3. DOMAIN program.order = 1 .. Len(program.order) /\ Len(program.order) \in Nat
      BY <1>1
    <2>4. Head(order) = order[1]
      BY <2>1, <2>2, <2>3
    <2> QED BY <2>1, <2>2, <2>4 DEF Entry
  <1>5. \A b \in Blocks : succ[Name(b)] = {Name(s) : s \in program.succ[b]}
    <2> TAKE b \in Blocks
    <2>1. succ = [n \in {Name(c) : c \in Blocks} |-> {Name(s) : s \in program.succ[n[1]]}]
      BY DEF Init
    <2>2. Name(b) \in {Name(c) : c \in Blocks}
      OBVIOUS
    <2>3. succ[Name(b)] = {Name(s) : s \in program.succ[Name(b)[1]]}
      BY <2>1, <2>2
    <2> QED BY <1>2, <2>3
  <1>6. \A b \in Blocks :
          code[Name(b)] = [i \in DOMAIN program.code[b] |-> InNames(program.code[b][i])]
    <2> TAKE b \in Blocks
    <2>1. code = [n \in {Name(c) : c \in Blocks} |->
                    [i \in DOMAIN program.code[n[1]] |-> InNames(program.code[n[1]][i])]]
      BY DEF Init
    <2>2. Name(b) \in {Name(c) : c \in Blocks}
      OBVIOUS
    <2>3. code[Name(b)] = [i \in DOMAIN program.code[Name(b)[1]] |->
                             InNames(program.code[Name(b)[1]][i])]
      BY <2>1, <2>2
    <2> QED BY <1>2, <2>3
  <1>7. \A m \in Nodes : Entry \notin succ[m]
    <2> TAKE m \in Nodes
    <2>1. PICK b \in Blocks : m = Name(b)
      BY <1>3
    <2> QED BY <1>1, <1>2, <1>4, <1>5, <2>1
  <1>8. ASSUME NEW n \in Nodes, NEW i \in DOMAIN code[n], code[n][i].isPhi
        PROVE  /\ \A j \in DOMAIN code[n][i].incoming : n \in succ[code[n][i].incoming[j][2]]
               /\ \A j \in DOMAIN code[n] : code[n][j].result = code[n][i].result => j = i
    <2>1. PICK b \in Blocks : n = Name(b)
      BY <1>3
    <2> DEFINE insts0 == program.code[b]
    <2>2. /\ insts0 \in Seq(Instructions)
          /\ code[n] = [k \in DOMAIN insts0 |-> InNames(insts0[k])]
      BY <1>1, <1>6, <2>1
    <2>3. \A k \in DOMAIN insts0 : insts0[k].isPhi =>
            /\ \A pair \in Range(insts0[k].incoming) : b \in program.succ[pair[2]]
            /\ \A j \in DOMAIN insts0 : insts0[j].result = insts0[k].result => j = k
      BY <1>1
    <2> HIDE DEF insts0
    <2>4. \A k \in DOMAIN insts0 : insts0[k] \in Instructions
      BY <2>2
    <2>5. ASSUME NEW k \in DOMAIN insts0
          PROVE  /\ code[n][k].isPhi = insts0[k].isPhi /\ code[n][k].result = insts0[k].result
                 /\ code[n][k].incoming = [j \in DOMAIN insts0[k].incoming |->
                      <<insts0[k].incoming[j][1], Name(insts0[k].incoming[j][2])>>]
      <3> DEFINE inst == insts0[k]
      <3>1. inst \in Instructions /\ code[n][k] = InNames(inst)
        BY <2>2, <2>4
      <3> HIDE DEF inst
      <3>2. DOMAIN inst = {"result", "isPhi", "incoming", "operands"}
        BY <3>1 DEF Instructions
      <3>3. /\ InNames(inst).isPhi = inst.isPhi /\ InNames(inst).result = inst.result
            /\ InNames(inst).incoming = [j \in DOMAIN inst.incoming |->
                      <<inst.incoming[j][1], Name(inst.incoming[j][2])>>]
        BY <3>2 DEF InNames
      <3> QED BY <3>1, <3>3 DEF inst
    <2>6. DOMAIN code[n] = DOMAIN insts0
      BY <2>2
    <2>7. \A j \in DOMAIN code[n] : code[n][j].result = code[n][i].result => j = i
      BY <1>8, <2>3, <2>5, <2>6
    <2>8. ASSUME NEW j \in DOMAIN code[n][i].incoming
          PROVE  n \in succ[code[n][i].incoming[j][2]]
      <3> DEFINE inc == insts0[i].incoming
      <3>1. /\ j \in DOMAIN inc /\ code[n][i].incoming[j] = <<inc[j][1], Name(inc[j][2])>>
        <4> DEFINE now == code[n][i].incoming
        <4>1. now = [k \in DOMAIN inc |-> <<inc[k][1], Name(inc[k][2])>>] /\ j \in DOMAIN now
          BY <2>5, <2>6
        <4> HIDE DEF now, inc
        <4>2. j \in DOMAIN inc /\ now[j] = <<inc[j][1], Name(inc[j][2])>>
          BY <4>1
        <4> QED BY <4>2 DEF now
      <3>2. inc \in Seq((Values \cup {Constant}) \X Blocks)
        BY <2>4, <2>6 DEF Instructions
      <3>3. inc[j][2] \in Blocks
        <4> HIDE DEF inc
        <4> QED BY <3>1, <3>2
      <3>4. b \in program.succ[inc[j][2]]
        <4>1. insts0[i].isPhi
          BY <1>8, <2>5, <2>6
        <4>2. inc[j] \in Range(inc)
          BY <3>1 DEF Range
        <4> QED BY <2>3, <2>6, <4>1, <4>2
      <3>5. Name(b) \in succ[Name(inc[j][2])]
        <4> DEFINE c == inc[j][2]
        <4>1. c \in Blocks /\ b \in program.succ[c]
          BY <3>3, <3>4
        <4> HIDE DEF c
        <4>2. Name(b) \in succ[Name(c)]
          BY <1>5, <4>1
        <4> QED BY <4>2 DEF c
      <3> QED BY <2>1, <3>1, <3>5
    <2> QED BY <2>7, <2>8
  <1> QED BY <1>7, <1>8 DEF Verified

\* Instructions keep their results when the blocks PHI nodes take values from get
\* other names.
LEMMA RenamedResult ==
  ASSUME NEW N, NEW insts0 \in Seq(InstructionFrom(N)), NEW n, NEW to
  PROVE  \A i \in DOMAIN insts0 : Renamed(insts0, n, to)[i].result = insts0[i].result
  <1> TAKE i \in DOMAIN insts0
  <1> DEFINE inst == insts0[i]
             inc  == [j \in DOMAIN inst.incoming |->
                        IF inst.incoming[j][2] = n THEN <<inst.incoming[j][1], to>>
                        ELSE inst.incoming[j]]
  <1>1. Renamed(insts0, n, to)[i] = [inst EXCEPT !.incoming = inc]
    BY DEF Renamed
  <1>2. inst \in InstructionFrom(N)
    OBVIOUS
  <1> HIDE DEF inst, inc
  <1>3. DOMAIN inst = {"result", "isPhi", "incoming", "operands"}
    BY <1>2 DEF InstructionFrom
  <1>4. [inst EXCEPT !.incoming = inc].result = inst.result
    BY <1>3
  <1> QED BY <1>1, <1>4 DEF inst

\* What a split does to the blocks: one of them keeps its PHI nodes, a new one after it
\* takes what follows them, and the entry block stays the first.
LEMMA SplitIs ==
  ASSUME LiveInv, Coded, SplitBasicBlock
  PROVE  \E n \in Nodes :
           /\ NoPhis(n) \notin Nodes /\ Nodes' = Nodes \cup {NoPhis(n)}
           /\ Entry' = Entry /\ Entry \in Nodes
           /\ succ' = [m \in DOMAIN succ \cup {NoPhis(n)} |->
                         IF m = n THEN {NoPhis(n)}
                         ELSE IF m = NoPhis(n) THEN succ[n] ELSE succ[m]]
           /\ code'[n] = Renamed(Phis(n), n, NoPhis(n))
           /\ code'[NoPhis(n)] = Renamed(Rest(n), n, NoPhis(n))
           /\ \A m \in Nodes \ {n} : code'[m] = Renamed(code[m], n, NoPhis(n))
  <1>1. PICK n \in Unsplit :
          /\ order' = InsertAt(order, Position(n) + 1, NoPhis(n))
          /\ LET halves == [m \in DOMAIN code \cup {NoPhis(n)} |->
                             IF m = n THEN Phis(n)
                             ELSE IF m = NoPhis(n) THEN Rest(n) ELSE code[m]]
             IN  code' = [m \in DOMAIN halves |-> Renamed(halves[m], n, NoPhis(n))]
          /\ succ' = [m \in DOMAIN succ \cup {NoPhis(n)} |->
                        IF m = n THEN {NoPhis(n)}
                        ELSE IF m = NoPhis(n) THEN succ[n] ELSE succ[m]]
    BY DEF SplitBasicBlock
  <1> DEFINE to == NoPhis(n)
  <1>2. n \in Nodes /\ HasPhis(n) /\ n \notin phiNodes
    BY DEF Unsplit
  <1>3. n[2] = ""
    <2>1. code[n] \in Seq(NodeInstruction)
      BY <1>2 DEF Coded
    <2>2. 1 \in DOMAIN code[n] /\ code[n][1].isPhi
      BY <1>2, <2>1 DEF HasPhis
    <2> QED BY <1>2, <2>2 DEF Coded, NoPhiIn, LiveInv, Named
  <1>4. to \notin Nodes
    BY <1>2, <1>3 DEF Coded
  <1>5. Nodes' = Nodes \cup {to} /\ order'[1] = order[1] /\ order' \in Seq(Nodes')
    <2>1. Position(n) \in DOMAIN order /\ order \in Seq(Nodes) /\ order \in Seq(Nodes \cup {to})
      BY <1>2 DEF Nodes, Position, LiveInv, Flow
    <2> DEFINE i == Position(n) + 1
               S == Nodes \cup {to}
    <2>2. i \in 2 .. Len(order) + 1 /\ to \in S /\ order \in Seq(S)
      BY <2>1
    <2>3. order' = InsertAt(order, i, to)
      BY <1>1
    <2> HIDE DEF i, to, S
    <2>4. i \in 1 .. Len(order) + 1
      BY <2>2
    <2>5. PICK t : t = InsertAt(order, i, to)
      OBVIOUS
    <2>6. /\ t \in Seq(S)
          /\ \A j \in DOMAIN t : t[j] \in {order[k] : k \in DOMAIN order} \cup {to}
          /\ \A k \in DOMAIN order : \E j \in DOMAIN t : t[j] = order[k]
          /\ \E j \in DOMAIN t : t[j] = to
      BY <2>2, <2>4, <2>5, Inserted
    <2>7. order' = t
      BY <2>3, <2>5
    <2>8. /\ order' \in Seq(S)
          /\ \A j \in DOMAIN order' : order'[j] \in {order[k] : k \in DOMAIN order} \cup {to}
          /\ \A k \in DOMAIN order : \E j \in DOMAIN order' : order'[j] = order[k]
          /\ \E j \in DOMAIN order' : order'[j] = to
      BY <2>6, <2>7
    <2>9. order'[1] = order[1]
      <3> DEFINE a == SubSeq(order, 1, i - 1)
                 b == SubSeq(order, i, Len(order))
      <3>1. a \in Seq(S) /\ Len(a) = i - 1 /\ a[1] = order[1] /\ b \in Seq(S)
        BY <2>2
      <3>2. order' = a \o <<to>> \o b
        BY <2>3 DEF InsertAt
      <3> HIDE DEF a, b
      <3>3. a \o <<to>> \in Seq(S) /\ Len(a \o <<to>>) = i /\ (a \o <<to>>)[1] = a[1]
        BY <2>2, <3>1
      <3> DEFINE c == a \o <<to>>
      <3> HIDE DEF c
      <3>4. (c \o b)[1] = c[1]
        BY <2>2, <3>1, <3>3 DEF c
      <3> QED BY <3>1, <3>2, <3>3, <3>4 DEF c
    <2>10. Nodes' = Nodes \cup {to}
      BY <2>8 DEF Nodes
    <2> QED BY <2>8, <2>9, <2>10 DEF S
  <1>6. Entry' = Entry /\ Entry \in Nodes
    <2>1. order # << >> /\ order \in Seq(Nodes)
      BY DEF LiveInv, Flow
    <2>3. order' # << >>
      <3>1. \E j \in DOMAIN order' : order'[j] = to
        BY <1>5 DEF Nodes
      <3> QED BY <3>1
    <2>2. Head(order) = order[1] /\ 1 \in DOMAIN order /\ Head(order') = order'[1]
      BY <1>5, <2>1, <2>3
    <2> QED BY <1>5, <2>2 DEF Entry, Nodes
  <1>7. /\ code'[n] = Renamed(Phis(n), n, to) /\ code'[to] = Renamed(Rest(n), n, to)
        /\ \A m \in Nodes \ {n} : code'[m] = Renamed(code[m], n, to)
    <2>1. DOMAIN code = Nodes
      BY DEF Coded
    <2> QED BY <1>1, <1>2, <1>4, <2>1
  <1> QED BY <1>1, <1>2, <1>4, <1>5, <1>6, <1>7

\* A split leaves it so: what a PHI node took from a block it takes from the half of it
\* that now jumps to the PHI node's block.
LEMMA VerifiedSplit ==
  ASSUME LiveInv, Coded, Verified, SplitBasicBlock
  PROVE  Verified'
  <1>1. PICK n \in Nodes :
           /\ NoPhis(n) \notin Nodes /\ Nodes' = Nodes \cup {NoPhis(n)}
           /\ Entry' = Entry /\ Entry \in Nodes
           /\ succ' = [m \in DOMAIN succ \cup {NoPhis(n)} |->
                         IF m = n THEN {NoPhis(n)}
                         ELSE IF m = NoPhis(n) THEN succ[n] ELSE succ[m]]
           /\ code'[n] = Renamed(Phis(n), n, NoPhis(n))
           /\ code'[NoPhis(n)] = Renamed(Rest(n), n, NoPhis(n))
           /\ \A m \in Nodes \ {n} : code'[m] = Renamed(code[m], n, NoPhis(n))
    BY SplitIs
  <1> DEFINE to == NoPhis(n)
  <1>2. /\ DOMAIN succ = Nodes
        /\ \A m \in Nodes : code[m] \in Seq(NodeInstruction) /\ PhisFirst(code[m])
    BY DEF LiveInv, Flow, Coded
  <1>3. succ'[n] = {to} /\ succ'[to] = succ[n] /\ \A m \in Nodes \ {n} : succ'[m] = succ[m]
    BY <1>1, <1>2
  <1>4. /\ Phis(n) \in Seq(NodeInstruction) /\ Rest(n) \in Seq(NodeInstruction)
        /\ NoPhiIn(Rest(n)) /\ DOMAIN Phis(n) \subseteq DOMAIN code[n]
        /\ \A i \in DOMAIN Phis(n) : Phis(n)[i] = code[n][i]
    BY <1>1, <1>2, Halves
  <1> DEFINE half(m) == IF m = n THEN Phis(n) ELSE code[m]
  <1>5. ASSUME NEW m \in Nodes
        PROVE  /\ code'[m] = Renamed(half(m), n, to) /\ half(m) \in Seq(NodeInstruction)
               /\ DOMAIN half(m) \subseteq DOMAIN code[m]
               /\ \A i \in DOMAIN half(m) : half(m)[i] = code[m][i]
    BY <1>1, <1>2, <1>4
  <1> HIDE DEF half, to
  <1>6. \A m \in Nodes' : Entry' \notin succ'[m]
    <2>1. Entry # to
      BY <1>1 DEF to
    <2> QED BY <1>1, <1>3, <2>1 DEF Verified, to
  <1>7. ASSUME NEW m \in Nodes, NEW i \in DOMAIN code'[m], code'[m][i].isPhi
        PROVE  /\ \A j \in DOMAIN code'[m][i].incoming : m \in succ'[code'[m][i].incoming[j][2]]
               /\ \A j \in DOMAIN code'[m] : code'[m][j].result = code'[m][i].result => j = i
    <2> DEFINE c == half(m)
               d == Renamed(c, n, to)
    <2>1. c \in Seq(InstructionFrom(Nodes)) /\ code'[m] = d
      BY <1>5 DEF NodeInstruction
    <2>2. /\ DOMAIN c \subseteq DOMAIN code[m] /\ \A k \in DOMAIN c : c[k] = code[m][k]
      BY <1>5
    <2>7. c \in Seq(InstructionFrom(Nodes)) /\ d = Renamed(c, n, to)
      BY <2>1
    <2> HIDE DEF c, d
    <2>3. /\ DOMAIN d = DOMAIN c
          /\ \A k \in DOMAIN c :
               /\ d[k].isPhi = c[k].isPhi /\ d[k].result = c[k].result
               /\ DOMAIN d[k].incoming = DOMAIN c[k].incoming
               /\ \A j \in DOMAIN c[k].incoming :
                    d[k].incoming[j][2] = RenamedSource(c[k].incoming[j][2], n, to)
      <3>1. \A k \in DOMAIN c : d[k].result = c[k].result
        BY <2>1, <2>7, RenamedResult
      <3>2. /\ DOMAIN d = DOMAIN c
            /\ \A k \in DOMAIN c :
                 /\ d[k].isPhi = c[k].isPhi /\ DOMAIN d[k].incoming = DOMAIN c[k].incoming
                 /\ \A j \in DOMAIN c[k].incoming :
                      d[k].incoming[j][2] = RenamedSource(c[k].incoming[j][2], n, to)
        <4>1. /\ d \in Seq(InstructionFrom(Nodes \cup {to})) /\ DOMAIN d = DOMAIN c
              /\ \A k \in DOMAIN c :
                   /\ d[k].isPhi = c[k].isPhi
                   /\ DOMAIN d[k].incoming = DOMAIN c[k].incoming
                   /\ \A j \in DOMAIN c[k].incoming :
                        /\ d[k].incoming[j][1] = c[k].incoming[j][1]
                        /\ d[k].incoming[j][2] = RenamedSource(c[k].incoming[j][2], n, to)
          BY <2>7, RenamedIs, SMTT(30)
        <4> QED BY <4>1
      <3> QED BY <3>1, <3>2
    <2>4. i \in DOMAIN c /\ i \in DOMAIN code[m] /\ c[i] = code[m][i] /\ code[m][i].isPhi
      BY <1>7, <2>1, <2>2, <2>3
    <2>5. \A j \in DOMAIN d : d[j].result = d[i].result => j = i
      BY <2>2, <2>3, <2>4 DEF Verified
    <2>6. ASSUME NEW j \in DOMAIN d[i].incoming PROVE m \in succ'[d[i].incoming[j][2]]
      <3> DEFINE b == c[i].incoming[j][2]
      <3>1. j \in DOMAIN c[i].incoming /\ d[i].incoming[j][2] = RenamedSource(b, n, to)
        BY <2>3, <2>4
      <3>2. m \in succ[b]
        BY <2>4, <3>1 DEF Verified
      <3>3. b \in Nodes
        <4>1. c[i].incoming \in Seq((Values \cup {Constant}) \X Nodes)
          <5> DEFINE inst == c[i]
          <5>1. inst \in InstructionFrom(Nodes)
            BY <2>1, <2>4
          <5> HIDE DEF inst
          <5>2. inst.incoming \in Seq((Values \cup {Constant}) \X Nodes)
            BY <5>1 DEF InstructionFrom
          <5> QED BY <5>2 DEF inst
        <4> DEFINE inc == c[i].incoming
                   S   == Values \cup {Constant}
        <4>2. inc \in Seq(S \X Nodes) /\ j \in DOMAIN inc
          BY <3>1, <4>1
        <4> HIDE DEF inc, S
        <4>3. inc[j][2] \in Nodes
          BY <4>2
        <4> QED BY <4>3 DEF inc
      <3> HIDE DEF b
      <3> QED BY <1>3, <3>1, <3>2, <3>3 DEF RenamedSource
    <2> QED BY <2>1, <2>5, <2>6
  <1>8. ASSUME NEW i \in DOMAIN code'[to] PROVE ~code'[to][i].isPhi
    <2> DEFINE c == Rest(n)
    <2>1. code'[to] = Renamed(c, n, to) /\ c \in Seq(InstructionFrom(Nodes)) /\ NoPhiIn(c)
      BY <1>1, <1>4 DEF to, NodeInstruction
    <2> HIDE DEF c
    <2> DEFINE d == Renamed(c, n, to)
    <2>3. code'[to] = d
      BY <2>1
    <2>4. c \in Seq(InstructionFrom(Nodes)) /\ d = Renamed(c, n, to)
      BY <2>1
    <2> HIDE DEF d
    <2>2. /\ d \in Seq(InstructionFrom(Nodes \cup {to})) /\ DOMAIN d = DOMAIN c
          /\ \A k \in DOMAIN c :
               /\ d[k].isPhi = c[k].isPhi
               /\ DOMAIN d[k].incoming = DOMAIN c[k].incoming
               /\ \A j \in DOMAIN c[k].incoming :
                    /\ d[k].incoming[j][1] = c[k].incoming[j][1]
                    /\ d[k].incoming[j][2] = RenamedSource(c[k].incoming[j][2], n, to)
      BY <2>4, RenamedIs, SMTT(30)
    <2> QED BY <1>8, <2>1, <2>2, <2>3 DEF NoPhiIn
  <1> QED BY <1>1, <1>6, <1>7, <1>8 DEF Verified, to

\* Nothing else of the analysis changes main.
LEMMA VerifiedSame ==
  ASSUME Verified, UNCHANGED <<order, succ, code>>
  PROVE  Verified'
  BY DEF Verified, Nodes, Entry

\* So every step of the analysis keeps it.
LEMMA VerifiedAnalyse ==
  ASSUME LiveInv, Coded, Verified, Next
  PROVE  Verified'
  <1>1. CASE SplitBasicBlock
    BY <1>1, VerifiedSplit
  <1>2. CASE ~SplitBasicBlock
    <2>1. UNCHANGED <<order, succ, code>>
      BY <1>2 DEF Next, AddNodes, VisitNode, RepeatPass, SetUpLiveSetsAndMappings, function
    <2> QED BY <2>1, VerifiedSame
  <1> QED BY <1>1, <1>2

----------------------------------------------------------------------------
(* What the nodes map, and where the edges are *)

\* The values live in a block, and those that the entry block defines.
ValuesIn(n)  == {u.value : u \in live[n]}
EntryResults == {code[Entry][i].result : i \in DOMAIN code[Entry]} \cap Values

\* While the blocks are made: those that were there are as they were, and an edge
\* goes where it went or to the checkpoint block of where it went.
Built ==
  /\ \A n \in Nodes : insts[n] = code[n] /\ mapping[n] = liveValuesMap[n]
  /\ \A m \in Range(blocks), n \in Nodes : n \in flow[m] =>
       \/ m \in Nodes /\ n \in succ[m]
       \/ n \in Range(labels) /\ m \in {Checkpoint(n), Restart(n)}
  /\ \A m \in Range(blocks), c \in Range(labels) :
       Checkpoint(c) \in flow[m] => m \in Nodes /\ c \in succ[m]
  /\ \A m \in Nodes : \A s \in succ[m] :
       \/ s \in flow[m]
       \/ s \in Range(labels) /\ Checkpoint(s) \in flow[m]
  /\ \A c \in Range(labels) : insts[Checkpoint(c)] = << >>

\* The nodes of a label's two blocks map what is live there.
LabelsMapped ==
  \A c \in Range(labels) : /\ Checkpoint(c) \in Range(blocks)
                           /\ liveValues[Checkpoint(c)] = live[c]
                           /\ ValuesIn(c) \subseteq DOMAIN mapping[Checkpoint(c)]
                           /\ ValuesIn(c) \subseteq DOMAIN mapping[Restart(c)]

\* An edge of main, after the entry block's code has moved.
EdgeFrom(m, n) ==
  \/ m \in Nodes \ {Entry} /\ n \in succ[m]
  \/ m = NoCREntry /\ n \in succ[Entry]

\* With the new entry in, main's edges are where they were, or lead to the checkpoint
\* blocks; every node still maps what it did.
Wired ==
  /\ \A m \in Range(blocks), n \in Nodes : n \in flow[m] =>
       \/ EdgeFrom(m, n)
       \/ n \in Range(labels) /\ m \in {Checkpoint(n), Restart(n)}
  /\ \A m \in Range(blocks), c \in Range(labels) : Checkpoint(c) \in flow[m] => EdgeFrom(m, c)
  /\ \A s \in succ[Entry] :
       \/ s \in flow[NoCREntry]
       \/ s \in Range(labels) /\ Checkpoint(s) \in flow[NoCREntry]
  /\ \A n \in Nodes : DOMAIN liveValuesMap[n] \subseteq DOMAIN mapping[n]
  /\ DOMAIN mapping[NoCREntry] = EntryResults /\ liveValues[NoCREntry] = {}

\* Until the switch at the entry is in.
PlacesInv ==
  /\ Verified
  /\ step \notin {"analysis", "unchanged"} => LabelsMapped
  /\ step = "blocks" => Built
  /\ step \in {"fill", "phis", "update"} => Wired

\* The blocks of a label to come are new.
LEMMA NewBlocks ==
  ASSUME PassInv, NEW n \in checkpointBlocks \ Range(labels)
  PROVE  Checkpoint(n) \notin AllBlocks /\ Restart(n) \notin AllBlocks
  <1>1. LiveInv /\ Range(labels) \subseteq checkpointBlocks
    BY LabelsTyped DEF PassInv, SetsInv
  <1>2. \A c \in Range(labels) : c # n /\ c \in checkpointBlocks
    BY <1>1
  <1> QED BY <1>1, <1>2, AddedBlocks DEF AllBlocks

\* The blocks of main, before there are others.
LEMMA StartPlaces ==
  ASSUME PlacesInv, PassInv, TypesInv, AddCheckpointsToFunction
  PROVE  PlacesInv'
  <1>1. /\ step = "analysis" /\ phase = "done" /\ step' \in {"unchanged", "blocks"}
        /\ blocks' = order /\ flow' = succ /\ insts' = code /\ liveValues' = live
        /\ mapping' = liveValuesMap /\ UNCHANGED <<analysis, plan>>
    BY DEF AddCheckpointsToFunction
  <1>2. /\ UNCHANGED <<order, succ, code, live, liveValuesMap, labels>> /\ labels = << >>
        /\ Nodes' = Nodes /\ Range(order) = Nodes /\ Verified
    BY <1>1, SameAnalysis, LabelsTyped DEF plan, vars, function, nodes, PassInv, Range, Nodes, PlacesInv
  <1>3. Verified'
    BY <1>2, VerifiedSame
  <1>4. Range(labels') = {}
    BY <1>2 DEF Range
  <1>5. LabelsMapped'
    BY <1>4 DEF LabelsMapped
  <1>6. Built'
    BY <1>1, <1>2, <1>4 DEF Built
  <1> QED BY <1>1, <1>3, <1>5, <1>6 DEF PlacesInv

\* Two blocks more, and one edge redirected.
LEMMA CreatePlaces ==
  ASSUME PlacesInv, PassInv, TypesInv, CreateCheckpointAndRestartBlocks
  PROVE  PlacesInv'
  <1>1. PICK n \in checkpointBlocks \ Range(labels) :
          \E first \in Preds(n) : \E g, h, k : Placed(n, first, g, h, k)
    BY CreateIs
  <1>1a. PICK first \in Preds(n) : \E g, h, k : Placed(n, first, g, h, k)
    BY <1>1
  <1>1b. PICK g, h, k : Placed(n, first, g, h, k)
    BY <1>1a
  <1>2. /\ labels' = Append(labels, n) /\ blocks' = blocks \o <<Checkpoint(n), Restart(n)>>
        /\ flow' = [m \in DOMAIN flow \cup {Checkpoint(n), Restart(n)} |->
                      IF m \in {Checkpoint(n), Restart(n)} THEN {n}
                      ELSE Redirected(m, n, first)]
        /\ DOMAIN g = {Checkpoint(n), Restart(n)} /\ insts' = Insert(g, insts)
        /\ \A m \in DOMAIN g : g[m] = << >>
        /\ DOMAIN h = {Checkpoint(n), Restart(n)} /\ liveValues' = Insert(h, liveValues)
        /\ \A m \in DOMAIN h : h[m] = IF m = Restart(n) THEN {} ELSE liveValues[n]
        /\ DOMAIN k = {Checkpoint(n), Restart(n)} /\ mapping' = Insert(k, mapping)
        /\ \A m \in DOMAIN k : DOMAIN k[m] = {u.value : u \in liveValues[n]}
    BY <1>1b DEF Placed
  <1> DEFINE added == {Checkpoint(n), Restart(n)}
  <1>3. /\ step = "blocks" /\ step' = "blocks" /\ UNCHANGED <<analysis, running>>
        /\ Built /\ LabelsMapped /\ Verified
    BY DEF CreateCheckpointAndRestartBlocks, PlacesInv
  <1>4. UNCHANGED <<order, succ, code, live, liveValuesMap>> /\ Nodes' = Nodes
    BY <1>3, SameAnalysis DEF vars, function, nodes
  <1>5. /\ Nodes \subseteq Range(blocks) /\ Range(blocks) \subseteq AllBlocks
        /\ DOMAIN flow = Range(blocks) /\ DOMAIN insts = Range(blocks)
        /\ DOMAIN mapping = Range(blocks) /\ DOMAIN liveValues = Range(blocks)
        /\ \A m \in Range(blocks) : flow[m] \subseteq Range(blocks)
    BY <1>3 DEF TypesInv, Shaped, Range
  <1>6. /\ LiveInv /\ Labelled /\ labels \in Seq(checkpointBlocks) /\ n \in Nodes
        /\ Checkpoint(n) # Restart(n) /\ n \notin added
    BY <1>3, LabelsTyped, AddedBlocks DEF PassInv, SetsInv, LiveInv, Named
  <1>7. \A m \in added : m \notin Range(blocks) /\ m \notin Nodes
    BY <1>5, NewBlocks
  <1>8. Range(labels') = Range(labels) \cup {n} /\ DOMAIN flow' = Range(blocks')
    <2>1. Range(Append(labels, n)) = Range(labels) \cup {n}
      BY <1>6, RangeAppend
    <2>2. TypesInv'
      BY CreateTypes
    <2> QED BY <1>2, <2>1, <2>2 DEF TypesInv, Shaped
  <1>9. \A m \in Range(blocks) :
          /\ insts'[m] = insts[m] /\ mapping'[m] = mapping[m] /\ liveValues'[m] = liveValues[m]
          /\ flow'[m] = Redirected(m, n, first)
    BY <1>2, <1>5, <1>7 DEF Insert
  <1>10. /\ flow'[Checkpoint(n)] = {n} /\ flow'[Restart(n)] = {n}
         /\ insts'[Checkpoint(n)] = << >> /\ liveValues'[Checkpoint(n)] = live[n]
         /\ DOMAIN mapping'[Checkpoint(n)] = ValuesIn(n) /\ DOMAIN mapping'[Restart(n)] = ValuesIn(n)
    <2>1. liveValues[n] = live[n]
      BY <1>6 DEF Labelled
    <2>2. insts'[Checkpoint(n)] = g[Checkpoint(n)]
      BY <1>2 DEF Insert
    <2>3. liveValues'[Checkpoint(n)] = h[Checkpoint(n)] /\ mapping'[Checkpoint(n)] = k[Checkpoint(n)]
          /\ mapping'[Restart(n)] = k[Restart(n)]
      BY <1>2 DEF Insert
    <2> QED BY <1>2, <1>6, <2>1, <2>2, <2>3 DEF ValuesIn
  <1>11. \A c \in Range(labels) : Checkpoint(c) \in Range(blocks) /\ Restart(c) \in Range(blocks)
         /\ c \in Nodes
    <2> TAKE c \in Range(labels)
    <2>1. Restart(c) \in Range(blocks) /\ c \in checkpointBlocks
      BY <1>5, <1>6 DEF Labelled, Range
    <2>2. Checkpoint(c) \in Range(blocks)
      BY <1>3 DEF LabelsMapped
    <2> QED BY <2>1, <2>2, <1>6 DEF LiveInv, Named
  <1>11a. Range(blocks') = Range(blocks) \cup added
    BY <1>2, <1>5, <1>8
  <1>12. LabelsMapped'
    BY <1>3, <1>4, <1>8, <1>11a, <1>9, <1>10, <1>11 DEF LabelsMapped, ValuesIn
  <1>13. first \in Range(blocks) /\ first \in Nodes /\ n \in succ[first] /\ n \in flow[first]
    BY <1>3, <1>5, <1>6 DEF Preds, Built
  <1>14. Built'
    <2>1. ASSUME NEW m \in Range(blocks'), NEW c \in Nodes, c \in flow'[m]
          PROVE  \/ m \in Nodes /\ c \in succ[m]
                 \/ c \in Range(labels') /\ m \in {Checkpoint(c), Restart(c)}
      <3>1. CASE m \in added
        BY <1>8, <1>10, <2>1, <3>1
      <3>2. CASE m \in Range(blocks)
        <4>1. c \in flow[m]
          BY <1>7, <1>9, <2>1, <3>2 DEF Redirected
        <4> QED BY <1>3, <1>8, <3>2, <4>1 DEF Built
      <3> QED BY <1>2, <1>5, <1>8, <3>1, <3>2
    <2>2. ASSUME NEW m \in Range(blocks'), NEW c \in Range(labels'), Checkpoint(c) \in flow'[m]
          PROVE  m \in Nodes /\ c \in succ[m]
      <3>1. CASE m \in added
        BY <1>6, <1>7, <1>10, <2>2, <3>1, AddedBlocks
      <3>2. CASE m \in Range(blocks) /\ c = n
        <4>1. Checkpoint(n) \notin flow[m]
          BY <1>5, <1>7, <3>2
        <4> QED BY <1>9, <1>13, <2>2, <3>2, <4>1 DEF Redirected
      <3>3. CASE m \in Range(blocks) /\ c \in Range(labels)
        <4>1. Checkpoint(c) \in flow[m]
          BY <1>7, <1>9, <1>11, <2>2, <3>3 DEF Redirected
        <4> QED BY <1>3, <3>3, <4>1 DEF Built
      <3> QED BY <1>2, <1>5, <1>8, <3>1, <3>2, <3>3
    <2>3. ASSUME NEW m \in Nodes, NEW s \in succ[m]
          PROVE  s \in flow'[m] \/ (s \in Range(labels') /\ Checkpoint(s) \in flow'[m])
      <3>1. m \in Range(blocks) /\ (s \in flow[m] \/ (s \in Range(labels) /\ Checkpoint(s) \in flow[m]))
        BY <1>3, <1>5 DEF Built
      <3>2. \A c \in Range(labels) : Checkpoint(c) # n
        BY <1>6, AddedBlocks
      <3> QED BY <1>8, <1>9, <3>1, <3>2 DEF Redirected
    <2>4. \A c \in Range(labels') : insts'[Checkpoint(c)] = << >>
      BY <1>3, <1>8, <1>9, <1>10, <1>11 DEF Built
    <2>5. \A c \in Nodes : insts'[c] = code[c] /\ mapping'[c] = liveValuesMap[c]
      BY <1>3, <1>5, <1>9 DEF Built
    <2> QED BY <1>4, <2>1, <2>2, <2>3, <2>4, <2>5 DEF Built
  <1>15. Verified'
    BY <1>3, <1>4, VerifiedSame
  <1> QED BY <1>3, <1>12, <1>14, <1>15 DEF PlacesInv

\* The entry block's code, its edges and its results go to a block of their own.
LEMMA EntryPlaces ==
  ASSUME PlacesInv, PassInv, TypesInv, InsertRestartBlock
  PROVE  PlacesInv'
  <1>1. /\ step = "blocks" /\ step' = "fill" /\ UNCHANGED <<analysis, plan>>
        /\ Built /\ LabelsMapped /\ Verified
        /\ blocks' = Append(blocks, NoCREntry)
        /\ flow' = [m \in DOMAIN flow \cup {NoCREntry} |->
                      IF m = Entry THEN {NoCREntry} \cup {Restart(n) : n \in checkpointBlocks}
                      ELSE IF m = NoCREntry THEN flow[Entry] ELSE flow[m]]
        /\ liveValues' = Insert([m \in {NoCREntry} |-> {}], liveValues)
        /\ mapping' = Insert([m \in {NoCREntry} |-> MappedAtNoCREntry], mapping)
    BY DEF InsertRestartBlock, PlacesInv
  <1>2. UNCHANGED <<order, succ, code, live, liveValuesMap, labels>> /\ Nodes' = Nodes
    BY <1>1, SameAnalysis DEF vars, function, nodes, plan
  <1>3. /\ Nodes \subseteq Range(blocks) /\ Range(blocks) \subseteq AllBlocks
        /\ DOMAIN flow = Range(blocks) /\ blocks \in Seq(AllBlocks)
        /\ DOMAIN mapping = Range(blocks) /\ DOMAIN liveValues = Range(blocks)
    BY <1>1 DEF TypesInv, Shaped, Range
  <1>4. /\ LiveInv /\ Labelled /\ Entry \in Nodes
        /\ \A c \in Range(labels) : c \in Nodes
    <2>1. LiveInv /\ Labelled /\ Range(labels) \subseteq checkpointBlocks
      BY <1>1, LabelsTyped DEF PassInv, SetsInv
    <2>2. Entry \in Nodes
      <3>1. order \in Seq(Nodes) /\ order # << >>
        BY <2>1 DEF LiveInv, Flow
      <3> QED BY <3>1 DEF Entry
    <2> QED BY <2>1, <2>2 DEF LiveInv, Named
  <1>5. Range(blocks') = Range(blocks) \cup {NoCREntry} /\ Entry' = Entry /\ NoCREntry' = NoCREntry
    <2>1. Range(Append(blocks, NoCREntry)) = Range(blocks) \cup {NoCREntry}
      BY <1>3, RangeAppend
    <2>2. Range(blocks') = Range(Append(blocks, NoCREntry))
      BY <1>1 DEF Range
    <2>3. Entry' = Entry /\ NoCREntry' = NoCREntry
      BY <1>2 DEF Entry, NoCREntry
    <2> QED BY <2>1, <2>2, <2>3
  <1>6. /\ NoCREntry \notin Nodes
        /\ \A n : NoCREntry # Checkpoint(n) /\ NoCREntry # Restart(n)
        /\ \A n : Checkpoint(n) \notin Nodes /\ Restart(n) \notin Nodes
        /\ \A m, n : Checkpoint(m) # Restart(n)
    BY <1>4, AddedBlocks
  <1>7. /\ \A n \in Nodes : n \notin flow'[Entry]
        /\ \A c : Checkpoint(c) \notin flow'[Entry]
        /\ flow'[NoCREntry] = flow[Entry]
        /\ \A m \in Range(blocks) \ {Entry, NoCREntry} : flow'[m] = flow[m]
    BY <1>1, <1>3, <1>4, <1>6
  <1>8. /\ \A m \in Range(blocks) \ {NoCREntry} : /\ mapping'[m] = mapping[m]
                                                  /\ liveValues'[m] = liveValues[m]
        /\ mapping'[NoCREntry] = MappedAtNoCREntry /\ liveValues'[NoCREntry] = {}
    BY <1>1, <1>3 DEF Insert
  <1>9. DOMAIN MappedAtNoCREntry = EntryResults
    BY <1>1, <1>4 DEF MappedAtNoCREntry, Identity, Results, EntryResults, Built
  <1>10. EntryResults' = EntryResults
    BY <1>2, <1>5 DEF EntryResults
  <1>11. Wired'
    <2>1. ASSUME NEW m \in Range(blocks'), NEW n \in Nodes, n \in flow'[m]
          PROVE  \/ EdgeFrom(m, n)
                 \/ n \in Range(labels) /\ m \in {Checkpoint(n), Restart(n)}
      <3>1. CASE m = NoCREntry
        BY <1>1, <1>3, <1>4, <1>6, <1>7, <2>1, <3>1 DEF Built, EdgeFrom
      <3>2. CASE m # NoCREntry
        BY <1>1, <1>3, <1>4, <1>5, <1>7, <2>1, <3>2 DEF Built, EdgeFrom
      <3> QED BY <3>1, <3>2
    <2>2. ASSUME NEW m \in Range(blocks'), NEW c \in Range(labels), Checkpoint(c) \in flow'[m]
          PROVE  EdgeFrom(m, c)
      <3>1. CASE m = NoCREntry
        BY <1>1, <1>3, <1>4, <1>6, <1>7, <2>2, <3>1 DEF Built, EdgeFrom
      <3>2. CASE m # NoCREntry
        BY <1>1, <1>3, <1>4, <1>5, <1>7, <2>2, <3>2 DEF Built, EdgeFrom
      <3> QED BY <3>1, <3>2
    <2>3. \A s \in succ[Entry] : \/ s \in flow'[NoCREntry]
                                 \/ s \in Range(labels) /\ Checkpoint(s) \in flow'[NoCREntry]
      BY <1>1, <1>4, <1>7 DEF Built
    <2>4. \A n \in Nodes : DOMAIN liveValuesMap[n] \subseteq DOMAIN mapping'[n]
      BY <1>1, <1>3, <1>6, <1>8 DEF Built
    <2>5. DOMAIN mapping'[NoCREntry] = EntryResults /\ liveValues'[NoCREntry] = {}
      BY <1>8, <1>9
    <2>6. \A m, n : EdgeFrom(m, n)' <=> EdgeFrom(m, n)
      BY <1>2, <1>5 DEF EdgeFrom
    <2> QED BY <1>2, <1>5, <1>10, <2>1, <2>2, <2>3, <2>4, <2>5, <2>6 DEF Wired
  <1>12. LabelsMapped'
    <2>1. \A c \in Range(labels) : Restart(c) \in Range(blocks) /\ Checkpoint(c) \in Range(blocks)
      BY <1>1, <1>3, <1>4 DEF Labelled, LabelsMapped
    <2>2. \A c \in Range(labels) : /\ mapping'[Checkpoint(c)] = mapping[Checkpoint(c)]
                                   /\ mapping'[Restart(c)] = mapping[Restart(c)]
                                   /\ liveValues'[Checkpoint(c)] = liveValues[Checkpoint(c)]
      BY <1>6, <1>8, <2>1
    <2>3. \A c : ValuesIn(c)' = ValuesIn(c)
      BY <1>2 DEF ValuesIn
    <2> QED BY <1>1, <1>2, <1>5, <2>1, <2>2, <2>3 DEF LabelsMapped
  <1>13. Verified'
    BY <1>1, <1>2, VerifiedSame
  <1> QED BY <1>1, <1>11, <1>12, <1>13 DEF PlacesInv

\* The steps that neither make blocks nor edges, and after which the nodes map at least
\* what they did, that of the entry block's code exactly that.
LEMMA PlacesKept ==
  ASSUME PlacesInv, UNCHANGED <<analysis, labels, blocks, flow, liveValues>>,
         step \in {"analysis", "unchanged"} => step' \in {"analysis", "unchanged"},
         step' \in {"fill", "phis", "update"} => step \in {"fill", "phis", "update"},
         step' # "blocks",
         \A n \in Range(blocks) : DOMAIN mapping[n] \subseteq DOMAIN mapping'[n],
         step \in {"fill", "phis", "update"} =>
           DOMAIN mapping'[NoCREntry] = DOMAIN mapping[NoCREntry],
         step \notin {"analysis", "unchanged"} =>
           /\ Nodes \subseteq Range(blocks)
           /\ \A c \in Range(labels) : Restart(c) \in Range(blocks)
  PROVE  PlacesInv'
  <1>1. UNCHANGED <<order, succ, code, live, liveValuesMap, labels>> /\ Nodes' = Nodes
    BY SameAnalysis DEF vars, function, nodes
  <1>2. Entry' = Entry /\ NoCREntry' = NoCREntry
    BY <1>1 DEF Entry, NoCREntry
  <1>3. Verified'
    BY <1>1, VerifiedSame DEF PlacesInv
  <1>4. ASSUME step' \notin {"analysis", "unchanged"} PROVE LabelsMapped'
    <2>1. LabelsMapped /\ \A c \in Range(labels) : Restart(c) \in Range(blocks)
      BY <1>4 DEF PlacesInv
    <2> QED BY <1>1, <2>1 DEF LabelsMapped, ValuesIn
  <1>5. ASSUME step' \in {"fill", "phis", "update"} PROVE Wired'
    <2>1. Wired /\ Nodes \subseteq Range(blocks)
          /\ DOMAIN mapping'[NoCREntry] = DOMAIN mapping[NoCREntry]
      BY <1>5 DEF PlacesInv
    <2>2. \A m, n : EdgeFrom(m, n)' <=> EdgeFrom(m, n)
      BY <1>1, <1>2 DEF EdgeFrom
    <2>3. EntryResults' = EntryResults
      BY <1>1, <1>2 DEF EntryResults
    <2> QED BY <1>1, <1>2, <2>1, <2>2, <2>3 DEF Wired
  <1> QED BY <1>3, <1>4, <1>5 DEF PlacesInv

\* Every step keeps it.
LEMMA PlacesStep ==
  ASSUME PlacesInv, PassInv, TypesInv, [PassNext]_passVars
  PROVE  PlacesInv'
  <1>1. step \notin {"analysis", "unchanged"} =>
          /\ Nodes \subseteq Range(blocks)
          /\ \A c \in Range(labels) : Restart(c) \in Range(blocks)
    BY LabelsTyped DEF TypesInv, Shaped, PassInv, Labelled
  <1>2. step \notin {"analysis", "unchanged"} => LiveInv /\ Labelled
    BY LabelsTyped DEF PassInv, SetsInv
  <1>3. CASE Analyse
    <2>1. step = "analysis" /\ step' = "analysis" /\ Next /\ Verified
      BY <1>3 DEF Analyse, PlacesInv
    <2>2. LiveInv /\ Coded
      BY DEF PassInv, SetsInv
    <2>3. Verified'
      BY <2>1, <2>2, VerifiedAnalyse
    <2> QED BY <2>1, <2>3 DEF PlacesInv
  <1>4. CASE AddCheckpointsToFunction
    BY <1>4, StartPlaces
  <1>5. CASE CreateCheckpointAndRestartBlocks
    BY <1>5, CreatePlaces
  <1>6. CASE InsertRestartBlock
    BY <1>6, EntryPlaces
  <1>7. CASE FillNextBlock \/ RestoreSizesAndAliases
    <2>1. /\ step = "fill" /\ step' = "fill" /\ UNCHANGED <<analysis, labels>>
          /\ UNCHANGED <<blocks, flow, liveValues, mapping>>
      BY <1>7 DEF FillNextBlock, RestoreSizesAndAliases, transformed
    <2> QED BY <1>1, <2>1, PlacesKept
  <1>8. CASE RestoreScalar \/ RestorePointer
    <2>1. /\ step = "fill" /\ step' = "fill" /\ AddSlotOnce(Head(work)[2])
          /\ UNCHANGED <<analysis, blocks, flow, liveValues, labels>>
      BY <1>8 DEF RestoreScalar, RestorePointer
    <2>2. NoCREntry # Restart(Filled)
      BY <1>2, <2>1, AddedBlocks
    <2>3. /\ \A n \in Range(blocks) : DOMAIN mapping[n] \subseteq DOMAIN mapping'[n]
          /\ mapping'[NoCREntry] = mapping[NoCREntry]
      <3>1. CASE HasSlot(Head(work)[2])
        BY <2>1, <3>1 DEF AddSlotOnce
      <3>2. CASE ~HasSlot(Head(work)[2])
        <4>1. DOMAIN mapping = Range(blocks) /\ NoCREntry \in Range(blocks)
          BY <2>1 DEF TypesInv, Shaped
        <4> QED BY <2>1, <2>2, <3>2, <4>1 DEF AddSlotOnce, AddSlot, Insert
      <3> QED BY <3>1, <3>2
    <2> QED BY <1>1, <2>1, <2>3, PlacesKept
  <1>9. CASE CreatePhis
    <2>1. PICK i \in DOMAIN blocks :
            /\ WithLive(i)
            /\ mapping' = [mapping EXCEPT ![blocks[i]] = Insert(NewNames(blocks[i]), @)]
      BY <1>9 DEF CreatePhis
    <2>2. /\ step = "phis" /\ step' = "phis"
          /\ UNCHANGED <<analysis, blocks, flow, liveValues, labels>>
      BY <1>9 DEF CreatePhis, plan
    <2>3. DOMAIN mapping = Range(blocks) /\ NoCREntry \in Range(blocks)
          /\ blocks[i] \in Range(blocks)
      BY <2>2 DEF TypesInv, Shaped, Range
    <2>4. blocks[i] # NoCREntry
      BY <2>1, <2>2 DEF WithLive, PlacesInv, Wired
    <2>5. /\ \A n \in Range(blocks) : DOMAIN mapping[n] \subseteq DOMAIN mapping'[n]
          /\ mapping'[NoCREntry] = mapping[NoCREntry]
      BY <2>1, <2>3, <2>4 DEF Insert
    <2> QED BY <1>1, <2>2, <2>5, PlacesKept
  <1>10. CASE Unmapped
    <2>1. /\ UNCHANGED <<analysis, labels, blocks, flow, liveValues, mapping>>
          /\ step \in {"analysis", "unchanged"} => step' \in {"analysis", "unchanged"}
          /\ step' \in {"fill", "phis", "update"} => step \in {"fill", "phis", "update"}
          /\ step' # "blocks"
      <3>1. CASE NotLinked
        BY <3>1 DEF NotLinked, transformed, plan
      <3>2. CASE PointerNotSupported
        BY <3>2 DEF PointerNotSupported, transformed, plan
      <3>3. CASE AllFilled
        BY <3>3 DEF AllFilled, transformed, plan
      <3>4. CASE AllCreated
        BY <3>4 DEF AllCreated, transformed, plan
      <3>5. CASE UpdatePhis
        BY <3>5 DEF UpdatePhis, plan
      <3>6. CASE NoMapping
        BY <3>6 DEF NoMapping, transformed, plan
      <3>7. CASE CollectConstantPhis
        BY <3>7 DEF CollectConstantPhis, transformed, plan
      <3>8. CASE RemovePhi
        BY <3>8 DEF RemovePhi, plan
      <3>9. CASE RepeatCleanUp
        BY <3>9 DEF RepeatCleanUp, transformed, plan
      <3>10. CASE Fixed
        BY <3>10 DEF Fixed, transformed, plan
      <3>11. CASE RunBlock
        BY <3>11 DEF RunBlock, transformed, plan
      <3>12. CASE RestartFromCheckpoint
        BY <3>12 DEF RestartFromCheckpoint, transformed, plan
      <3> QED BY <1>10, <3>1, <3>2, <3>3, <3>4, <3>5, <3>6, <3>7, <3>8, <3>9, <3>10, <3>11,
                 <3>12 DEF Unmapped
    <2> QED BY <1>1, <2>1, PlacesKept
  <1>11. CASE UNCHANGED passVars
    <2>1. /\ UNCHANGED <<step, analysis, blocks, flow, liveValues, mapping, labels>>
      BY <1>11 DEF passVars, transformed, plan
    <2>2. UNCHANGED <<order, succ, code, live, liveValuesMap, labels>> /\ Nodes' = Nodes
      BY <2>1, SameAnalysis DEF vars, function, nodes
    <2>3. step = "blocks" => insts' = insts
      BY <1>11 DEF passVars, transformed
    <2>4. CASE step = "blocks"
      <3>1. Built' /\ LabelsMapped'
        BY <2>1, <2>2, <2>3, <2>4 DEF PlacesInv, Built, LabelsMapped, ValuesIn
      <3>2. Verified'
        BY <2>2, VerifiedSame DEF PlacesInv
      <3> QED BY <2>1, <2>4, <3>1, <3>2 DEF PlacesInv
    <2>5. CASE step # "blocks"
      BY <1>1, <2>1, <2>5, PlacesKept
    <2> QED BY <2>4, <2>5
  <1> QED BY <1>3, <1>4, <1>5, <1>6, <1>7, <1>8, <1>9, <1>10, <1>11
          DEF PassNext, Pass, Unmapped

----------------------------------------------------------------------------
(* The PHI nodes, and what they are to be given *)

\* What an instruction consists of.
Fields == {"result", "isPhi", "incoming", "operands"}

\* A PHI node of main, in block n: what was taken from the entry block is taken from
\* where its code is now.
SourceOf(m) == IF m = Entry THEN NoCREntry ELSE m
IsOld(phi, n) ==
  /\ n \in Nodes \ {Entry}
  /\ \E i \in DOMAIN code[n] :
       /\ code[n][i].isPhi /\ phi.result = code[n][i].result
       /\ DOMAIN phi.incoming = DOMAIN code[n][i].incoming
       /\ \A j \in DOMAIN phi.incoming :
            /\ phi.incoming[j][2] = SourceOf(code[n][i].incoming[j][2])
            /\ phi.incoming[j][1] \in Values => phi.incoming[j][1] = code[n][i].incoming[j][1]

\* One that was added to it.
IsNew(phi, n) ==
  \E v \in Values :
    /\ phi.result = Version(v, n) /\ DOMAIN phi.incoming = DOMAIN SetToSeq(Preds(n))
    /\ \A j \in DOMAIN phi.incoming : phi.incoming[j] = <<Constant, SetToSeq(Preds(n))[j]>>

\* The blocks that may get PHI nodes, which have no others.
Phied == Nodes \cup {Checkpoint(c) : c \in Range(labels)}
IsKnown(inst, n) ==
  DOMAIN inst = Fields /\ (inst.isPhi => IsOld(inst, n) \/ IsNew(inst, n))
PhisKnown ==
  \A n \in Phied : /\ insts[n] \in Seq(Range(insts[n]))
                   /\ \A inst \in Range(insts[n]) : IsKnown(inst, n)

\* A PHI node of ptu.node has a place for what it takes from m: place ptu.index.
HasPlace(ptu, m) ==
  \E phi \in Range(insts[ptu.node]) :
    /\ phi.isPhi /\ phi.result = ptu.phi
    /\ ptu.index \in DOMAIN phi.incoming /\ phi.incoming[ptu.index][2] = m

\* The value will be found at m, or nowhere for a reason.
Found(v, m) == v \in DOMAIN mapping[m] \/ MappedNowhere \/ ~PhiSourcesMapped
ScheduledFound ==
  \A ptu \in scheduled :
    ptu.node \in Phied /\ \E m \in Range(blocks) : HasPlace(ptu, m) /\ Found(ptu.value, m)

\* Block n asks the moved entry block for v.
Asks(n, v) ==
  /\ n \in Phied /\ n \in flow[NoCREntry]
  /\ v \in LiveIn(n) \/ (n \in Nodes /\ TakenFrom(Entry, n, v))

\* The PHI nodes of n still take what they took in main.
Original(n) ==
  n \in Nodes \ {Entry} =>
    \A i \in DOMAIN code[n] : code[n][i].isPhi =>
      \E phi \in Range(insts[n]) :
        /\ phi.isPhi /\ phi.result = code[n][i].result
        /\ DOMAIN phi.incoming = DOMAIN code[n][i].incoming
        /\ \A j \in DOMAIN code[n][i].incoming :
             phi.incoming[j][1] = code[n][i].incoming[j][1]

\* Whatever asks it is scheduled, or has its turn to come.
ToCome(n) == \E k \in DOMAIN blocks : k >= cursor /\ blocks[k] = n
AskedScheduled ==
  \A n \in Phied, v \in Values : Asks(n, v) =>
    \/ \E ptu \in scheduled : ptu.node = n /\ ptu.value = v /\ HasPlace(ptu, NoCREntry)
    \/ ToCome(n) /\ Original(n)

\* The invariant of fixDominance: nothing is scheduled before it, all that is scheduled
\* will be found, and all that is asked of the moved entry block gets scheduled.
NamesInv ==
  /\ step \in {"analysis", "blocks", "fill"} => scheduled = {}
  /\ step \in {"fill", "phis", "update"} => PhisKnown
  /\ step = "fill" => \A n \in Nodes : Original(n)
  /\ step \in {"phis", "update"} => ScheduledFound /\ AskedScheduled
  /\ step = "update" => ~\E i \in DOMAIN blocks : WithLive(i)
  /\ step = "undefined" => MappedNowhere \/ ~PhiSourcesMapped
  /\ step \in {"cleanup", "run"} => (OneSource => ~MappedNowhere)

\* A checkpointed block has no PHI nodes: they were split off.
LEMMA NoPhisLabelled ==
  ASSUME SetsInv, phase = "done", NEW c \in checkpointBlocks
  PROVE  NoPhiIn(code[c])
  <1>1. c \in Nodes /\ code[c] \in Seq(NodeInstruction) /\ PhisFirst(code[c]) /\ ~HasPhis(c)
    BY DEF SetsInv, LiveInv, Named, Coded, Unsplit
  <1>2. ASSUME NEW i \in DOMAIN code[c], code[c][i].isPhi PROVE FALSE
    <2>1. i \in 1 .. Len(code[c]) /\ Len(code[c]) \in Nat
      BY <1>1
    <2>2. 1 \in DOMAIN code[c] /\ code[c] # << >> /\ Head(code[c]) = code[c][1]
      BY <1>1, <2>1
    <2>3. 1 = i \/ 1 < i
      BY <2>1
    <2>4. code[c][1].isPhi
      BY <1>1, <1>2, <2>2, <2>3 DEF PhisFirst
    <2> QED BY <1>1, <2>2, <2>4 DEF HasPhis
  <1> QED BY <1>2 DEF NoPhiIn

\* A set, once it is finite, has its elements in its sequence.
LEMMA SetToSeqIs ==
  ASSUME NEW S, IsFiniteSet(S)
  PROVE  /\ SetToSeq(S) \in Seq(S)
         /\ \A x \in S : \E j \in DOMAIN SetToSeq(S) : SetToSeq(S)[j] = x
  <1> DEFINE k == Cardinality(S)
  <1>1. k \in Nat /\ ExistsBijection(1 .. k, S)
    BY FS_CardinalityType
  <1> HIDE DEF k
  <1>2. \E f \in [1 .. k -> S] : IsInjective(f)
    BY <1>1 DEF ExistsBijection, Bijection, Injection, IsInjective
  <1>3. SetToSeq(S) \in [1 .. k -> S] /\ IsInjective(SetToSeq(S))
    BY <1>2 DEF SetToSeq, k
  <1>4. SetToSeq(S) \in Injection(1 .. k, S)
    BY <1>3 DEF Injection, IsInjective
  <1>5. Cardinality(1 .. k) = k /\ IsFiniteSet(1 .. k)
    BY <1>1, FS_Interval
  <1>6. SetToSeq(S) \in Surjection(1 .. k, S)
    BY <1>4, <1>5, FS_Injection DEF k
  <1>7. \A x \in S : \E j \in 1 .. k : SetToSeq(S)[j] = x
    BY <1>6 DEF Surjection
  <1> QED BY <1>1, <1>3, <1>7

\* Names that are added are not those of values.
LEMMA VersionsNew ==
  ASSUME PassInv, step \notin {"analysis", "unchanged"}, NEW n \in Phied, NEW v \in Values
  PROVE  Version(v, n) \notin Values \cup {Constant}
  <1>1. LiveInv /\ Coded /\ Range(labels) \subseteq checkpointBlocks
    BY LabelsTyped DEF PassInv, SetsInv
  <1>2. Nodes \subseteq Blocks \X {"", ".no_phis"} /\ checkpointBlocks \subseteq Nodes
    BY <1>1 DEF Coded, BlockSuffixes, LiveInv, Named
  <1>3. CASE n \in Nodes
    <2>1. n \in Blocks \X {"", ".no_phis", ".checkpoint"}
      BY <1>2, <1>3
    <2> QED BY <2>1, VersionAssumption
  <1>4. CASE n \notin Nodes
    <2>1. PICK c \in checkpointBlocks : n = Checkpoint(c)
      BY <1>1, <1>4 DEF Phied
    <2>2. n \in Blocks \X {"", ".no_phis", ".checkpoint"}
      BY <1>2, <2>1 DEF Checkpoint
    <2> QED BY <2>2, VersionAssumption
  <1> QED BY <1>3, <1>4

\* Two PHI nodes of a block with one result have the same places.
LEMMA SamePlaces ==
  ASSUME PassInv, Verified, step \notin {"analysis", "unchanged"}, NEW n \in Phied,
         NEW phi, NEW psi, IsOld(phi, n) \/ IsNew(phi, n), IsOld(psi, n) \/ IsNew(psi, n),
         phi.result = psi.result
  PROVE  /\ DOMAIN phi.incoming = DOMAIN psi.incoming
         /\ \A j \in DOMAIN phi.incoming : phi.incoming[j][2] = psi.incoming[j][2]
  <1>1. \A x : IsOld(x, n) => x.result \in Values \cup {Constant}
    <2> SUFFICES ASSUME NEW x, IsOld(x, n) PROVE x.result \in Values \cup {Constant}
      OBVIOUS
    <2>1. code[n] \in Seq(NodeInstruction)
      BY DEF PassInv, SetsInv, Coded, IsOld
    <2>2. PICK i \in DOMAIN code[n] : x.result = code[n][i].result
      BY DEF IsOld
    <2>3. code[n][i] \in NodeInstruction
      BY <2>1
    <2> QED BY <2>2, <2>3 DEF NodeInstruction, InstructionFrom
  <1>2. \A x : IsNew(x, n) => x.result \notin Values \cup {Constant}
    BY VersionsNew DEF IsNew
  <1>3. CASE IsOld(phi, n) /\ IsOld(psi, n)
    <2>1. PICK i \in DOMAIN code[n] :
            /\ code[n][i].isPhi /\ phi.result = code[n][i].result
            /\ DOMAIN phi.incoming = DOMAIN code[n][i].incoming
            /\ \A j \in DOMAIN phi.incoming :
                 phi.incoming[j][2] = SourceOf(code[n][i].incoming[j][2])
      BY <1>3 DEF IsOld
    <2>2. PICK k \in DOMAIN code[n] :
            /\ code[n][k].isPhi /\ psi.result = code[n][k].result
            /\ DOMAIN psi.incoming = DOMAIN code[n][k].incoming
            /\ \A j \in DOMAIN psi.incoming :
                 psi.incoming[j][2] = SourceOf(code[n][k].incoming[j][2])
      BY <1>3 DEF IsOld
    <2>3. n \in Nodes
      BY <1>3 DEF IsOld
    <2>4. i = k
      BY <2>1, <2>2, <2>3 DEF Verified
    <2> QED BY <2>1, <2>2, <2>4
  <1>4. CASE IsNew(phi, n) /\ IsNew(psi, n)
    BY <1>4 DEF IsNew
  <1> QED BY <1>1, <1>2, <1>3, <1>4

\* With what a value is replaced by, an instruction keeps its result and its places.
LEMMA ReplacedIs ==
  ASSUME NEW inst, DOMAIN inst = Fields, NEW new
  PROVE  LET to(w) == IF w \in DOMAIN new THEN new[w] ELSE w
             made  == Replaced(inst, new)
         IN  /\ DOMAIN made = Fields
             /\ made.result = inst.result /\ made.isPhi = inst.isPhi
             /\ DOMAIN made.incoming = DOMAIN inst.incoming
             /\ \A j \in DOMAIN inst.incoming :
                  /\ made.incoming[j][1] = to(inst.incoming[j][1])
                  /\ made.incoming[j][2] = inst.incoming[j][2]
                  /\ made.incoming[j] = <<to(inst.incoming[j][1]), inst.incoming[j][2]>>
  BY DEF Replaced, Fields

\* A use of a live set is one of its value, in the block or on an edge into it.
LEMMA FoundOnEdge ==
  ASSUME PassInv, PlacesInv, step \in {"phis", "update"},
         NEW m, NEW s \in Nodes, EdgeFrom(m, s), NEW u \in live[s], u.from = Anywhere
  PROVE  Found(u.value, m)
  <1>1. SetsInv /\ LiveInv /\ phase = "done" /\ Wired
    BY DEF PassInv, SetsInv, SlotsInv, PlacesInv
  <1>2. \A n \in Nodes : s \in succ[n] => u.value \in DOMAIN liveValuesMap[n]
    BY <1>1, LiveInvMaps DEF LiveMapped
  <1>3. CASE m \in Nodes \ {Entry} /\ s \in succ[m]
    BY <1>1, <1>2, <1>3 DEF Wired, Found
  <1>4. CASE m = NoCREntry /\ s \in succ[Entry]
    <2>1. u \in in[s] /\ u.value \in Values /\ DOMAIN in = Nodes
      BY <1>1, LiveTyped DEF LiveInv, SolvedSoFar, SetsInv, Recorded
    <2>2. u = Use(u.value, Anywhere)
      <3>1. u \in NodeUse
        BY <1>1, <2>1 DEF SetsInv, Recorded, NodeUses
      <3> QED BY <3>1 DEF NodeUse, Use
    <2>3. s \in LiveAt(u.value)
      BY <1>1, <2>1, <2>2, SetsInvNothingDead DEF NothingDead, Is
    <2>4. CASE u.value \in EntryResults
      BY <1>1, <1>4, <2>4 DEF Wired, Found
    <2>5. CASE u.value \notin EntryResults
      BY <1>4, <2>1, <2>3, <2>5 DEF EntryResults, Found, MappedNowhere, NeededAfterEntry
    <2> QED BY <2>4, <2>5
  <1> QED BY <1>3, <1>4 DEF EdgeFrom

\* So is what a PHI node takes.
LEMMA FoundFor ==
  ASSUME PassInv, PlacesInv, step \in {"phis", "update"},
         NEW b \in Nodes, NEW s \in Nodes, NEW v \in Values, TakenFrom(b, s, v)
  PROVE  Found(v, SourceOf(b))
  <1>1. SetsInv /\ LiveInv /\ phase = "done" /\ Wired /\ Verified /\ program \in Programs
    BY DEF PassInv, SetsInv, SlotsInv, PlacesInv, Coded
  <1>2. PICK i \in DOMAIN code[s] :
          code[s][i].isPhi /\ \E j \in DOMAIN code[s][i].incoming : code[s][i].incoming[j] = <<v, b>>
    BY DEF TakenFrom, Range
  <1>3. s \in succ[b]
    BY <1>1, <1>2 DEF Verified
  <1>4. CASE b = Entry
    <2>1. NeededAfterEntry(v) /\ SourceOf(b) = NoCREntry
      BY <1>3, <1>4 DEF NeededAfterEntry, SourceOf
    <2>2. CASE v \in EntryResults
      BY <1>1, <2>1, <2>2 DEF Wired, Found
    <2>3. CASE v \notin EntryResults
      BY <2>1, <2>3 DEF EntryResults, Found, MappedNowhere
    <2> QED BY <2>2, <2>3
  <1>5. CASE b # Entry
    <2>1. v # Constant /\ v \in Mentioned(v)
      BY <1>1, MentionedTyped, ValuesAssumption
    <2>2. NeededOnEdge(b, s, v)
      BY <1>2, <2>1 DEF NeededOnEdge
    <2> QED BY <1>1, <1>3, <1>5, <2>2 DEF PhiSourcesMapped, Found, SourceOf, Wired
  <1> QED BY <1>4, <1>5

\* What is known of the PHI nodes after a step, in terms of the blocks before it.
LEMMA PhisKnownFrom ==
  ASSUME UNCHANGED <<order, succ, code, labels>>,
         \A n \in Phied :
           /\ insts'[n] \in Seq(Range(insts'[n]))
           /\ \A i \in DOMAIN insts'[n] :
                /\ DOMAIN insts'[n][i] = Fields
                /\ insts'[n][i].isPhi => \/ IsOld(insts'[n][i], n)
                                         \/ flow' = flow /\ IsNew(insts'[n][i], n)
  PROVE  PhisKnown'
  <1>1. Nodes' = Nodes /\ Entry' = Entry /\ NoCREntry' = NoCREntry
    BY DEF Nodes, Entry, NoCREntry
  <1>2. Phied' = Phied
    BY <1>1 DEF Phied
  <1>3. \A m : SourceOf(m)' = SourceOf(m)
    BY <1>1 DEF SourceOf
  <1>4. \A x, n : IsOld(x, n)' <=> IsOld(x, n)
    BY <1>1, <1>3 DEF IsOld
  <1>5. flow' = flow => \A x, n : IsNew(x, n)' <=> IsNew(x, n)
    <2> SUFFICES ASSUME flow' = flow, NEW x, NEW n PROVE IsNew(x, n)' <=> IsNew(x, n)
      OBVIOUS
    <2>1. Preds(n)' = Preds(n)
      BY DEF Preds
    <2> QED BY <2>1 DEF IsNew
  <1>6. \A x, n : /\ DOMAIN x = Fields
                  /\ x.isPhi => IsOld(x, n) \/ (flow' = flow /\ IsNew(x, n))
                  => IsKnown(x, n)'
    BY <1>4, <1>5 DEF IsKnown
  <1>7. \A n \in Phied : \A x \in Range(insts'[n]) : IsKnown(x, n)'
    <2> SUFFICES ASSUME NEW n \in Phied, NEW i \in DOMAIN insts'[n], NEW x, x = insts'[n][i]
                 PROVE  IsKnown(x, n)'
      BY DEF Range
    <2>1. DOMAIN x = Fields /\ (x.isPhi => IsOld(x, n) \/ (flow' = flow /\ IsNew(x, n)))
      OBVIOUS
    <2> QED BY <1>6, <2>1
  <1>8. \A n \in Phied : Range(insts[n])' = Range(insts'[n])
    BY DEF Range
  <1> QED BY <1>2, <1>7, <1>8 DEF PhisKnown

\* The blocks' PHI nodes, once the entry block's code has moved.
LEMMA EntryNames ==
  ASSUME NamesInv, PlacesInv, PassInv, TypesInv, InsertRestartBlock
  PROVE  NamesInv'
  <1>1. /\ step = "blocks" /\ step' = "fill" /\ UNCHANGED <<analysis, labels, scheduled>>
        /\ Built /\ LabelsMapped /\ Verified /\ scheduled = {} /\ phase = "done" /\ SetsInv
        /\ insts' = [m \in DOMAIN insts \cup {NoCREntry} |->
                       IF m = Entry THEN << >>
                       ELSE IF m = NoCREntry THEN insts[Entry]
                       ELSE IF m \in flow[Entry] THEN Renamed(insts[m], Entry, NoCREntry)
                       ELSE insts[m]]
    BY DEF InsertRestartBlock, PlacesInv, NamesInv, plan, fixing, PassInv, SlotsInv
  <1>2. UNCHANGED <<order, succ, code, labels>> /\ Nodes' = Nodes /\ Entry' = Entry
    BY <1>1, SameAnalysis DEF vars, function, Entry
  <1>3. /\ Nodes \subseteq DOMAIN insts /\ \A c \in Range(labels) : Checkpoint(c) \in DOMAIN insts
        /\ LiveInv /\ Labelled /\ Range(labels) \subseteq checkpointBlocks
    <2>1. Nodes \subseteq DOMAIN insts /\ DOMAIN insts = Range(blocks)
      BY <1>1 DEF TypesInv, Shaped
    <2> QED BY <1>1, <2>1, LabelsTyped DEF LabelsMapped, PassInv, SetsInv
  <1>4. /\ NoCREntry \notin Nodes
        /\ \A n : NoCREntry # Checkpoint(n) /\ Checkpoint(n) \notin Nodes
    BY <1>3, AddedBlocks
  <1>5. Entry \in Nodes
    <2>1. order \in Seq(Nodes) /\ order # << >>
      BY <1>3 DEF LiveInv, Flow
    <2> QED BY <2>1 DEF Entry
  <1>6. \A n \in Nodes : code[n] \in Seq(InstructionFrom(Nodes)) /\ insts[n] = code[n]
    BY <1>1 DEF SetsInv, Coded, NodeInstruction, Built
  <1>7. \A N : \A x \in InstructionFrom(N) : DOMAIN x = Fields
    BY DEF InstructionFrom, Fields
  <1>8. ASSUME NEW n \in Nodes \ {Entry}
        PROVE  /\ insts'[n] \in Seq(Range(insts'[n])) /\ DOMAIN insts'[n] = DOMAIN code[n]
               /\ \A i \in DOMAIN code[n] :
                    /\ DOMAIN insts'[n][i] = Fields
                    /\ insts'[n][i].isPhi = code[n][i].isPhi
                    /\ insts'[n][i].result = code[n][i].result
                    /\ DOMAIN insts'[n][i].incoming = DOMAIN code[n][i].incoming
                    /\ \A j \in DOMAIN code[n][i].incoming :
                         /\ insts'[n][i].incoming[j][1] = code[n][i].incoming[j][1]
                         /\ code[n][i].isPhi =>
                              insts'[n][i].incoming[j][2] = SourceOf(code[n][i].incoming[j][2])
    <2> DEFINE c == code[n]
               d == insts'[n]
    <2>1. c \in Seq(InstructionFrom(Nodes))
      BY <1>6
    <2>2. CASE n \in flow[Entry]
      <3>1. c \in Seq(InstructionFrom(Nodes)) /\ d = Renamed(c, Entry, NoCREntry)
        BY <1>1, <1>3, <1>4, <1>6, <2>2
      <3> HIDE DEF c, d
      <3>2. /\ d \in Seq(InstructionFrom(Nodes \cup {NoCREntry})) /\ DOMAIN d = DOMAIN c
            /\ \A i \in DOMAIN c :
                 /\ d[i].isPhi = c[i].isPhi
                 /\ DOMAIN d[i].incoming = DOMAIN c[i].incoming
                 /\ \A j \in DOMAIN c[i].incoming :
                      /\ d[i].incoming[j][1] = c[i].incoming[j][1]
                      /\ d[i].incoming[j][2]
                           = RenamedSource(c[i].incoming[j][2], Entry, NoCREntry)
        BY <3>1, RenamedIs, SMTT(30)
      <3>3. \A i \in DOMAIN c : d[i].result = c[i].result
        BY <3>1, RenamedResult, SMTT(30)
      <3>4. \A i \in DOMAIN d : DOMAIN d[i] = Fields
        <4> TAKE i \in DOMAIN d
        <4>1. d[i] \in InstructionFrom(Nodes \cup {NoCREntry})
          BY <3>2
        <4> QED BY <4>1, <1>7
      <3>5. \A m : RenamedSource(m, Entry, NoCREntry) = SourceOf(m)
        BY DEF RenamedSource, SourceOf
      <3>6. d \in Seq(Range(d))
        BY <3>2 DEF Range
      <3> QED BY <3>2, <3>3, <3>4, <3>5, <3>6 DEF c, d
    <2>3. CASE n \notin flow[Entry]
      <3>1. d = c
        BY <1>1, <1>3, <1>4, <1>6, <2>3
      <3>2. n \in succ[Entry] => NoPhiIn(c)
        BY <1>1, <1>3, <1>5, <2>3, NoPhisLabelled DEF Built
      <3>3. \A i \in DOMAIN c : c[i].isPhi =>
              \A j \in DOMAIN c[i].incoming : SourceOf(c[i].incoming[j][2]) = c[i].incoming[j][2]
        BY <1>1, <3>2 DEF Verified, NoPhiIn, SourceOf
      <3>4. \A i \in DOMAIN c : DOMAIN c[i] = Fields
        <4> TAKE i \in DOMAIN c
        <4>1. c[i] \in InstructionFrom(Nodes)
          BY <2>1
        <4> QED BY <4>1, <1>7
      <3>5. c \in Seq(Range(c))
        BY <2>1 DEF Range
      <3> HIDE DEF c, d
      <3>6. d \in Seq(Range(d))
        BY <3>1, <3>5
      <3> QED BY <3>1, <3>3, <3>4, <3>6 DEF c, d
    <2> QED BY <2>2, <2>3
  <1>9. ASSUME NEW n \in Phied \ Nodes PROVE insts'[n] = << >>
    <2>1. PICK c \in Range(labels) : n = Checkpoint(c)
      BY <1>9 DEF Phied
    <2>2. insts[n] = << >> /\ n \in DOMAIN insts /\ n # NoCREntry /\ n # Entry
      BY <1>1, <1>3, <1>4, <1>5, <2>1 DEF Built
    <2>3. Renamed(<< >>, Entry, NoCREntry) = << >>
      BY DEF Renamed
    <2> QED BY <1>1, <2>2, <2>3
  <1>10. insts'[Entry] = << >>
    BY <1>1, <1>3, <1>5
  <1>11. PhisKnown'
    <2>1. ASSUME NEW n \in Phied
          PROVE  /\ insts'[n] \in Seq(Range(insts'[n]))
                 /\ \A i \in DOMAIN insts'[n] :
                      /\ DOMAIN insts'[n][i] = Fields
                      /\ insts'[n][i].isPhi => \/ IsOld(insts'[n][i], n)
                                               \/ flow' = flow /\ IsNew(insts'[n][i], n)
      <3>1. CASE n \in Nodes \ {Entry}
        BY <1>8, <3>1 DEF IsOld
      <3>2. CASE n \notin Nodes \ {Entry}
        <4>1. insts'[n] = << >>
          BY <1>9, <1>10, <2>1, <3>2
        <4> QED BY <4>1
      <3> QED BY <3>1, <3>2
    <2> QED BY <1>2, <2>1, PhisKnownFrom
  <1>12. \A n \in Nodes : Original(n)'
    <2>1. \A n \in Nodes \ {Entry} : \A i \in DOMAIN code[n] :
            \E phi \in Range(insts'[n]) :
              /\ phi.isPhi = code[n][i].isPhi /\ phi.result = code[n][i].result
              /\ DOMAIN phi.incoming = DOMAIN code[n][i].incoming
              /\ \A j \in DOMAIN code[n][i].incoming :
                   phi.incoming[j][1] = code[n][i].incoming[j][1]
      <3> TAKE n \in Nodes \ {Entry}
      <3> TAKE i \in DOMAIN code[n]
      <3>1. insts'[n][i] \in Range(insts'[n])
        BY <1>8 DEF Range
      <3> QED BY <1>8, <3>1
    <2>2. \A n : Range(insts[n])' = Range(insts'[n])
      BY DEF Range
    <2> QED BY <1>2, <2>1, <2>2 DEF Original
  <1> QED BY <1>1, <1>2, <1>11, <1>12 DEF NamesInv

\* The filling adds no PHI node, and nothing to the blocks there were.
LEMMA FillNames ==
  ASSUME NamesInv, PlacesInv, PassInv, TypesInv,
         FillNextBlock \/ RestoreScalar \/ RestoreSizesAndAliases \/ RestorePointer
  PROVE  NamesInv'
  <1>1. /\ step = "fill" /\ step' = "fill" /\ UNCHANGED <<analysis, flow, scheduled, labels>>
        /\ \/ insts' = insts
           \/ work # << >> /\ ~HasSlot(Head(work)[2]) /\ AddSlot(Head(work)[2])
    BY DEF FillNextBlock, RestoreScalar, RestoreSizesAndAliases, RestorePointer,
           transformed, fixing, AddSlotOnce
  <1>2. UNCHANGED <<order, succ, code, labels>> /\ Nodes' = Nodes /\ Entry' = Entry
    BY <1>1, SameAnalysis DEF vars, function, Entry
  <1>3. /\ scheduled = {} /\ PhisKnown /\ LiveInv /\ LabelsMapped
        /\ \A n \in Nodes : Original(n)
        /\ Phied \subseteq DOMAIN insts
    <2>1. DOMAIN insts = Range(blocks) /\ Nodes \subseteq Range(blocks)
      BY <1>1 DEF TypesInv, Shaped
    <2> QED BY <1>1, <2>1 DEF NamesInv, PassInv, SetsInv, PlacesInv, LabelsMapped, Phied
  <1>4. \A n \in Phied :
          \/ insts'[n] = insts[n]
          \/ n \notin Nodes /\ \E x : /\ insts'[n] = Append(insts[n], x)
                                      /\ DOMAIN x = Fields /\ ~x.isPhi
    <2>1. CASE insts' = insts
      BY <2>1
    <2>2. CASE AddSlot(Head(work)[2])
      <3> DEFINE v == Head(work)[2]
                 c == Checkpoint(Filled)
                 r == Restart(Filled)
                 x == Instruction(Constant, FALSE, << >>, Given(v))
      <3>1. r \notin Phied /\ c \notin Nodes
        BY <1>3, AddedBlocks DEF Phied
      <3>2. insts' = [insts EXCEPT ![c] = Append(@, x),
                                   ![r] = Append(@, Instruction(Version(v, r), FALSE, << >>,
                                                      {Version(w, r) : w \in SizesOf(v)}))]
        BY <2>2 DEF AddSlot
      <3>3. DOMAIN x = Fields /\ ~x.isPhi
        BY DEF Instruction, Fields
      <3> HIDE DEF v, c, r, x
      <3>4. ASSUME NEW n \in Phied
            PROVE  insts'[n] = insts[n] \/ (n = c /\ insts'[n] = Append(insts[n], x))
        BY <1>3, <3>1, <3>2
      <3> QED BY <3>1, <3>3, <3>4
    <2> QED BY <1>1, <2>1, <2>2
  <1>5. ASSUME NEW n \in Phied
        PROVE  /\ insts'[n] \in Seq(Range(insts'[n]))
               /\ \A i \in DOMAIN insts'[n] :
                    /\ DOMAIN insts'[n][i] = Fields
                    /\ insts'[n][i].isPhi => \/ IsOld(insts'[n][i], n)
                                             \/ flow' = flow /\ IsNew(insts'[n][i], n)
    <2>1. /\ insts[n] \in Seq(Range(insts[n])) /\ \A x \in Range(insts[n]) : IsKnown(x, n)
      BY <1>3 DEF PhisKnown
    <2>2. CASE insts'[n] = insts[n]
      <3>1. \A i \in DOMAIN insts'[n] : insts'[n][i] \in Range(insts[n])
        BY <2>2 DEF Range
      <3> QED BY <1>1, <2>1, <2>2, <3>1 DEF IsKnown
    <2>3. ASSUME NEW x, insts'[n] = Append(insts[n], x), DOMAIN x = Fields, ~x.isPhi
          PROVE  /\ insts'[n] \in Seq(Range(insts'[n]))
                 /\ \A i \in DOMAIN insts'[n] :
                      insts'[n][i] = x \/ insts'[n][i] \in Range(insts[n])
      <3> DEFINE s == insts[n]
                 t == insts'[n]
                 R == Range(insts[n])
      <3>1. s \in Seq(R) /\ t = Append(s, x) /\ \A i \in DOMAIN s : s[i] \in R
        BY <2>1, <2>3 DEF Range
      <3> HIDE DEF s, t, R
      <3>2. Range(t) = Range(s) \cup {x} /\ t \in Seq(R \cup {x})
        BY <3>1, RangeAppend
      <3>3. \A i \in DOMAIN t : t[i] = x \/ t[i] \in R
        BY <3>2
      <3>4. t \in Seq(Range(t))
        BY <3>2 DEF Range
      <3> QED BY <3>3, <3>4 DEF s, t, R
    <2>4. CASE insts'[n] # insts[n]
      <3>1. PICK x : insts'[n] = Append(insts[n], x) /\ DOMAIN x = Fields /\ ~x.isPhi
        BY <1>4, <2>4
      <3>2. /\ insts'[n] \in Seq(Range(insts'[n]))
            /\ \A i \in DOMAIN insts'[n] :
                 insts'[n][i] = x \/ insts'[n][i] \in Range(insts[n])
        BY <2>3, <3>1
      <3> QED BY <1>1, <2>1, <3>1, <3>2 DEF IsKnown
    <2> QED BY <2>2, <2>4
  <1>6. PhisKnown'
    BY <1>2, <1>5, PhisKnownFrom
  <1>7. \A n \in Nodes : Original(n)'
    <2> SUFFICES ASSUME NEW n \in Nodes PROVE Original(n)'
      OBVIOUS
    <2>1. insts'[n] = insts[n] /\ Original(n)
      BY <1>3, <1>4 DEF Phied
    <2> QED BY <1>2, <2>1 DEF Original, Range
  <1> QED BY <1>1, <1>2, <1>3, <1>6, <1>7 DEF NamesInv

\* All of them, to be gone through from the first block.
LEMMA FilledNames ==
  ASSUME NamesInv, PlacesInv, PassInv, TypesInv, AllFilled
  PROVE  NamesInv'
  <1>1. /\ step = "fill" /\ step' = "phis" /\ cursor' = 1 /\ scheduled = {}
        /\ UNCHANGED <<analysis, blocks, flow, insts, liveValues, mapping, labels, scheduled>>
    BY DEF AllFilled, NamesInv, transformed, plan
  <1>2. UNCHANGED <<order, succ, code, labels>> /\ Nodes' = Nodes /\ Entry' = Entry
    BY <1>1, SameAnalysis DEF vars, function, Entry
  <1>3. /\ PhisKnown /\ \A n \in Nodes : Original(n)
        /\ blocks \in Seq(AllBlocks) /\ Phied \subseteq Range(blocks)
    <2>1. Nodes \subseteq Range(blocks) /\ blocks \in Seq(AllBlocks)
      BY <1>1 DEF TypesInv, Shaped
    <2> QED BY <1>1, <2>1 DEF NamesInv, PlacesInv, LabelsMapped, Phied
  <1>4. Phied' = Phied
    BY <1>2 DEF Phied, Checkpoint
  <1>5. PhisKnown'
    <2>1. ASSUME NEW n \in Phied
          PROVE  /\ insts'[n] \in Seq(Range(insts'[n]))
                 /\ \A i \in DOMAIN insts'[n] :
                      /\ DOMAIN insts'[n][i] = Fields
                      /\ insts'[n][i].isPhi => \/ IsOld(insts'[n][i], n)
                                               \/ flow' = flow /\ IsNew(insts'[n][i], n)
      BY <1>1, <1>3 DEF PhisKnown, IsKnown, Range
    <2> QED BY <1>2, <2>1, PhisKnownFrom
  <1>6. ScheduledFound'
    BY <1>1 DEF ScheduledFound
  <1>7. ASSUME NEW n \in Phied PROVE ToCome(n)' /\ Original(n)'
    <2>1. PICK k \in DOMAIN blocks : blocks[k] = n
      BY <1>3 DEF Range
    <2>2. k >= 1
      BY <1>3
    <2>3. ToCome(n)'
      BY <1>1, <2>1, <2>2 DEF ToCome
    <2>4. Original(n)
      BY <1>3 DEF Original
    <2> QED BY <1>1, <1>2, <2>3, <2>4 DEF Original, Range
  <1>8. AskedScheduled'
    BY <1>4, <1>7 DEF AskedScheduled
  <1> QED BY <1>1, <1>5, <1>6, <1>8 DEF NamesInv

\* A PHI node for a value takes a constant from every predecessor, so far.
LEMMA NewPhiIs ==
  ASSUME NEW n, NEW v \in Values
  PROVE  /\ DOMAIN NewPhi(v, n) = Fields /\ NewPhi(v, n).isPhi
         /\ NewPhi(v, n).result = Version(v, n)
         /\ DOMAIN NewPhi(v, n).incoming = DOMAIN SetToSeq(Preds(n))
         /\ \A j \in DOMAIN SetToSeq(Preds(n)) :
              NewPhi(v, n).incoming[j] = <<Constant, SetToSeq(Preds(n))[j]>>
         /\ IsNew(NewPhi(v, n), n)
  <1>1. /\ DOMAIN NewPhi(v, n) = Fields /\ NewPhi(v, n).isPhi
        /\ NewPhi(v, n).result = Version(v, n)
        /\ NewPhi(v, n).incoming = [j \in DOMAIN SetToSeq(Preds(n)) |->
                                      <<Constant, SetToSeq(Preds(n))[j]>>]
    BY DEF NewPhi, Instruction, Fields
  <1> QED BY <1>1 DEF IsNew

\* What step 1 does to the first block left that has live values: a PHI node for each
\* value live at its start comes before what it had, which then uses them.
FixedAt(i, n) ==
  /\ WithLive(i) /\ \A j \in DOMAIN blocks : WithLive(j) => i <= j
  /\ n = blocks[i] /\ n \in Phied /\ cursor' = i + 1
  /\ LiveIn(n) \cup PhisTake(n) \subseteq Values
  /\ scheduled' = scheduled \cup PhisToUpdate(n)
  /\ \A m \in Phied \ {n} : insts'[m] = insts[m]
  /\ insts'[n] \in Seq(Range(insts'[n]))
  /\ Range(insts'[n]) = {NewPhi(v, n) : v \in LiveIn(n)}
                          \cup {Replaced(inst, NewNames(n)) : inst \in Range(insts[n])}
  /\ \A m \in Range(blocks) : DOMAIN mapping[m] \subseteq DOMAIN mapping'[m]

\* Step 1 does it to some block.
LEMMA CreatePhisIs ==
  ASSUME NamesInv, PlacesInv, PassInv, TypesInv, CreatePhis
  PROVE  \E i \in DOMAIN blocks : \E n : FixedAt(i, n)
  <1>1. PICK i \in DOMAIN blocks :
          /\ WithLive(i) /\ \A j \in DOMAIN blocks : WithLive(j) => i <= j
          /\ insts' = [insts EXCEPT ![blocks[i]] =
                         AddedPhis(blocks[i]) \o ReplacedIn(@, NewNames(blocks[i]))]
          /\ mapping' = [mapping EXCEPT ![blocks[i]] = Insert(NewNames(blocks[i]), @)]
          /\ scheduled' = scheduled \cup PhisToUpdate(blocks[i])
          /\ cursor' = i + 1
    BY DEF CreatePhis
  <1> DEFINE n == blocks[i]
  <1>2. /\ step = "phis" /\ PhisKnown /\ Wired /\ LabelsMapped /\ Labelled
        /\ program \in Programs /\ LiveInv
    BY LabelsTyped DEF CreatePhis, NamesInv, PlacesInv, PassInv, SetsInv, Coded
  <1>3. /\ DOMAIN insts = Range(blocks) /\ DOMAIN mapping = Range(blocks)
        /\ n \in Range(blocks) /\ Range(blocks) \subseteq AllBlocks
        /\ {u.value : u \in liveValues[n]} \subseteq Values /\ Nodes \subseteq Range(blocks)
    BY <1>2 DEF TypesInv, Shaped, Range
  <1>4. n \in Phied
    BY <1>1, <1>2, <1>3 DEF AllBlocks, Phied, WithLive, Wired, Labelled
  <1>5. LiveIn(n) \cup PhisTake(n) \subseteq Values
    BY <1>3 DEF LiveIn, PhisTake
  <1>6. \A m \in Range(blocks) : DOMAIN mapping[m] \subseteq DOMAIN mapping'[m]
    BY <1>1, <1>3 DEF Insert
  <1>7. Phied \subseteq Range(blocks)
    BY <1>2, <1>3 DEF Phied, LabelsMapped
  <1>8. \A m \in Phied \ {n} : insts'[m] = insts[m]
    BY <1>1, <1>3, <1>7
  <1> DEFINE a == AddedPhis(n)
             b == ReplacedIn(insts[n], NewNames(n))
             A == {NewPhi(v, n) : v \in LiveIn(n)}
             B == {Replaced(inst, NewNames(n)) : inst \in Range(insts[n])}
  <1>9. insts'[n] = a \o b
    BY <1>1, <1>3
  <1>10. a \in Seq(A) /\ \A x \in A : \E k \in DOMAIN a : a[k] = x
    <2> DEFINE seq == InAddressOrder(LiveIn(n))
    <2>1. /\ seq \in Seq(Values \cap LiveIn(n))
          /\ \A v \in Values \cap LiveIn(n) : \E k \in DOMAIN seq : seq[k] = v
      BY <1>2, InAddressOrderIs
    <2>2. a = [k \in DOMAIN seq |-> NewPhi(seq[k], n)]
      BY DEF AddedPhis
    <2> HIDE DEF seq, n
    <2>3. DOMAIN seq = 1 .. Len(seq) /\ Len(seq) \in Nat
      BY <2>1
    <2>4. \A k \in DOMAIN seq : seq[k] \in LiveIn(n)
      BY <2>1
    <2>5. a \in [1 .. Len(seq) -> A]
      BY <2>2, <2>3, <2>4
    <2>6. a \in Seq(A)
      BY <2>3, <2>5
    <2>7. \A v \in LiveIn(n) : \E k \in DOMAIN a : a[k] = NewPhi(v, n)
      BY <1>5, <2>1, <2>2
    <2> QED BY <2>6, <2>7
  <1>11. b \in Seq(B) /\ \A x \in B : \E k \in DOMAIN b : b[k] = x
    <2> DEFINE c == insts[n]
    <2>1. c \in Seq(Range(c))
      BY <1>2, <1>4 DEF PhisKnown
    <2>2. b = [k \in DOMAIN c |-> Replaced(c[k], NewNames(n))]
      BY DEF ReplacedIn
    <2>3. \A k \in DOMAIN c : c[k] \in Range(c)
      BY DEF Range
    <2>4. \A x \in Range(c) : \E k \in DOMAIN c : c[k] = x
      BY DEF Range
    <2> HIDE DEF c, n
    <2>5. DOMAIN c = 1 .. Len(c) /\ Len(c) \in Nat
      BY <2>1
    <2>6. B = {Replaced(inst, NewNames(n)) : inst \in Range(c)}
      BY DEF c
    <2>7. b \in [1 .. Len(c) -> B]
      BY <2>2, <2>3, <2>5, <2>6
    <2>8. b \in Seq(B)
      BY <2>5, <2>7
    <2>9. \A x \in Range(c) : \E k \in DOMAIN b : b[k] = Replaced(x, NewNames(n))
      BY <2>2, <2>4
    <2> QED BY <2>6, <2>8, <2>9
  <1>12. (a \o b) \in Seq(A \cup B) /\ \A x \in A \cup B : \E k \in DOMAIN (a \o b) : (a \o b)[k] = x
    <2> HIDE DEF a, b, A, B
    <2>1. a \in Seq(A) /\ b \in Seq(B)
      BY <1>10, <1>11
    <2>2. (a \o b) \in Seq(A \cup B) /\ Len(a \o b) = Len(a) + Len(b)
      BY <2>1
    <2>3. \A k \in DOMAIN a : k \in DOMAIN (a \o b) /\ (a \o b)[k] = a[k]
      BY <2>1, <2>2
    <2>4. \A k \in DOMAIN b : Len(a) + k \in DOMAIN (a \o b) /\ (a \o b)[Len(a) + k] = b[k]
      BY <2>1, <2>2
    <2> QED BY <1>10, <1>11, <2>2, <2>3, <2>4
  <1>13. /\ insts'[n] \in Seq(Range(insts'[n])) /\ Range(insts'[n]) = A \cup B
    <2> DEFINE s == insts'[n]
    <2>1. s \in Seq(A \cup B) /\ \A x \in A \cup B : \E k \in DOMAIN s : s[k] = x
      BY <1>9, <1>12
    <2> HIDE DEF s, A, B
    <2>2. Range(s) = A \cup B
      BY <2>1 DEF Range
    <2> QED BY <2>1, <2>2 DEF s
  <1>14. FixedAt(i, n)
    BY <1>1, <1>4, <1>5, <1>6, <1>8, <1>13 DEF FixedAt
  <1> QED BY <1>14

\* Replacing what a PHI node takes leaves it one of main, or one added.
LEMMA ReplacedKnown ==
  ASSUME PassInv, step \notin {"analysis", "unchanged"}, NEW n \in Phied,
         LiveIn(n) \subseteq Values, NEW inst, IsKnown(inst, n)
  PROVE  IsKnown(Replaced(inst, NewNames(n)), n)
  <1> DEFINE new  == NewNames(n)
             made == Replaced(inst, new)
  <1>1. /\ DOMAIN new = LiveIn(n)
        /\ \A w \in LiveIn(n) : new[w] \notin Values
    <2>1. \A w \in LiveIn(n) : Version(w, n) \notin Values
      BY VersionsNew
    <2> QED BY <2>1 DEF NewNames
  <1>2. DOMAIN inst = Fields /\ (inst.isPhi => IsOld(inst, n) \/ IsNew(inst, n))
    BY DEF IsKnown
  <1> HIDE DEF new
  <1>3. /\ DOMAIN made = Fields
        /\ made.result = inst.result /\ made.isPhi = inst.isPhi
        /\ DOMAIN made.incoming = DOMAIN inst.incoming
        /\ \A j \in DOMAIN inst.incoming :
             /\ made.incoming[j][1] = IF inst.incoming[j][1] \in DOMAIN new
                                      THEN new[inst.incoming[j][1]] ELSE inst.incoming[j][1]
             /\ made.incoming[j][2] = inst.incoming[j][2]
             /\ made.incoming[j] = <<IF inst.incoming[j][1] \in DOMAIN new
                                     THEN new[inst.incoming[j][1]] ELSE inst.incoming[j][1],
                                     inst.incoming[j][2]>>
    BY <1>2, ReplacedIs
  <1> HIDE DEF made
  <1>4. IsOld(inst, n) => IsOld(made, n)
    BY <1>1, <1>3 DEF IsOld
  <1>5. IsNew(inst, n) => IsNew(made, n)
    <2> SUFFICES ASSUME NEW v \in Values, inst.result = Version(v, n),
                        DOMAIN inst.incoming = DOMAIN SetToSeq(Preds(n)),
                        \A j \in DOMAIN inst.incoming :
                          inst.incoming[j] = <<Constant, SetToSeq(Preds(n))[j]>>
                 PROVE  IsNew(made, n)
      BY DEF IsNew
    <2>1. Constant \notin DOMAIN new
      BY <1>1, ValuesAssumption
    <2>2. \A j \in DOMAIN inst.incoming : made.incoming[j] = <<Constant, SetToSeq(Preds(n))[j]>>
      BY <1>3, <2>1
    <2> QED BY <1>3, <2>2 DEF IsNew
  <1>6. IsKnown(made, n)
    BY <1>2, <1>3, <1>4, <1>5 DEF IsKnown
  <1> QED BY <1>6 DEF made, new

\* Step 1 adds PHI nodes of the one kind, and makes none of the other different.
LEMMA CreateKnown ==
  ASSUME NamesInv, PlacesInv, PassInv, TypesInv, CreatePhis
  PROVE  PhisKnown'
  <1>1. PICK i \in DOMAIN blocks : \E n : FixedAt(i, n)
    BY CreatePhisIs
  <1>2. PICK n : FixedAt(i, n)
    BY <1>1
  <1>3. /\ step = "phis" /\ UNCHANGED <<analysis, flow, labels>> /\ PhisKnown
    BY DEF CreatePhis, NamesInv, plan
  <1>4. UNCHANGED <<order, succ, code, labels>>
    BY <1>3, SameAnalysis DEF vars, function
  <1>5. ASSUME NEW m \in Phied, NEW k \in DOMAIN insts'[m]
        PROVE  IsKnown(insts'[m][k], m)
    <2>1. CASE m # n
      <3>1. insts'[m] = insts[m]
        BY <1>2, <2>1 DEF FixedAt
      <3> QED BY <1>3, <1>5, <3>1 DEF PhisKnown, Range
    <2>2. CASE m = n
      <3>1. insts'[n][k] \in Range(insts'[n])
        BY <1>5, <2>2 DEF Range
      <3>2. CASE \E v \in LiveIn(n) : insts'[n][k] = NewPhi(v, n)
        BY <1>2, <2>2, <3>2, NewPhiIs DEF FixedAt, IsKnown
      <3>3. CASE \E x \in Range(insts[n]) : insts'[n][k] = Replaced(x, NewNames(n))
        <4>1. PICK x \in Range(insts[n]) : insts'[n][k] = Replaced(x, NewNames(n))
          BY <3>3
        <4>2. IsKnown(x, n) /\ LiveIn(n) \subseteq Values /\ n \in Phied
          BY <1>2, <1>3 DEF PhisKnown, FixedAt
        <4> QED BY <1>3, <2>2, <4>1, <4>2, ReplacedKnown
      <3> QED BY <1>2, <3>1, <3>2, <3>3 DEF FixedAt
    <2> QED BY <2>1, <2>2
  <1>6. \A m \in Phied : insts'[m] \in Seq(Range(insts'[m]))
    BY <1>2, <1>3 DEF FixedAt, PhisKnown
  <1>7. \A m \in Phied :
          /\ insts'[m] \in Seq(Range(insts'[m]))
          /\ \A k \in DOMAIN insts'[m] :
               /\ DOMAIN insts'[m][k] = Fields
               /\ insts'[m][k].isPhi => \/ IsOld(insts'[m][k], m)
                                        \/ flow' = flow /\ IsNew(insts'[m][k], m)
    BY <1>3, <1>5, <1>6 DEF IsKnown
  <1> QED BY <1>4, <1>7, PhisKnownFrom

\* A place stays one.
LEMMA PlaceKept ==
  ASSUME PhisKnown, NEW i, NEW n, FixedAt(i, n), NEW ptu, ptu.node \in Phied, NEW m,
         HasPlace(ptu, m)
  PROVE  HasPlace(ptu, m)'
  <1>1. PICK phi \in Range(insts[ptu.node]) :
          /\ phi.isPhi /\ phi.result = ptu.phi
          /\ ptu.index \in DOMAIN phi.incoming /\ phi.incoming[ptu.index][2] = m
    BY DEF HasPlace
  <1>2. DOMAIN phi = Fields
    BY <1>1 DEF PhisKnown, IsKnown
  <1>3. \E psi \in Range(insts'[ptu.node]) :
          /\ psi.isPhi /\ psi.result = ptu.phi
          /\ ptu.index \in DOMAIN psi.incoming /\ psi.incoming[ptu.index][2] = m
    <2>1. CASE ptu.node # n
      <3>1. insts'[ptu.node] = insts[ptu.node]
        BY <2>1 DEF FixedAt
      <3> QED BY <1>1, <3>1
    <2>2. CASE ptu.node = n
      <3>1. Replaced(phi, NewNames(n)) \in Range(insts'[n])
        BY <1>1, <2>2 DEF FixedAt
      <3> DEFINE new == NewNames(n)
                 psi == Replaced(phi, new)
      <3> HIDE DEF new
      <3>2. /\ psi.result = phi.result /\ psi.isPhi = phi.isPhi
            /\ DOMAIN psi.incoming = DOMAIN phi.incoming
            /\ \A j \in DOMAIN phi.incoming : psi.incoming[j][2] = phi.incoming[j][2]
        BY <1>2, ReplacedIs
      <3>3. psi \in Range(insts'[n])
        BY <3>1 DEF new
      <3> HIDE DEF psi
      <3> QED BY <1>1, <2>2, <3>2, <3>3
    <2> QED BY <2>1, <2>2
  <1>4. Range(insts[ptu.node])' = Range(insts'[ptu.node])
    BY DEF Range
  <1> QED BY <1>3, <1>4 DEF HasPlace

\* What PhisIn walks over are the PHI nodes.
LEMMA PhisInIs ==
  ASSUME NEW R, NEW seq \in Seq(R)
  PROVE  Range(PhisIn(seq)) = {inst \in Range(seq) : inst.isPhi}
  <1> DEFINE S == {inst \in Range(seq) : inst.isPhi}
  <1>1. PhisIn(seq) = Walk(seq, S)
    BY DEF PhisIn
  <1>2. \A x \in S : \E j \in DOMAIN seq : seq[j] = x
    BY DEF Range
  <1> HIDE DEF S
  <1>3. /\ Walk(seq, S) \in Seq(R \cap S)
        /\ \A j \in DOMAIN seq : seq[j] \in S =>
             \E k \in DOMAIN Walk(seq, S) : Walk(seq, S)[k] = seq[j]
    BY WalkIs
  <1> DEFINE w == Walk(seq, S)
  <1>4. \A x \in S : \E k \in DOMAIN w : w[k] = x
    BY <1>2, <1>3
  <1> HIDE DEF w
  <1>5. \A k \in DOMAIN w : w[k] \in S
    BY <1>3 DEF w
  <1>6. Range(w) = S
    BY <1>4, <1>5 DEF Range
  <1> QED BY <1>1, <1>6 DEF S, w

\* A PHI node for a live value has a place for each predecessor, all of them scheduled.
LEMMA ToUpdateNew ==
  ASSUME NEW n, NEW v \in LiveIn(n), NEW j \in DOMAIN SetToSeq(Preds(n)),
         LiveIn(n) \subseteq Values
  PROVE  \E ptu \in PhisToUpdate(n) :
           ptu.node = n /\ ptu.phi = Version(v, n) /\ ptu.index = j /\ ptu.value = v
  <1> DEFINE ptu == [node |-> n, phi |-> NewPhi(v, n).result, index |-> j, value |-> v]
  <1>1. DOMAIN NewPhi(v, n).incoming = DOMAIN SetToSeq(Preds(n))
        /\ NewPhi(v, n).result = Version(v, n)
    BY NewPhiIs
  <1>2. ptu \in ToUpdate(n, NewPhi(v, n), v, DOMAIN NewPhi(v, n).incoming)
    BY <1>1 DEF ToUpdate
  <1>3. ptu \in PhisToUpdate(n)
    BY <1>2 DEF PhisToUpdate
  <1> QED BY <1>1, <1>3

\* What else is scheduled are the places where a PHI node takes the value.
LEMMA ToUpdateIs ==
  ASSUME NEW n, NEW ptu \in PhisToUpdate(n), LiveIn(n) \cup PhisTake(n) \subseteq Values,
         insts[n] \in Seq(Range(insts[n]))
  PROVE  /\ ptu.node = n
         /\ \/ /\ ptu.value \in LiveIn(n) /\ ptu.phi = Version(ptu.value, n)
               /\ ptu.index \in DOMAIN SetToSeq(Preds(n))
            \/ /\ ptu.value \in PhisTake(n)
               /\ \E phi \in Range(insts[n]) :
                    /\ phi.isPhi /\ phi.result = ptu.phi
                    /\ ptu.index \in DOMAIN phi.incoming
                    /\ phi.incoming[ptu.index][1] = ptu.value
  <1>1. \/ \E v \in LiveIn(n) :
             ptu \in ToUpdate(n, NewPhi(v, n), v, DOMAIN NewPhi(v, n).incoming)
        \/ \E phi \in Range(PhisIn(insts[n])) : \E v \in PhisTake(n) :
             ptu \in ToUpdate(n, phi, v, {j \in DOMAIN phi.incoming : phi.incoming[j][1] = v})
    <2> DEFINE P == Range(PhisIn(insts[n]))
               News == {ToUpdate(n, NewPhi(v, n), v, DOMAIN NewPhi(v, n).incoming) :
                          v \in LiveIn(n)}
               Old(phi, v) ==
                 ToUpdate(n, phi, v, {j \in DOMAIN phi.incoming : phi.incoming[j][1] = v})
               Olds == {Old(phi, v) : phi \in P, v \in PhisTake(n)}
    <2>1. ptu \in (UNION News) \cup (UNION Olds)
      BY DEF PhisToUpdate
    <2>2. \A X \in Olds : \E phi \in P : \E v \in PhisTake(n) : X = Old(phi, v)
      <3> HIDE DEF P, Old
      <3> QED OBVIOUS
    <2>3. \A X \in News : \E v \in LiveIn(n) :
            X = ToUpdate(n, NewPhi(v, n), v, DOMAIN NewPhi(v, n).incoming)
      OBVIOUS
    <2> HIDE DEF News, Olds
    <2>4. (\E X \in News : ptu \in X) \/ (\E X \in Olds : ptu \in X)
      BY <2>1
    <2>5. ASSUME NEW X \in Olds, ptu \in X
          PROVE  \E phi \in P : \E v \in PhisTake(n) : ptu \in Old(phi, v)
      <3> HIDE DEF P, Old
      <3> QED BY <2>2, <2>5
    <2> QED BY <2>3, <2>4, <2>5
  <1>2. CASE \E v \in LiveIn(n) :
               ptu \in ToUpdate(n, NewPhi(v, n), v, DOMAIN NewPhi(v, n).incoming)
    <2>1. PICK v \in LiveIn(n) :
            ptu \in ToUpdate(n, NewPhi(v, n), v, DOMAIN NewPhi(v, n).incoming)
      BY <1>2
    <2>2. DOMAIN NewPhi(v, n).incoming = DOMAIN SetToSeq(Preds(n))
          /\ NewPhi(v, n).result = Version(v, n)
      BY NewPhiIs
    <2>3. \E j \in DOMAIN SetToSeq(Preds(n)) :
            ptu = [node |-> n, phi |-> Version(v, n), index |-> j, value |-> v]
      BY <2>1, <2>2 DEF ToUpdate
    <2> QED BY <2>3
  <1>3. CASE \E phi \in Range(PhisIn(insts[n])) : \E v \in PhisTake(n) :
               ptu \in ToUpdate(n, phi, v, {j \in DOMAIN phi.incoming : phi.incoming[j][1] = v})
    <2>1. PICK phi \in Range(PhisIn(insts[n])) : \E v \in PhisTake(n) :
            ptu \in ToUpdate(n, phi, v, {j \in DOMAIN phi.incoming : phi.incoming[j][1] = v})
      BY <1>3
    <2>2. PICK v \in PhisTake(n) : \E j \in DOMAIN phi.incoming :
            /\ phi.incoming[j][1] = v
            /\ ptu = [node |-> n, phi |-> phi.result, index |-> j, value |-> v]
      BY <2>1 DEF ToUpdate
    <2>3. phi \in Range(insts[n]) /\ phi.isPhi
      BY PhisInIs
    <2> QED BY <2>2, <2>3
  <1> QED BY <1>1, <1>2, <1>3

\* The predecessors' sequence.
LEMMA PredsIs ==
  ASSUME TypesInv, NEW n
  PROVE  /\ SetToSeq(Preds(n)) \in Seq(Preds(n))
         /\ \A m \in Preds(n) : \E j \in DOMAIN SetToSeq(Preds(n)) : SetToSeq(Preds(n))[j] = m
  <1>1. IsFiniteSet(Range(blocks))
    <2>1. blocks \in Seq(AllBlocks)
      BY DEF TypesInv, Shaped
    <2>2. DOMAIN blocks = 1 .. Len(blocks) /\ Len(blocks) \in Nat
      BY <2>1
    <2>3. IsFiniteSet(1 .. Len(blocks))
      BY <2>2, FS_Interval
    <2>4. blocks \in Surjection(1 .. Len(blocks), Range(blocks))
      BY <2>1, <2>2 DEF Surjection, Range
    <2> QED BY <2>3, <2>4, FS_Surjection
  <1>2. Preds(n) \subseteq Range(blocks)
    BY DEF Preds, TypesInv, Shaped
  <1>3. IsFiniteSet(Preds(n))
    BY <1>1, <1>2, FS_Subset
  <1> QED BY <1>3, SetToSeqIs

\* What is said of the analysis' results alone stays.
LEMMA SameVerdicts ==
  ASSUME UNCHANGED analysis
  PROVE  /\ MappedNowhere' <=> MappedNowhere
         /\ PhiSourcesMapped' <=> PhiSourcesMapped
         /\ OneSource' <=> OneSource
         /\ \A a, b, w : TakenFrom(a, b, w)' <=> TakenFrom(a, b, w)
  <1>1. UNCHANGED <<phase, program, order, succ, code, live, liveValuesMap>> /\ Nodes' = Nodes
    BY SameAnalysis DEF vars, function, nodes
  <1>2. Entry' = Entry /\ \A w : LiveAt(w)' = LiveAt(w)
    BY <1>1, SameBlocks DEF Entry
  <1>3. \A a, b, w : TakenFrom(a, b, w)' <=> TakenFrom(a, b, w)
    BY <1>1 DEF TakenFrom
  <1>4. \A w : NeededAfterEntry(w)' <=> NeededAfterEntry(w)
    BY <1>1, <1>2, <1>3 DEF NeededAfterEntry
  <1>5. MappedNowhere' <=> MappedNowhere
    BY <1>1, <1>2, <1>4 DEF MappedNowhere
  <1>6. \A a, b, w : NeededOnEdge(a, b, w)' <=> NeededOnEdge(a, b, w)
    BY <1>1, SameBlocks
  <1>7. PhiSourcesMapped' <=> PhiSourcesMapped
    BY <1>1, <1>6 DEF PhiSourcesMapped
  <1>8. \A w : LiveInside(w)' = LiveInside(w)
    <2> TAKE w
    <2>1. Free(w)' = Free(w)
      BY <1>1, SameBlocks DEF Free
    <2>2. {n \in Nodes : NeededIn(n, w)}' = {n \in Nodes : NeededIn(n, w)}
      BY <1>1, SameBlocks
    <2>3. \A S : Closed(S, Free(w), succ)' <=> Closed(S, Free(w), succ)
      BY <1>1, <2>1 DEF Closed
    <2> QED BY <1>1, <2>2, <2>3 DEF LiveInside
  <1>9. OneSource' <=> OneSource
    BY <1>1, <1>6, <1>8 DEF OneSource
  <1> QED BY <1>3, <1>5, <1>7, <1>9

\* A value found at a block is found there as long as the block's mapping only grows.
LEMMA FoundKept ==
  ASSUME UNCHANGED analysis, NEW v, NEW m, Found(v, m), DOMAIN mapping[m] \subseteq DOMAIN mapping'[m]
  PROVE  Found(v, m)'
  BY SameVerdicts DEF Found

\* Every value that step 1 schedules for a place will be found in the block it comes from:
\* a live value in each predecessor ...
LEMMA NewFound ==
  ASSUME NamesInv, PlacesInv, PassInv, TypesInv, step = "phis",
         NEW n \in Phied, NEW v \in LiveIn(n), NEW m \in Preds(n)
  PROVE  m \in Range(blocks) /\ Found(v, m)
  <1>1. /\ Wired /\ LabelsMapped /\ Labelled /\ LiveInv /\ Range(labels) \subseteq checkpointBlocks
    BY LabelsTyped DEF PlacesInv, PassInv, SetsInv
  <1>2. m \in Range(blocks) /\ n \in flow[m]
    BY DEF Preds, TypesInv, Shaped
  <1>3. \A c \in Range(labels) : c \in Nodes
    BY <1>1 DEF LiveInv, Named
  <1>4. CASE n \in Nodes
    <2>1. PICK u \in live[n] : u.from = Anywhere /\ u.value = v
      BY <1>1, <1>4 DEF LiveIn, Labelled
    <2>2. CASE EdgeFrom(m, n)
      BY <1>2, <1>4, <2>1, <2>2, FoundOnEdge
    <2>3. CASE n \in Range(labels) /\ m \in {Checkpoint(n), Restart(n)}
      <3>1. v \in ValuesIn(n)
        BY <2>1 DEF ValuesIn
      <3>2. v \in DOMAIN mapping[m]
        BY <1>1, <2>3, <3>1 DEF LabelsMapped
      <3> QED BY <1>2, <3>2 DEF Found
    <2> QED BY <1>1, <1>2, <1>4, <2>2, <2>3 DEF Wired
  <1>5. CASE n \notin Nodes
    <2>1. PICK c \in Range(labels) : n = Checkpoint(c)
      BY <1>5 DEF Phied
    <2>2. liveValues[n] = live[c] /\ c \in Nodes /\ EdgeFrom(m, c)
      BY <1>1, <1>2, <1>3, <2>1 DEF LabelsMapped, Wired
    <2>3. PICK u \in live[c] : u.from = Anywhere /\ u.value = v
      BY <2>2 DEF LiveIn
    <2> QED BY <1>2, <2>2, <2>3, FoundOnEdge
  <1> QED BY <1>4, <1>5

\* ... and one that a PHI node takes in the block it is taken from.
LEMMA OldFound ==
  ASSUME NamesInv, PlacesInv, PassInv, TypesInv, step = "phis",
         NEW n \in Phied, NEW v \in Values, NEW phi \in Range(insts[n]), phi.isPhi,
         NEW j \in DOMAIN phi.incoming, phi.incoming[j][1] = v
  PROVE  /\ IsOld(phi, n) /\ phi.incoming[j][2] \in Range(blocks)
         /\ Found(v, phi.incoming[j][2])
  <1>1. IsOld(phi, n) \/ IsNew(phi, n)
    BY DEF NamesInv, PhisKnown, IsKnown
  <1>2. ~IsNew(phi, n)
    <2>1. IsNew(phi, n) => \E m : phi.incoming[j] = <<Constant, m>>
      BY DEF IsNew
    <2>2. IsNew(phi, n) => phi.incoming[j][1] = Constant
      BY <2>1
    <2> QED BY <2>2, ValuesAssumption
  <1>3. PICK i \in DOMAIN code[n] :
          /\ code[n][i].isPhi /\ DOMAIN phi.incoming = DOMAIN code[n][i].incoming
          /\ phi.incoming[j][2] = SourceOf(code[n][i].incoming[j][2])
          /\ v = code[n][i].incoming[j][1]
    BY <1>1, <1>2 DEF IsOld
  <1> DEFINE pair == code[n][i].incoming[j]
  <1>4. n \in Nodes /\ pair \in (Values \cup {Constant}) \X Nodes
    <2>1. n \in Nodes /\ code[n] \in Seq(NodeInstruction)
      BY <1>1, <1>2 DEF IsOld, PassInv, SetsInv, Coded
    <2>2. code[n][i] \in NodeInstruction
      BY <2>1
    <2>3. code[n][i].incoming \in Seq((Values \cup {Constant}) \X Nodes)
      BY <2>2 DEF NodeInstruction, InstructionFrom
    <2> QED BY <1>3, <2>1, <2>3
  <1>5. TakenFrom(pair[2], n, v)
    <2>1. pair = <<v, pair[2]>>
      BY <1>3, <1>4
    <2> QED BY <1>3, <2>1 DEF TakenFrom, Range
  <1>6. Found(v, SourceOf(pair[2]))
    BY <1>4, <1>5, FoundFor
  <1>7. SourceOf(pair[2]) \in Range(blocks)
    <2>1. Nodes \subseteq Range(blocks) /\ NoCREntry \in Range(blocks)
      BY DEF TypesInv, Shaped
    <2> QED BY <1>4, <2>1 DEF SourceOf
  <1> QED BY <1>1, <1>2, <1>3, <1>6, <1>7

\* Step 1 schedules nothing else.
LEMMA CreateFound ==
  ASSUME NamesInv, PlacesInv, PassInv, TypesInv, CreatePhis
  PROVE  ScheduledFound'
  <1>1. PICK i \in DOMAIN blocks : \E n : FixedAt(i, n)
    BY CreatePhisIs
  <1>2. PICK n : FixedAt(i, n)
    BY <1>1
  <1>3. /\ step = "phis" /\ UNCHANGED <<analysis, flow, labels, blocks>> /\ PhisKnown
        /\ ScheduledFound
    BY DEF CreatePhis, NamesInv, plan
  <1>4. Nodes' = Nodes /\ Phied' = Phied
    <2>1. Nodes' = Nodes
      BY <1>3, SameAnalysis
    <2> QED BY <1>3, <2>1 DEF Phied, Checkpoint
  <1>5. ASSUME NEW ptu \in scheduled
        PROVE  ptu.node \in Phied /\ \E m \in Range(blocks) : HasPlace(ptu, m)' /\ Found(ptu.value, m)'
    <2>1. PICK m \in Range(blocks) : HasPlace(ptu, m) /\ Found(ptu.value, m)
      BY <1>3 DEF ScheduledFound
    <2>2. ptu.node \in Phied /\ DOMAIN mapping[m] \subseteq DOMAIN mapping'[m]
      BY <1>2, <1>3 DEF ScheduledFound, FixedAt
    <2>3. HasPlace(ptu, m)'
      BY <1>2, <1>3, <2>1, <2>2, PlaceKept
    <2>4. \A v : Found(v, m) => Found(v, m)'
      BY <1>3, <2>2, FoundKept
    <2> QED BY <2>1, <2>2, <2>3, <2>4
  <1>6. ASSUME NEW ptu \in PhisToUpdate(n)
        PROVE  ptu.node \in Phied /\ \E m \in Range(blocks) : HasPlace(ptu, m)' /\ Found(ptu.value, m)'
    <2>1. /\ n \in Phied /\ LiveIn(n) \cup PhisTake(n) \subseteq Values
          /\ insts[n] \in Seq(Range(insts[n]))
          /\ \A m \in Range(blocks) : DOMAIN mapping[m] \subseteq DOMAIN mapping'[m]
      BY <1>2, <1>3 DEF FixedAt, PhisKnown
    <2>2. /\ ptu.node = n
          /\ \/ /\ ptu.value \in LiveIn(n) /\ ptu.phi = Version(ptu.value, n)
                /\ ptu.index \in DOMAIN SetToSeq(Preds(n))
             \/ /\ ptu.value \in PhisTake(n)
                /\ \E phi \in Range(insts[n]) :
                     /\ phi.isPhi /\ phi.result = ptu.phi
                     /\ ptu.index \in DOMAIN phi.incoming
                     /\ phi.incoming[ptu.index][1] = ptu.value
      BY <2>1, ToUpdateIs
    <2>3. CASE /\ ptu.value \in LiveIn(n) /\ ptu.phi = Version(ptu.value, n)
               /\ ptu.index \in DOMAIN SetToSeq(Preds(n))
      <3> DEFINE v == ptu.value
                 j == ptu.index
                 m == SetToSeq(Preds(n))[j]
      <3>1. m \in Preds(n)
        BY <2>3, PredsIs
      <3>2. m \in Range(blocks) /\ Found(v, m)
        BY <1>3, <2>1, <2>3, <3>1, NewFound
      <3>3. NewPhi(v, n) \in Range(insts'[n])
        BY <1>2, <2>3 DEF FixedAt
      <3>4. /\ NewPhi(v, n).isPhi /\ NewPhi(v, n).result = ptu.phi
            /\ j \in DOMAIN NewPhi(v, n).incoming /\ NewPhi(v, n).incoming[j] = <<Constant, m>>
        BY <2>1, <2>3, NewPhiIs
      <3>5. \E phi \in Range(insts'[ptu.node]) :
              /\ phi.isPhi /\ phi.result = ptu.phi
              /\ j \in DOMAIN phi.incoming /\ phi.incoming[j][2] = m
        BY <2>2, <3>3, <3>4
      <3>6. \E x \in Range(blocks) :
              /\ Found(v, x)'
              /\ \E phi \in Range(insts'[ptu.node]) :
                   /\ phi.isPhi /\ phi.result = ptu.phi
                   /\ j \in DOMAIN phi.incoming /\ phi.incoming[j][2] = x
        <4> HIDE DEF m, v
        <4>1. \A x \in Range(blocks) : \A w : Found(w, x) => Found(w, x)'
          BY <1>3, <2>1, FoundKept
        <4> QED BY <3>2, <3>5, <4>1
      <3> QED BY <2>1, <2>2, <3>6 DEF HasPlace, Range
    <2>4. CASE /\ ptu.value \in PhisTake(n)
               /\ \E phi \in Range(insts[n]) :
                    /\ phi.isPhi /\ phi.result = ptu.phi
                    /\ ptu.index \in DOMAIN phi.incoming
                    /\ phi.incoming[ptu.index][1] = ptu.value
      <3>1. PICK phi \in Range(insts[n]) :
              /\ phi.isPhi /\ phi.result = ptu.phi
              /\ ptu.index \in DOMAIN phi.incoming
              /\ phi.incoming[ptu.index][1] = ptu.value
        BY <2>4
      <3>2. PICK m : m = phi.incoming[ptu.index][2]
        OBVIOUS
      <3>3. ptu.value \in Values
        BY <2>1, <2>4
      <3>4. m \in Range(blocks) /\ Found(ptu.value, m)
        BY <1>3, <2>1, <3>1, <3>2, <3>3, OldFound
      <3>5. HasPlace(ptu, m)
        BY <2>2, <3>1, <3>2 DEF HasPlace
      <3>6. HasPlace(ptu, m)'
        BY <1>2, <1>3, <2>1, <2>2, <3>5, PlaceKept
      <3>7. \A v : Found(v, m) => Found(v, m)'
        BY <1>3, <2>1, <3>4, FoundKept
      <3> QED BY <2>1, <2>2, <3>4, <3>6, <3>7
    <2> QED BY <2>2, <2>3, <2>4
  <1>7. scheduled' = scheduled \cup PhisToUpdate(n)
    BY <1>2 DEF FixedAt
  <1> QED BY <1>3, <1>4, <1>5, <1>6, <1>7 DEF ScheduledFound

\* What a PHI node takes is recorded in its block, as such.
LEMMA TakenLive ==
  ASSUME PassInv, phase = "done", NEW n \in Nodes, NEW b, NEW v \in Values, TakenFrom(b, n, v)
  PROVE  \E u \in live[n] : u.value = v /\ u.from # Anywhere
  <1>1. /\ program \in Programs /\ Describes([def |-> def[n], use |-> use[n]], n)
        /\ Solved(n) /\ live = in
    BY DEF PassInv, SetsInv, Coded, Recorded, LiveInv, SolvedSoFar
  <1>2. NeededOnEdge(b, n, v)
    <2>1. PICK i \in DOMAIN code[n] :
            code[n][i].isPhi /\ \E j \in DOMAIN code[n][i].incoming : code[n][i].incoming[j] = <<v, b>>
      BY DEF TakenFrom, Range
    <2>2. v # Constant /\ v \in Mentioned(v)
      BY <1>1, MentionedTyped, ValuesAssumption
    <2> QED BY <2>1, <2>2 DEF NeededOnEdge
  <1>3. PICK x \in use[n] : x.value = v /\ x.from # Anywhere
    BY <1>1, <1>2 DEF Describes
  <1>4. PICK w \in in[n] : SameKey(x, w)
    BY <1>1, <1>3 DEF Solved, InCovers
  <1> QED BY <1>1, <1>3, <1>4 DEF SameKey

\* A block that asks for something has something live.
LEMMA AsksLive ==
  ASSUME PassInv, step = "phis" \/ step = "update", NEW n, NEW v \in Values, Asks(n, v)
  PROVE  /\ liveValues[n] # {}
         /\ n \in Nodes /\ TakenFrom(Entry, n, v) => v \in PhisTake(n)
  <1>1. phase = "done" /\ Labelled
    BY LabelsTyped DEF PassInv, SlotsInv
  <1>2. ASSUME n \in Nodes /\ TakenFrom(Entry, n, v) PROVE v \in PhisTake(n)
    <2>1. PICK u \in live[n] : u.value = v /\ u.from # Anywhere
      BY <1>1, <1>2, TakenLive
    <2> QED BY <1>1, <1>2, <2>1 DEF Labelled, PhisTake
  <1>3. liveValues[n] # {}
    BY <1>2 DEF Asks, LiveIn, PhisTake
  <1> QED BY <1>2, <1>3

\* When its turn comes, a block schedules what it asks of the moved entry block.
LEMMA TurnAsked ==
  ASSUME NamesInv, PlacesInv, PassInv, TypesInv, step = "phis",
         NEW i, NEW n, FixedAt(i, n), NEW v \in Values, Asks(n, v), Original(n)
  PROVE  \E ptu \in scheduled' :
           ptu.node = n /\ ptu.value = v /\ \E m : m = NoCREntry /\ HasPlace(ptu, m)'
  <1>1. PICK m : m = NoCREntry
    OBVIOUS
  <1>2. /\ n \in Phied /\ LiveIn(n) \cup PhisTake(n) \subseteq Values
        /\ scheduled' = scheduled \cup PhisToUpdate(n)
        /\ PhisKnown /\ insts[n] \in Seq(Range(insts[n])) /\ Wired /\ Verified
    BY DEF FixedAt, NamesInv, PhisKnown, PlacesInv
  <1>3. CASE v \in LiveIn(n)
    <2>1. m \in Preds(n)
      <3>1. NoCREntry \in DOMAIN flow
        BY DEF TypesInv, Shaped
      <3> QED BY <1>1, <3>1 DEF Asks, Preds
    <2>2. PICK j \in DOMAIN SetToSeq(Preds(n)) : SetToSeq(Preds(n))[j] = m
      BY <2>1, PredsIs
    <2>3. PICK ptu \in PhisToUpdate(n) :
            ptu.node = n /\ ptu.phi = Version(v, n) /\ ptu.index = j /\ ptu.value = v
      BY <1>2, <1>3, ToUpdateNew
    <2>4. NewPhi(v, n) \in Range(insts'[n])
      BY <1>3 DEF FixedAt
    <2>5. /\ NewPhi(v, n).isPhi /\ NewPhi(v, n).result = Version(v, n)
          /\ j \in DOMAIN NewPhi(v, n).incoming /\ NewPhi(v, n).incoming[j] = <<Constant, m>>
      BY <2>2, NewPhiIs
    <2>6. \E phi \in Range(insts'[ptu.node]) :
            /\ phi.isPhi /\ phi.result = ptu.phi
            /\ ptu.index \in DOMAIN phi.incoming /\ phi.incoming[ptu.index][2] = m
      BY <2>3, <2>4, <2>5
    <2>7. HasPlace(ptu, m)'
      BY <2>6 DEF HasPlace, Range
    <2> QED BY <1>1, <1>2, <2>3, <2>7
  <1>4. CASE n \in Nodes /\ TakenFrom(Entry, n, v)
    <2>1. v \in PhisTake(n)
      BY <1>4, AsksLive
    <2>2. PICK k \in DOMAIN code[n] :
            /\ code[n][k].isPhi
            /\ \E j \in DOMAIN code[n][k].incoming : code[n][k].incoming[j] = <<v, Entry>>
      BY <1>4 DEF TakenFrom, Range
    <2>3. PICK j \in DOMAIN code[n][k].incoming : code[n][k].incoming[j] = <<v, Entry>>
      BY <2>2
    <2>4. n # Entry
      <3>1. n \in succ[Entry] /\ Entry \in Nodes
        <4>1. code[n][k].incoming[j][2] = Entry
          BY <2>3
        <4>2. n \in succ[Entry]
          BY <1>2, <1>4, <2>2, <2>3, <4>1 DEF Verified
        <4>3. order \in Seq(Nodes) /\ order # << >>
          BY DEF PassInv, SetsInv, LiveInv, Flow
        <4> QED BY <4>2, <4>3 DEF Entry
      <3> QED BY <1>2, <3>1 DEF Verified
    <2>5. PICK phi \in Range(insts[n]) :
            /\ phi.isPhi /\ phi.result = code[n][k].result
            /\ DOMAIN phi.incoming = DOMAIN code[n][k].incoming
            /\ \A l \in DOMAIN code[n][k].incoming :
                 phi.incoming[l][1] = code[n][k].incoming[l][1]
      BY <1>4, <2>2, <2>4 DEF Original
    <2>6. phi.incoming[j][1] = v
      BY <2>3, <2>5
    <2>7. IsOld(phi, n)
      BY <1>2, <2>3, <2>5, <2>6, OldFound
    <2>8. phi.incoming[j][2] = m
      <3>1. PICK l \in DOMAIN code[n] :
              /\ code[n][l].isPhi /\ phi.result = code[n][l].result
              /\ \A q \in DOMAIN phi.incoming :
                   phi.incoming[q][2] = SourceOf(code[n][l].incoming[q][2])
        BY <2>7 DEF IsOld
      <3>2. l = k
        BY <1>2, <1>4, <2>2, <2>5, <3>1 DEF Verified
      <3>3. code[n][k].incoming[j][2] = Entry
        BY <2>3
      <3> QED BY <1>1, <2>3, <2>5, <3>1, <3>2, <3>3 DEF SourceOf
    <2> DEFINE ptu == [node |-> n, phi |-> phi.result, index |-> j, value |-> v]
    <2>9. ptu \in PhisToUpdate(n)
      <3>1. phi \in Range(PhisIn(insts[n]))
        BY <1>2, <2>5, PhisInIs
      <3>2. ptu \in ToUpdate(n, phi, v, {q \in DOMAIN phi.incoming : phi.incoming[q][1] = v})
        BY <2>3, <2>5, <2>6 DEF ToUpdate
      <3> DEFINE P == Range(PhisIn(insts[n]))
                 Old(x, w) ==
                   ToUpdate(n, x, w, {q \in DOMAIN x.incoming : x.incoming[q][1] = w})
                 Olds == {Old(x, w) : x \in P, w \in PhisTake(n)}
      <3>3. UNION Olds \subseteq PhisToUpdate(n)
        BY DEF PhisToUpdate
      <3>4. Old(phi, v) \in Olds
        <4> HIDE DEF P, Old
        <4> QED BY <2>1, <3>1 DEF P
      <3>5. ptu \in Old(phi, v)
        BY <3>2
      <3> HIDE DEF Olds, Old, P
      <3> QED BY <3>3, <3>4, <3>5
    <2>10. ptu.node = n /\ ptu.value = v /\ HasPlace(ptu, m)
      BY <2>3, <2>5, <2>8 DEF HasPlace
    <2>11. PICK p \in PhisToUpdate(n) : p.node = n /\ p.value = v /\ HasPlace(p, m)
      BY <2>9, <2>10
    <2>12. HasPlace(p, m)'
      BY <1>2, <2>11, PlaceKept
    <2> QED BY <1>1, <1>2, <2>11, <2>12
  <1> QED BY <1>3, <1>4 DEF Asks

\* Which block asks for what does not change any more.
LEMMA SameAsked ==
  ASSUME UNCHANGED <<analysis, blocks, flow, liveValues, labels>>
  PROVE  /\ Nodes' = Nodes /\ Phied' = Phied /\ Entry' = Entry /\ NoCREntry' = NoCREntry
         /\ UNCHANGED <<order, succ, code>>
         /\ \A n, v : Asks(n, v)' <=> Asks(n, v)
  <1>1. UNCHANGED <<order, succ, code>> /\ Nodes' = Nodes
    BY SameAnalysis DEF vars, function
  <1>2. Phied' = Phied /\ Entry' = Entry /\ NoCREntry' = NoCREntry
    BY <1>1 DEF Phied, Checkpoint, Entry, NoCREntry
  <1>3. \A n : LiveIn(n)' = LiveIn(n)
    BY DEF LiveIn
  <1>4. \A n, v : TakenFrom(Entry, n, v)' <=> TakenFrom(Entry, n, v)
    BY <1>1, <1>2 DEF TakenFrom
  <1> QED BY <1>1, <1>2, <1>3, <1>4 DEF Asks

\* What a block asks of the moved entry block is scheduled, or has still to be.
LEMMA CreateAsked ==
  ASSUME NamesInv, PlacesInv, PassInv, TypesInv, CreatePhis
  PROVE  AskedScheduled'
  <1>1. PICK i \in DOMAIN blocks : \E n : FixedAt(i, n)
    BY CreatePhisIs
  <1>2. PICK n : FixedAt(i, n)
    BY <1>1
  <1>3. /\ step = "phis" /\ UNCHANGED <<analysis, blocks, flow, liveValues, labels>>
        /\ PhisKnown /\ AskedScheduled
    BY DEF CreatePhis, NamesInv, plan
  <1>4. /\ Nodes' = Nodes /\ Phied' = Phied /\ Entry' = Entry /\ NoCREntry' = NoCREntry
        /\ UNCHANGED <<order, succ, code>>
        /\ \A a, v : Asks(a, v)' <=> Asks(a, v)
    BY <1>3, SameAsked
  <1>5. ASSUME NEW a \in Phied, NEW v \in Values, Asks(a, v)
        PROVE  \/ \E ptu \in scheduled' : /\ ptu.node = a /\ ptu.value = v
                                          /\ \E m : m = NoCREntry /\ HasPlace(ptu, m)'
               \/ ToCome(a)' /\ Original(a)'
    <2>1. CASE \E ptu \in scheduled : ptu.node = a /\ ptu.value = v /\ HasPlace(ptu, NoCREntry)
      <3>1. PICK m : m = NoCREntry
        OBVIOUS
      <3>2. PICK ptu \in scheduled : ptu.node = a /\ ptu.value = v /\ HasPlace(ptu, m)
        BY <2>1, <3>1
      <3>3. HasPlace(ptu, m)'
        BY <1>2, <1>3, <1>5, <3>2, PlaceKept
      <3>4. ptu \in scheduled'
        BY <1>2, <3>2 DEF FixedAt
      <3> QED BY <3>1, <3>2, <3>3, <3>4
    <2>2. CASE ToCome(a) /\ Original(a) /\ a = n
      BY <1>2, <1>3, <1>5, <2>2, TurnAsked
    <2>3. CASE ToCome(a) /\ Original(a) /\ a # n
      <3>1. insts'[a] = insts[a]
        BY <1>2, <1>5, <2>3 DEF FixedAt
      <3>2. Original(a)'
        BY <1>4, <2>3, <3>1 DEF Original, Range
      <3>3. PICK k \in DOMAIN blocks : k >= cursor /\ blocks[k] = a
        BY <2>3 DEF ToCome
      <3>4. WithLive(k)
        BY <1>3, <1>5, <3>3, AsksLive DEF WithLive
      <3>5. i <= k /\ k # i /\ cursor' = i + 1
        BY <1>2, <2>3, <3>3, <3>4 DEF FixedAt
      <3>6. i \in Int /\ k \in Int
        <4>1. blocks \in Seq(AllBlocks)
          BY DEF TypesInv, Shaped
        <4> QED BY <4>1
      <3>7. k >= cursor'
        BY <3>5, <3>6
      <3>8. ToCome(a)'
        BY <1>3, <3>3, <3>7 DEF ToCome
      <3> QED BY <3>2, <3>8
    <2> QED BY <1>3, <1>5, <2>1, <2>2, <2>3 DEF AskedScheduled
  <1>6. ASSUME NEW a \in Phied, NEW v \in Values, Asks(a, v)
        PROVE  \/ \E ptu \in scheduled' : /\ ptu.node = a /\ ptu.value = v
                                          /\ HasPlace(ptu, NoCREntry)'
               \/ ToCome(a)' /\ Original(a)'
    <2>1. \A ptu, m : HasPlace(ptu, m)' /\ m = NoCREntry => HasPlace(ptu, NoCREntry)'
      BY <1>4 DEF HasPlace, Range
    <2> QED BY <1>5, <1>6, <2>1
  <1> QED BY <1>4, <1>6 DEF AskedScheduled

\* Step 1 of fixDominance.
LEMMA CreateNames ==
  ASSUME NamesInv, PlacesInv, PassInv, TypesInv, CreatePhis
  PROVE  NamesInv'
  <1>1. step = "phis" /\ step' = "phis"
    BY DEF CreatePhis
  <1> QED BY <1>1, CreateKnown, CreateFound, CreateAsked DEF NamesInv

\* A step that changes nothing of this.
LEMMA FixKept ==
  ASSUME UNCHANGED <<analysis, blocks, flow, insts, liveValues, mapping, labels, scheduled>>,
         cursor' = cursor
  PROVE  /\ PhisKnown => PhisKnown'
         /\ ScheduledFound => ScheduledFound'
         /\ AskedScheduled => AskedScheduled'
         /\ \A n : Original(n) => Original(n)'
         /\ ((\E i \in DOMAIN blocks : WithLive(i))' <=> (\E i \in DOMAIN blocks : WithLive(i)))
  <1>1. /\ Nodes' = Nodes /\ Phied' = Phied /\ Entry' = Entry /\ NoCREntry' = NoCREntry
        /\ UNCHANGED <<order, succ, code>>
        /\ \A a, v : Asks(a, v)' <=> Asks(a, v)
    BY SameAsked
  <1>2. \A ptu, m : HasPlace(ptu, m)' <=> HasPlace(ptu, m)
    BY DEF HasPlace, Range
  <1>3. \A v, m : Found(v, m) => Found(v, m)'
    BY SameVerdicts DEF Found
  <1>4. \A n : Original(n)' <=> Original(n)
    BY <1>1 DEF Original, Range
  <1>5. PhisKnown => PhisKnown'
    <2> SUFFICES ASSUME PhisKnown PROVE PhisKnown'
      OBVIOUS
    <2>1. \A n \in Phied :
            /\ insts'[n] \in Seq(Range(insts'[n]))
            /\ \A i \in DOMAIN insts'[n] :
                 /\ DOMAIN insts'[n][i] = Fields
                 /\ insts'[n][i].isPhi => \/ IsOld(insts'[n][i], n)
                                          \/ flow' = flow /\ IsNew(insts'[n][i], n)
      BY DEF PhisKnown, IsKnown, Range
    <2> QED BY <1>1, <2>1, PhisKnownFrom
  <1>6. ScheduledFound => ScheduledFound'
    BY <1>1, <1>2, <1>3 DEF ScheduledFound
  <1>7. AskedScheduled => AskedScheduled'
    <2>1. \A n : ToCome(n)' <=> ToCome(n)
      BY DEF ToCome
    <2>2. \A ptu : HasPlace(ptu, NoCREntry)' <=> HasPlace(ptu, NoCREntry)
      BY <1>1 DEF HasPlace, Range
    <2> QED BY <1>1, <1>4, <2>1, <2>2 DEF AskedScheduled
  <1>8. ((\E i \in DOMAIN blocks : WithLive(i))' <=> (\E i \in DOMAIN blocks : WithLive(i)))
    BY DEF WithLive
  <1> QED BY <1>4, <1>5, <1>6, <1>7, <1>8

\* Step 1 has come to its end.
LEMMA AllNames ==
  ASSUME NamesInv, AllCreated
  PROVE  NamesInv'
  <1>1. /\ step = "phis" /\ step' = "update" /\ ~\E i \in DOMAIN blocks : WithLive(i)
        /\ UNCHANGED <<analysis, blocks, flow, insts, liveValues, mapping, labels, scheduled>>
        /\ cursor' = cursor
    BY DEF AllCreated, transformed, plan, fixing
  <1> QED BY <1>1, FixKept DEF NamesInv

\* A scheduled place is that of the block it was scheduled for.
LEMMA SourceIs ==
  ASSUME PassInv, Verified, PhisKnown, step = "update",
         NEW ptu, ptu.node \in Phied, NEW m, HasPlace(ptu, m)
  PROVE  Source(insts[ptu.node], ptu) = m
  <1> DEFINE n == ptu.node
             seq == insts[n]
             P == Range(PhisIn(seq))
             psi == CHOOSE inst \in P : inst.result = ptu.phi
  <1>1. /\ seq \in Seq(Range(seq)) /\ \A inst \in Range(seq) : IsKnown(inst, n)
    BY DEF PhisKnown
  <1>2. P = {inst \in Range(seq) : inst.isPhi}
    <2> DEFINE R == Range(seq)
    <2>1. seq \in Seq(R)
      BY <1>1
    <2> HIDE DEF R, seq
    <2>2. Range(PhisIn(seq)) = {inst \in Range(seq) : inst.isPhi}
      BY <2>1, PhisInIs
    <2> QED BY <2>2
  <1>3. PICK phi \in Range(seq) :
          /\ phi.isPhi /\ phi.result = ptu.phi
          /\ ptu.index \in DOMAIN phi.incoming /\ phi.incoming[ptu.index][2] = m
    BY DEF HasPlace
  <1>4. psi \in P /\ psi.result = ptu.phi
    <2>1. phi \in P /\ phi.result = ptu.phi
      BY <1>2, <1>3
    <2> HIDE DEF P
    <2> QED BY <2>1
  <1>5. /\ psi \in Range(seq) /\ psi.isPhi
        /\ IsOld(psi, n) \/ IsNew(psi, n)
        /\ IsOld(phi, n) \/ IsNew(phi, n)
    <2> HIDE DEF psi, seq, P
    <2> QED BY <1>1, <1>2, <1>3, <1>4 DEF IsKnown
  <1>6. Source(seq, ptu) = psi.incoming[ptu.index][2]
    BY DEF Source
  <1> HIDE DEF psi, seq, P
  <1>7. psi.incoming[ptu.index][2] = phi.incoming[ptu.index][2]
    BY <1>3, <1>4, <1>5, SamePlaces
  <1> QED BY <1>3, <1>6, <1>7 DEF seq

\* Some block asks for a value that is needed after the entry block.
LEMMA NeededAsked ==
  ASSUME PassInv, PlacesInv, OneSource, step = "update",
         NEW v \in Values, NeededAfterEntry(v)
  PROVE  \E n \in Phied : Asks(n, v)
  <1>1. /\ phase = "done" /\ Labelled /\ SetsInv /\ LiveInv /\ AllLive /\ Wired /\ LabelsMapped
        /\ live = in
    <2>1. phase = "done" /\ Labelled /\ SetsInv /\ LiveInv /\ Wired /\ LabelsMapped
      BY LabelsTyped DEF PassInv, SlotsInv, SetsInv, PlacesInv
    <2> QED BY <2>1, SetsInvAllLive DEF LiveInv, SolvedSoFar
  <1>2. PICK s \in succ[Entry] : s \in LiveAt(v) \/ TakenFrom(Entry, s, v)
    BY DEF NeededAfterEntry
  <1>3. s \in Nodes
    <2>1. Flow
      BY <1>1 DEF LiveInv
    <2>2. Entry \in Nodes
      BY <2>1 DEF Flow, Entry
    <2> QED BY <2>1, <2>2 DEF Flow
  <1>4. s \in LiveAt(v) => Use(v, Anywhere) \in live[s]
    BY <1>1 DEF AllLive, Is
  <1>5. Use(v, Anywhere).value = v /\ Use(v, Anywhere).from = Anywhere
    BY UseIs
  <1>6. \A n : s \in LiveAt(v) /\ liveValues[n] = live[s] => v \in LiveIn(n)
    BY <1>4, <1>5 DEF LiveIn
  <1>7. CASE s \in flow[NoCREntry]
    <2>1. s \in Phied /\ liveValues[s] = live[s]
      BY <1>1, <1>3 DEF Phied, Labelled
    <2> QED BY <1>2, <1>3, <1>6, <1>7, <2>1 DEF Asks
  <1>8. CASE s \in Range(labels) /\ Checkpoint(s) \in flow[NoCREntry]
    <2>1. Checkpoint(s) \in Phied /\ liveValues[Checkpoint(s)] = live[s]
      BY <1>1, <1>8 DEF Phied, LabelsMapped
    <2>2. s \in checkpointBlocks
      BY <1>8, LabelsTyped DEF PassInv
    <2>3. ~TakenFrom(Entry, s, v)
      BY <1>1, <2>2, NoPhisLabelled DEF TakenFrom, NoPhiIn
    <2>4. v \in LiveIn(Checkpoint(s))
      BY <1>2, <1>6, <2>1, <2>3
    <2> QED BY <1>8, <2>1, <2>4 DEF Asks
  <1> QED BY <1>1, <1>2, <1>7, <1>8 DEF Wired

\* Step 2 finds what it looks for only if nothing needed is mapped nowhere.
LEMMA UpdateNames ==
  ASSUME NamesInv, PlacesInv, PassInv, TypesInv, UpdatePhis
  PROVE  NamesInv'
  <1>1. /\ step = "update" /\ step' = "cleanup" /\ UNCHANGED analysis
        /\ \A ptu \in scheduled : Known(ptu)
        /\ PhisKnown /\ AskedScheduled /\ ~\E i \in DOMAIN blocks : WithLive(i)
        /\ Wired /\ Verified
    BY DEF UpdatePhis, NamesInv, PlacesInv
  <1>2. ASSUME OneSource, NEW v \in Values, NeededAfterEntry(v) PROVE v \in EntryResults
    <2>1. PICK n \in Phied : Asks(n, v)
      BY <1>1, <1>2, NeededAsked
    <2>2. ~ToCome(n)
      <3> SUFFICES ASSUME NEW k \in DOMAIN blocks, k >= cursor, blocks[k] = n
                   PROVE  FALSE
        BY DEF ToCome
      <3>1. liveValues[n] # {}
        BY <1>1, <2>1, AsksLive
      <3> QED BY <1>1, <3>1 DEF WithLive
    <2>3. PICK m : m = NoCREntry
      OBVIOUS
    <2>4. PICK ptu \in scheduled : ptu.node = n /\ ptu.value = v /\ HasPlace(ptu, m)
      BY <1>1, <2>1, <2>2, <2>3 DEF AskedScheduled
    <2>5. ptu.node \in Phied
      BY <2>4
    <2>6. Source(insts[ptu.node], ptu) = m
      BY <1>1, <2>4, <2>5, SourceIs
    <2>7. v \in DOMAIN mapping[m]
      BY <1>1, <2>4, <2>6 DEF Known
    <2> QED BY <1>1, <2>3, <2>7 DEF Wired
  <1>3. OneSource => ~MappedNowhere
    BY <1>2 DEF MappedNowhere, EntryResults
  <1>4. OneSource' => ~MappedNowhere'
    BY <1>1, <1>3, SameVerdicts
  <1> QED BY <1>1, <1>4 DEF NamesInv

\* Step 2 goes past the end of a map only for what nothing maps.
LEMMA UndefinedNames ==
  ASSUME NamesInv, PlacesInv, PassInv, NoMapping
  PROVE  NamesInv'
  <1>1. /\ step = "update" /\ step' = "undefined" /\ UNCHANGED analysis
        /\ PhisKnown /\ ScheduledFound /\ Verified
    BY DEF NoMapping, NamesInv, PlacesInv
  <1>2. PICK ptu \in scheduled : ~Known(ptu)
    BY DEF NoMapping
  <1>3. ptu.node \in Phied /\ \E m \in Range(blocks) : HasPlace(ptu, m) /\ Found(ptu.value, m)
    BY <1>1, <1>2 DEF ScheduledFound
  <1>4. PICK m \in Range(blocks) : HasPlace(ptu, m) /\ Found(ptu.value, m)
    BY <1>3
  <1>5. Source(insts[ptu.node], ptu) = m
    BY <1>1, <1>3, <1>4, SourceIs
  <1>6. MappedNowhere \/ ~PhiSourcesMapped
    BY <1>2, <1>4, <1>5 DEF Known, Found
  <1>7. MappedNowhere' \/ ~PhiSourcesMapped'
    BY <1>1, <1>6, SameVerdicts
  <1> QED BY <1>1, <1>7 DEF NamesInv

\* Before there are labels nothing is scheduled, and after step 2 nothing more.
LEMMA OtherNames ==
  ASSUME NamesInv,
         \/ Analyse \/ NotLinked \/ AddCheckpointsToFunction \/ CreateCheckpointAndRestartBlocks
         \/ PointerNotSupported \/ CollectConstantPhis \/ RemovePhi \/ RepeatCleanUp \/ Fixed
         \/ RunBlock \/ RestartFromCheckpoint
  PROVE  NamesInv'
  <1>1. CASE Analyse \/ AddCheckpointsToFunction \/ CreateCheckpointAndRestartBlocks
    <2>1. /\ step \in {"analysis", "blocks"} /\ step' \in {"analysis", "blocks", "unchanged"}
          /\ scheduled' = scheduled
      BY <1>1 DEF Analyse, AddCheckpointsToFunction, CreateCheckpointAndRestartBlocks, fixing
    <2> QED BY <2>1 DEF NamesInv
  <1>2. CASE NotLinked \/ PointerNotSupported
    <2>1. step' \in {"unchanged", "exited"}
      BY <1>2 DEF NotLinked, PointerNotSupported
    <2> QED BY <2>1 DEF NamesInv
  <1>3. CASE \/ CollectConstantPhis \/ RemovePhi \/ RepeatCleanUp \/ Fixed
             \/ RunBlock \/ RestartFromCheckpoint
    <2>1. step \in {"cleanup", "run"} /\ step' \in {"cleanup", "run"} /\ UNCHANGED analysis
      BY <1>3 DEF CollectConstantPhis, RemovePhi, RepeatCleanUp, Fixed, RunBlock,
                  RestartFromCheckpoint
    <2>2. OneSource' => ~MappedNowhere'
      BY <2>1, SameVerdicts DEF NamesInv
    <2> QED BY <2>1, <2>2 DEF NamesInv
  <1> QED BY <1>1, <1>2, <1>3

\* Every step of the pass keeps it.
LEMMA NamesStep ==
  ASSUME NamesInv, PlacesInv, PassInv, TypesInv, [PassNext]_passVars
  PROVE  NamesInv'
  <1>1. CASE InsertRestartBlock
    BY <1>1, EntryNames
  <1>2. CASE FillNextBlock \/ RestoreScalar \/ RestoreSizesAndAliases \/ RestorePointer
    BY <1>2, FillNames
  <1>3. CASE AllFilled
    BY <1>3, FilledNames
  <1>4. CASE CreatePhis
    BY <1>4, CreateNames
  <1>5. CASE AllCreated
    BY <1>5, AllNames
  <1>6. CASE UpdatePhis
    BY <1>6, UpdateNames
  <1>7. CASE NoMapping
    BY <1>7, UndefinedNames
  <1>8. CASE UNCHANGED passVars
    <2>1. /\ UNCHANGED <<step, analysis, blocks, flow, insts, liveValues, mapping, labels>>
          /\ scheduled' = scheduled /\ cursor' = cursor
      BY <1>8 DEF passVars, transformed, plan, fixing
    <2>2. /\ MappedNowhere' <=> MappedNowhere
          /\ PhiSourcesMapped' <=> PhiSourcesMapped
          /\ OneSource' <=> OneSource
      BY <2>1, SameVerdicts
    <2>3. UNCHANGED <<analysis, blocks, flow, insts, liveValues, mapping, labels, scheduled>>
      BY <2>1
    <2>4. Nodes' = Nodes
      BY <2>1, SameAnalysis
    <2> QED BY <2>1, <2>2, <2>3, <2>4, FixKept DEF NamesInv
  <1> QED BY <1>1, <1>2, <1>3, <1>4, <1>5, <1>6, <1>7, <1>8, OtherNames DEF PassNext, Pass

\* Every reachable state of the pass satisfies it.
THEOREM NamesInvariant == PassSpec => []NamesInv
  <1>1. PassInit => PassInv /\ TypesInv /\ PlacesInv /\ NamesInv
    <2>1. PassInit => PlacesInv /\ NamesInv
      BY VerifiedInit DEF PassInit, PlacesInv, NamesInv
    <2> QED BY <2>1, TypesInit, LiveInit, InitCoded, SlotsInit DEF PassInit, PassInv, SetsInv
  <1>2. PassInv /\ TypesInv /\ PlacesInv /\ NamesInv /\ [PassNext]_passVars
          => TypesInv' /\ PlacesInv' /\ NamesInv'
    BY TypesStep, PlacesStep, NamesStep
  <1> QED BY <1>1, <1>2, PassInvariant, PTL DEF PassSpec

\* fixDominance's getLiveMapping goes through the end of a map, whatever the function,
\* only if the moved entry block maps not all that is needed after it, or the analysis
\* has lost what a PHI node takes from two blocks.
THEOREM LookupFails == PassSpec => [](step = "undefined" => MappedNowhere \/ ~PhiSourcesMapped)
  <1>1. NamesInv => (step = "undefined" => MappedNowhere \/ ~PhiSourcesMapped)
    BY DEF NamesInv
  <1> QED BY <1>1, NamesInvariant, PTL

\* Where it has lost none it does so exactly then: a main that is fixed needs no value that
\* the moved entry block does not map.
THEOREM UndefinedExactly == PassSpec => [](OneSource => UndefinedIfMappedNowhere)
  <1>1. NamesInv => (OneSource => UndefinedIfMappedNowhere)
    BY DEF NamesInv, UndefinedIfMappedNowhere
  <1> QED BY <1>1, NamesInvariant, PTL

===========================================================================
