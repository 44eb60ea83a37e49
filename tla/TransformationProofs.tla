----------------------- MODULE TransformationProofs -----------------------
(***************************************************************************)
(* What the transformation does to main, for every function.  First, that  *)
(* a block with one predecessor is reached through its checkpoint or its   *)
(* restart block only: the loop over the predecessors of a block stops     *)
(* after the first one; where there is one, this is enough, whatever has   *)
(* been redirected before.  Then what a checkpoint block saves, for every  *)
(* order of addresses: the slots of a label are in order, each value has   *)
(* one, and all that is live there has.                                    *)
(***************************************************************************)
EXTENDS Transformation, LiveAnalysisProofs

\* n has one predecessor in main as it was.
OnePred(n) == Cardinality({m \in Nodes : n \in succ[m]}) = 1

\* Before the restart block: two blocks more for every label, each with an edge
\* to the labelled block; no edge is added between the blocks there were, and
\* the only one into a labelled block is gone.
Redirecting ==
  /\ labels \in Seq(checkpointBlocks)
  /\ DOMAIN flow = Nodes \cup {Checkpoint(c) : c \in Range(labels)}
                         \cup {Restart(c) : c \in Range(labels)}
  /\ \A c \in Range(labels) : flow[Checkpoint(c)] = {c} /\ flow[Restart(c)] = {c}
  /\ \A m, n \in Nodes : n \in flow[m] =>
       n \in succ[m] /\ ~(n \in Range(labels) /\ OnePred(n))

PointsInv ==
  /\ LiveInv
  /\ step = "analysis" => labels = << >>
  /\ step = "blocks" => Redirecting
  /\ PointsAtCheckpointIfSplit

----------------------------------------------------------------------------
(* Lemmas *)

\* None of the blocks added is one that was there, and those of two labels
\* are different.
LEMMA AddedBlocks ==
  ASSUME LiveInv
  PROVE  /\ \A n : Checkpoint(n) \notin Nodes /\ Restart(n) \notin Nodes
         /\ NoCREntry \notin Nodes
         /\ \A n : NoCREntry # Checkpoint(n) /\ NoCREntry # Restart(n)
         /\ \A m, n : Checkpoint(m) # Restart(n)
         /\ \A c, d \in checkpointBlocks :
              Checkpoint(c) = Checkpoint(d) \/ Restart(c) = Restart(d) => c = d
  <1>1. \A n : /\ Checkpoint(n)[1] = n[1] /\ Checkpoint(n)[2] = ".checkpoint"
               /\ Restart(n)[1] = n[1] /\ Restart(n)[2] = ".read_checkpoint"
    BY DEF Checkpoint, Restart
  <1>2. NoCREntry[2] = "no_cr_entry"
    BY DEF NoCREntry
  <1>3. \A n : Checkpoint(n) \notin Nodes /\ Restart(n) \notin Nodes
    BY <1>1 DEF LiveInv, Named
  <1>4. NoCREntry \notin Nodes
    BY <1>2 DEF LiveInv, Named
  <1>5. \A n : NoCREntry # Checkpoint(n) /\ NoCREntry # Restart(n)
    BY <1>1, <1>2
  <1>6. \A m, n : Checkpoint(m) # Restart(n)
    BY <1>1
  <1>7. \A c, d \in checkpointBlocks :
          Checkpoint(c) = Checkpoint(d) \/ Restart(c) = Restart(d) => c = d
    <2>1. \A c, d : Checkpoint(c) = Checkpoint(d) \/ Restart(c) = Restart(d)
                      => c[1] = d[1]
      BY <1>1
    <2> QED BY <2>1 DEF LiveInv, Named
  <1> QED BY <1>3, <1>4, <1>5, <1>6, <1>7

LEMMA OnePredOf ==
  ASSUME LiveInv, NEW n, OnePred(n)
  PROVE  \E x \in Nodes : \A m \in Nodes : n \in succ[m] => m = x
  <1> DEFINE S == {m \in Nodes : n \in succ[m]}
  <1>1. IsFiniteSet(Nodes)
    <2>1. IsFiniteSet(DOMAIN order)
      <3>1. DOMAIN order = 1 .. Len(order) /\ Len(order) \in Int
        BY DEF LiveInv, Flow
      <3> QED BY <3>1, FS_Interval
    <2>2. [i \in DOMAIN order |-> order[i]] \in Surjection(DOMAIN order, Nodes)
      BY DEF Surjection, Nodes
    <2> QED BY <2>1, <2>2, FS_Surjection
  <1>2. IsFiniteSet(S)
    BY <1>1, FS_Subset
  <1>3. Cardinality(S) = 1
    BY DEF OnePred
  <1>4. \E x : S = {x}
    BY <1>2, <1>3, FS_Singleton
  <1> QED BY <1>4

\* What "blocks" says of the edges into a labelled block.
LEMMA RedirectingPoints ==
  ASSUME LiveInv, Redirecting
  PROVE  PointsAtCheckpointIfSplit
  <1> SUFFICES ASSUME NEW l \in DOMAIN labels, OnePred(labels[l])
               PROVE  Preds(labels[l]) = {Checkpoint(labels[l]), Restart(labels[l])}
    BY DEF PointsAtCheckpointIfSplit, OnePred
  <1> DEFINE n == labels[l]
  <1>1. n \in Range(labels) /\ n \in checkpointBlocks /\ n \in Nodes
    <2>1. n \in checkpointBlocks
      BY DEF Redirecting
    <2> QED BY <2>1 DEF Range, LiveInv, Named
  <1> HIDE DEF n
  <1>2. Checkpoint(n) \in Preds(n) /\ Restart(n) \in Preds(n)
    BY <1>1 DEF Redirecting, Preds
  <1>3. ASSUME NEW m \in Preds(n) PROVE m \in {Checkpoint(n), Restart(n)}
    <2>1. m \in DOMAIN flow /\ n \in flow[m]
      BY DEF Preds
    <2>2. m \notin Nodes
      BY <1>1, <2>1 DEF Redirecting, n
    <2>3. PICK c \in Range(labels) : m = Checkpoint(c) \/ m = Restart(c)
      BY <2>1, <2>2 DEF Redirecting
    <2>4. n = c
      BY <2>1, <2>3 DEF Redirecting
    <2> QED BY <2>3, <2>4
  <1> QED BY <1>2, <1>3 DEF n

----------------------------------------------------------------------------
(* The invariant *)

LEMMA PointsInit == PassInit => PointsInv
  BY LiveInit DEF PassInit, PointsInv, PointsAtCheckpointIfSplit

LEMMA StartBlocks ==
  ASSUME PointsInv, LiveInv', AddCheckpointsToFunction
  PROVE  PointsInv'
  <1>1. /\ step = "analysis" /\ labels = << >> /\ labels' = << >> /\ flow' = succ
        /\ UNCHANGED <<succ, order, checkpointBlocks>> /\ Nodes' = Nodes
        /\ step' # "analysis"
    BY DEF AddCheckpointsToFunction, PointsInv, analysis, function, plan, Nodes
  <1>2. labels' \in Seq(checkpointBlocks') /\ Range(labels') = {}
    BY <1>1 DEF Range
  <1>3. Redirecting'
    BY <1>1, <1>2 DEF Redirecting, PointsInv, LiveInv, Flow
  <1>4. PointsAtCheckpointIfSplit'
    BY <1>1 DEF PointsAtCheckpointIfSplit
  <1> QED BY <1>1, <1>3, <1>4 DEF PointsInv

LEMMA CreatePoints ==
  ASSUME PointsInv, LiveInv', CreateCheckpointAndRestartBlocks
  PROVE  PointsInv'
  <1>1. PICK n \in checkpointBlocks \ Range(labels) : \E first \in Preds(n) :
          /\ labels' = Append(labels, n)
          /\ flow' = [m \in DOMAIN flow \cup {Checkpoint(n), Restart(n)} |->
                        IF m \in {Checkpoint(n), Restart(n)} THEN {n}
                        ELSE Redirected(m, n, first)]
    BY DEF CreateCheckpointAndRestartBlocks
  <1>2. PICK first \in Preds(n) :
          /\ labels' = Append(labels, n)
          /\ flow' = [m \in DOMAIN flow \cup {Checkpoint(n), Restart(n)} |->
                        IF m \in {Checkpoint(n), Restart(n)} THEN {n}
                        ELSE Redirected(m, n, first)]
    BY <1>1
  <1>3. /\ step = "blocks" /\ step' = "blocks" /\ Redirecting /\ LiveInv
        /\ UNCHANGED <<succ, order, checkpointBlocks>> /\ Nodes' = Nodes
        /\ \A m : OnePred(m)' <=> OnePred(m)
    BY DEF CreateCheckpointAndRestartBlocks, PointsInv, analysis, function, Nodes, OnePred
  <1>4. labels' \in Seq(checkpointBlocks) /\ Range(labels') = Range(labels) \cup {n}
    <2>1. labels \in Seq(checkpointBlocks) /\ n \in checkpointBlocks
      BY <1>3 DEF Redirecting
    <2>2. /\ labels' \in Seq(checkpointBlocks) /\ Len(labels') = Len(labels) + 1
          /\ \A i \in 1 .. Len(labels) : labels'[i] = labels[i]
          /\ labels'[Len(labels) + 1] = n
      BY <1>2, <2>1
    <2> QED BY <2>1, <2>2 DEF Range
  <1>5. Range(labels) \subseteq checkpointBlocks /\ n \in Nodes
    <2>1. labels \in Seq(checkpointBlocks)
      BY <1>3 DEF Redirecting
    <2>2. \A i \in DOMAIN labels : labels[i] \in checkpointBlocks
      BY <2>1
    <2>3. Range(labels) \subseteq checkpointBlocks
      BY <2>2 DEF Range
    <2>4. checkpointBlocks \subseteq Nodes
      BY <1>3 DEF LiveInv, Named
    <2> QED BY <1>1, <2>3, <2>4
  <1>6. /\ \A c \in Range(labels) : Checkpoint(c) # Checkpoint(n) /\ Restart(c) # Restart(n)
        /\ \A m : Checkpoint(m) \notin Nodes /\ Restart(m) \notin Nodes
        /\ \A c, d : Checkpoint(c) # Restart(d)
    BY <1>1, <1>3, <1>5, AddedBlocks
  <1>7. first \in Nodes /\ n \in succ[first]
    <2>1. first \in DOMAIN flow /\ n \in flow[first]
      BY <1>2 DEF Preds
    <2>2. first \in Nodes
      BY <1>1, <1>3, <2>1 DEF Redirecting
    <2> QED BY <1>3, <1>5, <2>1, <2>2 DEF Redirecting
  <1>8. DOMAIN flow' = Nodes \cup {Checkpoint(c) : c \in Range(labels')}
                               \cup {Restart(c) : c \in Range(labels')}
    BY <1>2, <1>3, <1>4 DEF Redirecting
  <1>9. ASSUME NEW c \in Range(labels')
        PROVE  flow'[Checkpoint(c)] = {c} /\ flow'[Restart(c)] = {c}
    <2>1. CASE c = n
      BY <1>2, <2>1
    <2>2. CASE c \in Range(labels)
      <3>1. /\ Checkpoint(c) \in DOMAIN flow /\ Restart(c) \in DOMAIN flow
            /\ flow[Checkpoint(c)] = {c} /\ flow[Restart(c)] = {c}
        BY <1>3, <2>2 DEF Redirecting
      <3>2. first # Checkpoint(c) /\ first # Restart(c)
        BY <1>6, <1>7
      <3> QED BY <1>2, <1>6, <2>2, <3>1, <3>2 DEF Redirected
    <2> QED BY <1>4, <2>1, <2>2
  <1>10. ASSUME NEW m \in Nodes, NEW k \in Nodes, k \in flow'[m]
         PROVE  k \in succ[m] /\ ~(k \in Range(labels') /\ OnePred(k))
    <2>1. m \in DOMAIN flow /\ flow'[m] = Redirected(m, n, first)
      BY <1>2, <1>3, <1>6 DEF Redirecting
    <2>2. k \in flow[m] /\ (m = first => k # n)
      BY <1>6, <1>10, <2>1 DEF Redirected
    <2>3. k \in succ[m] /\ ~(k \in Range(labels) /\ OnePred(k))
      BY <1>3, <2>2 DEF Redirecting
    <2>4. ~(k = n /\ OnePred(n))
      BY <1>3, <1>7, <2>2, <2>3, OnePredOf
    <2> QED BY <1>4, <2>3, <2>4
  <1>11. Redirecting'
    BY <1>3, <1>4, <1>8, <1>9, <1>10 DEF Redirecting
  <1>12. PointsAtCheckpointIfSplit'
    BY <1>11, RedirectingPoints, PTL
  <1> QED BY <1>3, <1>11, <1>12 DEF PointsInv

\* The edges of the old entry block now leave the block its code moved to.
LEMMA EntryPoints ==
  ASSUME PointsInv, LiveInv', InsertRestartBlock
  PROVE  PointsInv'
  <1>1. /\ step = "blocks" /\ step' = "fill" /\ Redirecting /\ LiveInv
        /\ UNCHANGED <<succ, order, checkpointBlocks, labels>> /\ Nodes' = Nodes
        /\ flow' = [m \in DOMAIN flow \cup {NoCREntry} |->
                      IF m = Entry THEN {NoCREntry} \cup {Restart(n) : n \in checkpointBlocks}
                      ELSE IF m = NoCREntry THEN flow[Entry] ELSE flow[m]]
    BY DEF InsertRestartBlock, PointsInv, analysis, function, plan, Nodes
  <1>2. Entry \in Nodes
    <2>1. order \in Seq(Nodes) /\ order # << >>
      BY <1>1 DEF LiveInv, Flow
    <2>2. Head(order) \in Nodes
      BY <2>1
    <2> QED BY <2>2 DEF Entry
  <1>3. /\ \A n : Checkpoint(n) \notin Nodes /\ Restart(n) \notin Nodes
        /\ NoCREntry \notin Nodes
        /\ \A n : NoCREntry # Checkpoint(n) /\ NoCREntry # Restart(n)
    BY <1>1, AddedBlocks
  <1>4. /\ DOMAIN flow' = DOMAIN flow \cup {Entry, NoCREntry}
        /\ flow'[Entry] = {NoCREntry} \cup {Restart(n) : n \in checkpointBlocks}
        /\ flow'[NoCREntry] = flow[Entry]
        /\ \A m \in DOMAIN flow \ {Entry, NoCREntry} : flow'[m] = flow[m]
    <2>1. Entry \in DOMAIN flow /\ Entry # NoCREntry
      BY <1>1, <1>2, <1>3 DEF Redirecting
    <2> QED BY <1>1, <2>1
  <1>5. ASSUME NEW l \in DOMAIN labels, OnePred(labels[l])
        PROVE  Preds(labels[l])' = Preds(labels[l])
    <2>1. PICK n \in checkpointBlocks : n = labels[l] /\ n \in Range(labels)
      BY <1>1 DEF Redirecting, Range
    <2>2. n \in Nodes
      BY <1>1 DEF LiveInv, Named
    <2>3. \A m \in Nodes : n \notin flow[m]
      BY <1>1, <1>5, <2>1, <2>2 DEF Redirecting
    <2>4. n \notin flow'[Entry] /\ n \notin flow'[NoCREntry]
      BY <1>2, <1>3, <1>4, <2>2, <2>3
    <2>5. NoCREntry \notin DOMAIN flow
      BY <1>1, <1>3 DEF Redirecting
    <2>6. n \notin flow[Entry]
      BY <1>2, <2>3
    <2>7. \A m : m \in DOMAIN flow' /\ n \in flow'[m] <=> m \in DOMAIN flow /\ n \in flow[m]
      BY <1>4, <2>4, <2>5, <2>6
    <2> QED BY <1>1, <2>1, <2>7 DEF Preds
  <1>6. PointsAtCheckpointIfSplit
    BY DEF PointsInv
  <1>7. PointsAtCheckpointIfSplit'
    BY <1>1, <1>5, <1>6 DEF PointsAtCheckpointIfSplit, OnePred, Checkpoint, Restart
  <1> QED BY <1>1, <1>7 DEF PointsInv

\* No other step of the pass, and none of the transformed main, changes the edges
\* or the labels, or goes back to the steps before.
Others ==
  \/ NotLinked \/ FillNextBlock \/ RestoreScalar \/ RestoreSizesAndAliases
  \/ RestorePointer \/ PointerNotSupported \/ AllFilled \/ CreatePhis
  \/ AllCreated \/ UpdatePhis \/ NoMapping \/ CollectConstantPhis
  \/ RemovePhi \/ RepeatCleanUp \/ Fixed \/ RunBlock \/ RestartFromCheckpoint

LEMMA OthersKeep ==
  ASSUME Others
  PROVE  /\ UNCHANGED <<analysis, labels, flow>>
         /\ step' \in {"analysis", "blocks"} => step' = step
  <1>1. CASE NotLinked
    BY <1>1 DEF NotLinked, transformed, plan
  <1>2. CASE FillNextBlock
    BY <1>2 DEF FillNextBlock, transformed, plan
  <1>3. CASE RestoreScalar
    BY <1>3 DEF RestoreScalar, transformed, plan
  <1>4. CASE RestoreSizesAndAliases
    BY <1>4 DEF RestoreSizesAndAliases, transformed, plan
  <1>5. CASE RestorePointer
    BY <1>5 DEF RestorePointer, transformed, plan
  <1>6. CASE PointerNotSupported
    BY <1>6 DEF PointerNotSupported, transformed, plan
  <1>7. CASE AllFilled
    BY <1>7 DEF AllFilled, transformed, plan
  <1>8. CASE CreatePhis
    BY <1>8 DEF CreatePhis, transformed, plan
  <1>9. CASE AllCreated
    BY <1>9 DEF AllCreated, transformed, plan
  <1>10. CASE UpdatePhis
    BY <1>10 DEF UpdatePhis, transformed, plan
  <1>11. CASE NoMapping
    BY <1>11 DEF NoMapping, transformed, plan
  <1>12. CASE CollectConstantPhis
    BY <1>12 DEF CollectConstantPhis, transformed, plan
  <1>13. CASE RemovePhi
    BY <1>13 DEF RemovePhi, transformed, plan
  <1>14. CASE RepeatCleanUp
    BY <1>14 DEF RepeatCleanUp, transformed, plan
  <1>15. CASE Fixed
    BY <1>15 DEF Fixed, transformed, plan
  <1>16. CASE RunBlock
    BY <1>16 DEF RunBlock, transformed, plan
  <1>17. CASE RestartFromCheckpoint
    BY <1>17 DEF RestartFromCheckpoint, transformed, plan
  <1> QED BY <1>1, <1>2, <1>3, <1>4, <1>5, <1>6, <1>7, <1>8, <1>9,
              <1>10, <1>11, <1>12, <1>13, <1>14, <1>15, <1>16, <1>17 DEF Others

LEMMA PointsStep ==
  ASSUME PointsInv, [PassNext]_passVars
  PROVE  PointsInv'
  <1>1. CASE Analyse
    <2>1. step = "analysis" /\ step' = "analysis" /\ labels = << >> /\ labels' = << >>
      BY <1>1 DEF Analyse, plan, PointsInv
    <2>2. LiveInv'
      BY <1>1, LiveStep DEF Analyse, PointsInv
    <2> QED BY <2>1, <2>2 DEF PointsInv, PointsAtCheckpointIfSplit
  <1>2. CASE UNCHANGED analysis
    <2>1. LiveInv'
      <3>1. UNCHANGED vars
        BY <1>2 DEF analysis, vars
      <3> QED BY <3>1, LiveStep DEF PointsInv
    <2>2. CASE AddCheckpointsToFunction
      BY <2>1, <2>2, StartBlocks
    <2>3. CASE CreateCheckpointAndRestartBlocks
      BY <2>1, <2>3, CreatePoints
    <2>4. CASE InsertRestartBlock
      BY <2>1, <2>4, EntryPoints
    <2>5. CASE /\ UNCHANGED <<analysis, labels, flow>>
               /\ step' \in {"analysis", "blocks"} => step' = step
      <3>1. UNCHANGED <<succ, order, checkpointBlocks, labels, flow>>
        BY <2>5 DEF analysis, function
      <3>2. Nodes' = Nodes
        BY <3>1 DEF Nodes
      <3>3. PointsAtCheckpointIfSplit'
        BY <3>1, <3>2 DEF PointsInv, PointsAtCheckpointIfSplit, Preds, Checkpoint, Restart
      <3>4. step' = "blocks" => Redirecting'
        BY <2>5, <3>1, <3>2 DEF PointsInv, Redirecting, OnePred, Checkpoint, Restart
      <3> QED BY <2>1, <2>5, <3>1, <3>3, <3>4 DEF PointsInv
    <2>6. CASE Others
      BY <2>5, <2>6, OthersKeep
    <2>7. CASE UNCHANGED passVars
      BY <2>5, <2>7 DEF passVars, transformed, plan
    <2>8. CASE Analyse
      BY <1>1, <2>8
    <2> QED BY <2>2, <2>3, <2>4, <2>6, <2>7, <2>8 DEF PassNext, Pass, Others
  <1>3. Analyse \/ UNCHANGED analysis
    <2>1. CASE AddCheckpointsToFunction
      BY <2>1 DEF AddCheckpointsToFunction
    <2>2. CASE CreateCheckpointAndRestartBlocks
      BY <2>2 DEF CreateCheckpointAndRestartBlocks
    <2>3. CASE InsertRestartBlock
      BY <2>3 DEF InsertRestartBlock
    <2>4. CASE Others
      BY <2>4, OthersKeep
    <2>5. CASE UNCHANGED passVars
      BY <2>5 DEF passVars
    <2> QED BY <2>1, <2>2, <2>3, <2>4, <2>5 DEF PassNext, Pass, Others
  <1> QED BY <1>1, <1>2, <1>3

----------------------------------------------------------------------------
(* The theorems *)

\* Every reachable state of the pass satisfies PointsInv.
THEOREM PointsInvariant == PassSpec => []PointsInv
  BY PointsInit, PointsStep, PTL DEF PassSpec

\* createCheckpointAndRestartBlocksForNode, insertRestartBlock: whatever blocks
\* are checkpointed, and in whatever order, one that had a single predecessor is
\* from then on entered by its checkpoint block and its restart block alone.
THEOREM SplitBlocksPointed == PassSpec => []PointsAtCheckpointIfSplit
  <1>1. PointsInv => PointsAtCheckpointIfSplit
    BY DEF PointsInv
  <1> QED BY <1>1, PointsInvariant, PTL

\* What fixDominance is given by the live analysis, it has to the end of the pass.
THEOREM PassValuesMapped == PassSpec => []LiveMapped
  <1>1. PointsInv => LiveMapped
    BY LiveInvMaps DEF PointsInv
  <1> QED BY <1>1, PointsInvariant, PTL

----------------------------------------------------------------------------
(* What the checkpoint blocks save *)


\* A value in the last label's slots, or still to come before place k of work.
Ready(v, k) == HasSlot(v) \/ \E j \in 1 .. k - 1 : work[j][2] = v

\* The blocks that each label has its slots for, and what is live in them.
Labelled ==
  /\ labels \in Seq(checkpointBlocks)
  /\ \A i, j \in DOMAIN labels : labels[i] = labels[j] => i = j
  /\ Nodes \subseteq DOMAIN liveValues /\ \A n \in Nodes : liveValues[n] = live[n]
  /\ \A c \in Range(labels) :
       /\ Restart(c) \in DOMAIN mapping \cap DOMAIN liveValues
       /\ liveValues[Restart(c)] = {}

\* A slot, and a call that is left to do.
SlotType == [value : Values, candidates : SUBSET (Values \X Nat)]
WorkType == {"value", "pointer"} \X Values

\* One label's slots are in order: a slot's sizes, its targets and the slots its
\* candidates name come before it, and its value does not.
Before(q, v, i) == \E j \in 1 .. i - 1 : q[j].value = v
InOrder(q) ==
  \A i \in DOMAIN q :
    /\ ~Before(q, q[i].value, i)
    /\ \A w \in SizesOf(q[i].value)
               \cup (IF q[i].candidates = {} THEN {} ELSE program.aliases[q[i].value]) :
         Before(q, w, i)
    /\ \A c \in q[i].candidates : c[2] + 1 \in 1 .. i - 1 /\ q[c[2] + 1].value = c[1]

\* What has to have a slot before v gets one.
Needed(v) == SizesOf(v) \cup (IF program.kind[v] \in Derives THEN Targets(v) ELSE {})

\* A pointer waits in work for its sizes and its targets, which come before it.
WorkInOrder ==
  /\ work \in Seq(WorkType)
  /\ work # << >> => slots # << >>
  /\ \A k \in DOMAIN work : work[k][1] = "pointer" =>
       \A w \in SizesOf(work[k][2]) \cup Targets(work[k][2]) : Ready(w, k)

\* What is live in a labelled block has a slot, or has still to come in work.
LiveReady ==
  \A l \in DOMAIN slots : \A u \in live[labels[l]] :
    \/ \E i \in DOMAIN slots[l] : slots[l][i].value = u.value
    \/ l = Len(slots) /\ \E j \in DOMAIN work : work[j][2] = u.value

\* The node of a restart block maps what it restores to its own call.
Restored ==
  \A l \in DOMAIN slots : \A i \in DOMAIN slots[l] :
    LET r == Restart(labels[l])
    IN  /\ slots[l][i].value \in DOMAIN mapping[r]
        /\ mapping[r][slots[l][i].value] = Version(slots[l][i].value, r)

\* So are those of every label.
AllInOrder == \A l \in DOMAIN slots : InOrder(slots[l])

\* The invariant of the blocks and of what fills them.
SlotsInv ==
  /\ step # "analysis" => phase = "done"
  /\ step \in {"analysis", "unchanged"} => labels = << >>
  /\ step \in {"analysis", "unchanged", "blocks"} => slots = << >> /\ work = << >>
  /\ step \notin {"analysis", "unchanged"} => Labelled
  /\ slots \in Seq(Seq(SlotType)) /\ Len(slots) <= Len(labels)
  /\ step = "fill" => WorkInOrder
  /\ step \in {"phis", "update", "cleanup", "run"} => work = << >> /\ Len(slots) = Len(labels)
  /\ AllInOrder /\ LiveReady /\ Restored

----------------------------------------------------------------------------
(* Lemmas *)

\* A set of values is walked over once and to its end.
LEMMA InAddressOrderIs ==
  ASSUME program \in Programs, NEW S
  PROVE  /\ InAddressOrder(S) \in Seq(Values \cap S)
         /\ \A v \in Values \cap S : \E i \in DOMAIN InAddressOrder(S) : InAddressOrder(S)[i] = v
  <1>1. program.addresses \in Seq(Values) /\ Values = {program.addresses[i] : i \in DOMAIN program.addresses}
    BY TransformationAssumption DEF Range
  <1> QED BY <1>1, WalkIs DEF InAddressOrder

\* The calls for a set of values.
LEMMA CallsIs ==
  ASSUME program \in Programs, NEW S \in SUBSET Values
  PROVE  /\ Calls(S) \in Seq(WorkType)
         /\ \A k \in DOMAIN Calls(S) : Calls(S)[k][1] = "value" /\ Calls(S)[k][2] \in S
         /\ \A v \in S : \E k \in DOMAIN Calls(S) : Calls(S)[k][2] = v
  <1> DEFINE seq == InAddressOrder(S)
  <1>1. seq \in Seq(Values \cap S) /\ \A v \in S : \E i \in DOMAIN seq : seq[i] = v
    BY InAddressOrderIs
  <1>2. Calls(S) = [i \in DOMAIN seq |-> <<"value", seq[i]>>]
    BY DEF Calls
  <1> HIDE DEF seq
  <1>3. Calls(S) \in Seq(WorkType)
    <2>1. \A i \in 1 .. Len(seq) : <<"value", seq[i]>> \in WorkType
      BY <1>1 DEF WorkType
    <2> QED BY <1>1, <1>2, <2>1
  <1> QED BY <1>1, <1>2, <1>3

\* Sizes and targets are values.
LEMMA SizesTyped ==
  ASSUME program \in Programs, NEW v \in Values
  PROVE  SizesOf(v) \subseteq Values /\ Targets(v) \subseteq Values
  BY ProgramsAssumption DEF SizesOf, Targets

\* The slot of a value names the candidates' slots, where they have one.
LEMMA SlotIs ==
  ASSUME program \in Programs, NEW v \in Values, Last(slots) \in Seq(SlotType)
  PROVE  /\ Slot(v) \in SlotType /\ Slot(v).value = v
         /\ Slot(v).candidates # {} => program.kind[v] \in Derives
         /\ \A c \in Slot(v).candidates :
              /\ c[1] \in program.aliases[v]
              /\ HasSlot(c[1]) => /\ c[2] + 1 \in DOMAIN Last(slots)
                                  /\ Last(slots)[c[2] + 1].value = c[1]
  <1> DEFINE q == Last(slots)
             cands == IF program.kind[v] \in Derives
                      THEN {<<w, IndexOf(w)>> : w \in program.aliases[v]} ELSE {}
  <1>1. Slot(v) = [value |-> v, candidates |-> cands]
    BY DEF Slot
  <1>2. ASSUME NEW w \in Values
        PROVE  /\ IndexOf(w) \in Nat
               /\ HasSlot(w) => IndexOf(w) + 1 \in DOMAIN q /\ q[IndexOf(w) + 1].value = w
    <2>1. CASE HasSlot(w)
      <3> DEFINE i == CHOOSE j \in DOMAIN q : q[j].value = w
      <3>1. i \in DOMAIN q /\ q[i].value = w
        BY <2>1 DEF HasSlot
      <3>2. IndexOf(w) = i - 1
        BY <2>1 DEF IndexOf
      <3> HIDE DEF i, q
      <3>3. DOMAIN q = 1 .. Len(q) /\ Len(q) \in Nat
        BY DEF q
      <3> QED BY <3>1, <3>2, <3>3
    <2>2. CASE ~HasSlot(w)
      BY <2>2 DEF IndexOf
    <2> QED BY <2>1, <2>2
  <1>3. program.aliases[v] \in SUBSET Values
    BY ProgramsAssumption
  <1>4. cands \in SUBSET (Values \X Nat)
    BY <1>2, <1>3
  <1>5. cands # {} => program.kind[v] \in Derives
    OBVIOUS
  <1>6. \A c \in cands : \E w \in program.aliases[v] : c = <<w, IndexOf(w)>>
    OBVIOUS
  <1> HIDE DEF cands, q
  <1>7. \A c \in cands : c[1] \in program.aliases[v] /\ c[2] = IndexOf(c[1])
    BY <1>6
  <1>8. Slot(v) \in SlotType /\ Slot(v).value = v /\ Slot(v).candidates = cands
    BY <1>1, <1>4 DEF SlotType
  <1> QED BY <1>2, <1>3, <1>5, <1>7, <1>8 DEF q

\* One slot more, of a value that has none and whose sizes and targets have, keeps
\* the slots of a label in order.
LEMMA GrownInOrder ==
  ASSUME program \in Programs, NEW v \in Values, NEW q, q = Last(slots),
         q \in Seq(SlotType), InOrder(q), ~HasSlot(v),
         \A w \in Needed(v) : HasSlot(w)
  PROVE  InOrder(Append(q, Slot(v)))
  <1> DEFINE s == Slot(v)
             r == Append(q, s)
             n == Len(q) + 1
  <1>1. s \in SlotType /\ s.value = v /\ (s.candidates # {} => program.kind[v] \in Derives)
    BY SlotIs
  <1>2. \A c \in s.candidates : /\ c[1] \in program.aliases[v]
                                /\ HasSlot(c[1]) => c[2] + 1 \in DOMAIN q /\ q[c[2] + 1].value = c[1]
    BY SlotIs
  <1> HIDE DEF s
  <1>3. /\ r \in Seq(SlotType) /\ DOMAIN r = 1 .. n /\ n \in Nat \ {0} /\ r[n] = s
        /\ DOMAIN q = 1 .. n - 1 /\ \A i \in 1 .. n - 1 : r[i] = q[i]
    BY <1>1
  <1> HIDE DEF r, n
  <1>4. \A w : HasSlot(w) <=> Before(r, w, n)
    BY <1>3 DEF HasSlot, Before
  <1>5. \A i \in 1 .. n - 1 : \A w : Before(r, w, i) <=> Before(q, w, i)
    BY <1>3 DEF Before
  <1>6. ASSUME NEW i \in DOMAIN r
        PROVE  /\ ~Before(r, r[i].value, i)
               /\ \A w \in SizesOf(r[i].value)
                    \cup (IF r[i].candidates = {} THEN {} ELSE program.aliases[r[i].value]) :
                    Before(r, w, i)
               /\ \A c \in r[i].candidates : c[2] + 1 \in 1 .. i - 1 /\ r[c[2] + 1].value = c[1]
    <2>1. CASE i = n
      <3>1. ~Before(r, v, n)
        BY <1>4
      <3>2. s.candidates # {} => \A w \in program.aliases[v] : HasSlot(w)
        BY <1>1, TransformationAssumption DEF Targets, Needed
      <3>3. \A w \in SizesOf(v) \cup (IF s.candidates = {} THEN {} ELSE program.aliases[v]) :
              HasSlot(w)
        BY <3>2 DEF Needed
      <3>4. ASSUME NEW c \in s.candidates
            PROVE  c[2] + 1 \in 1 .. n - 1 /\ r[c[2] + 1].value = c[1]
        <4>1. HasSlot(c[1])
          BY <1>2, <3>2
        <4> QED BY <1>2, <1>3, <4>1
      <3> QED BY <1>1, <1>3, <1>4, <2>1, <3>1, <3>3, <3>4
    <2>2. CASE i \in 1 .. n - 1
      <3>1. /\ ~Before(q, q[i].value, i)
            /\ \A w \in SizesOf(q[i].value)
                 \cup (IF q[i].candidates = {} THEN {} ELSE program.aliases[q[i].value]) :
                 Before(q, w, i)
            /\ \A c \in q[i].candidates : c[2] + 1 \in 1 .. i - 1 /\ q[c[2] + 1].value = c[1]
        BY <1>3, <2>2 DEF InOrder
      <3>2. \A c \in q[i].candidates : r[c[2] + 1] = q[c[2] + 1]
        BY <1>3, <2>2, <3>1
      <3> QED BY <1>3, <1>5, <2>2, <3>1, <3>2
    <2> QED BY <1>3, <2>1, <2>2
  <1> QED BY <1>6 DEF InOrder, r, s

\* A label's slots have one for v.
Has(q, v) == \E i \in DOMAIN q : q[i].value = v

\* The restart blocks of two labels are different.
LEMMA RestartsDiffer ==
  ASSUME LiveInv, Labelled
  PROVE  /\ \A l \in DOMAIN labels : labels[l] \in checkpointBlocks /\ labels[l] \in Range(labels)
         /\ \A k, l \in DOMAIN labels : Restart(labels[k]) = Restart(labels[l]) => k = l
  <1>1. \A l \in DOMAIN labels : labels[l] \in checkpointBlocks /\ labels[l] \in Range(labels)
    BY DEF Labelled, Range
  <1>2. \A c, d \in checkpointBlocks : Restart(c) = Restart(d) => c = d
    BY AddedBlocks
  <1> QED BY <1>1, <1>2 DEF Labelled

\* Putting a value's calls into both blocks, once its sizes and its targets have
\* theirs.
LEMMA AddSlotOnceKeeps ==
  ASSUME SlotsInv, LiveInv, program \in Programs, step = "fill", slots # << >>,
         NEW v \in Values, \A w \in Needed(v) : HasSlot(w), AddSlotOnce(v), labels' = labels
  PROVE  /\ slots' \in Seq(Seq(SlotType)) /\ Len(slots') = Len(slots)
         /\ \A l \in DOMAIN slots : InOrder(slots'[l])
         /\ \A l \in DOMAIN slots : \A w : Has(slots[l], w) => Has(slots'[l], w)
         /\ Has(slots'[Len(slots)], v)
         /\ Restored' /\ DOMAIN mapping' = DOMAIN mapping
  <1> DEFINE n == Len(slots)
             q == Last(slots)
             r == Restart(labels[n])
  <1>1. /\ slots \in Seq(Seq(SlotType)) /\ n \in Nat \ {0} /\ DOMAIN slots = 1 .. n
        /\ n \in DOMAIN labels /\ DOMAIN slots \subseteq DOMAIN labels
        /\ \A l \in DOMAIN slots : InOrder(slots[l])
        /\ Labelled /\ Restored /\ labels \in Seq(checkpointBlocks)
    BY DEF SlotsInv, Labelled, AllInOrder
  <1>2. q = slots[n] /\ q \in Seq(SlotType) /\ InOrder(q)
    BY <1>1, SMTT(30) DEF Last
  <1>3. r \in DOMAIN mapping
    BY <1>1, RestartsDiffer DEF Labelled
  <1>4. CASE HasSlot(v)
    <2>1. UNCHANGED <<slots, mapping>>
      BY <1>4 DEF AddSlotOnce
    <2>2. Restored'
      BY <1>1, <2>1 DEF Restored, Restart, Version
    <2> QED BY <1>1, <1>2, <1>4, <2>1, <2>2 DEF HasSlot, Has
  <1>5. CASE ~HasSlot(v)
    <2> DEFINE t == Append(q, Slot(v))
    <2>1. /\ slots' = [slots EXCEPT ![n] = t]
          /\ mapping' = [mapping EXCEPT ![r] = Insert([w \in {v} |-> Version(w, r)], @)]
      BY <1>2, <1>5 DEF AddSlotOnce, AddSlot, Filled
    <2>2. InOrder(t)
      BY <1>2, <1>5, GrownInOrder
    <2>3. Slot(v) \in SlotType /\ Slot(v).value = v
      BY <1>2, SlotIs
    <2>4. /\ t \in Seq(SlotType) /\ DOMAIN t = 1 .. Len(q) + 1 /\ t[Len(q) + 1] = Slot(v)
          /\ \A i \in DOMAIN q : i \in DOMAIN t /\ t[i] = q[i]
          /\ \A i \in DOMAIN t : i \in DOMAIN q \/ i = Len(q) + 1
          /\ Len(q) + 1 \in DOMAIN t
      BY <1>2, <2>3
    <2> HIDE DEF t, q, n, r
    <2>5. /\ slots' \in Seq(Seq(SlotType)) /\ Len(slots') = n /\ slots'[n] = t
          /\ DOMAIN slots' = 1 .. n
          /\ \A l \in DOMAIN slots : l # n => slots'[l] = slots[l]
      BY <1>1, <2>1, <2>4
    <2>6. \A l \in DOMAIN slots : \A w : Has(slots[l], w) => Has(slots'[l], w)
      BY <1>2, <2>4, <2>5 DEF Has
    <2>7. DOMAIN mapping' = DOMAIN mapping /\ \A m \in DOMAIN mapping : m # r => mapping'[m] = mapping[m]
      BY <2>1
    <2>8. mapping'[r] = Insert([w \in {v} |-> Version(w, r)], mapping[r])
      BY <1>3, <2>1
    <2>9. /\ v \in DOMAIN mapping'[r] /\ mapping'[r][v] = Version(v, r)
          /\ \A w \in DOMAIN mapping[r] : w \in DOMAIN mapping'[r]
               /\ (w # v => mapping'[r][w] = mapping[r][w])
      BY <2>8 DEF Insert
    <2>10. ASSUME NEW l \in DOMAIN slots, NEW i \in DOMAIN slots'[l]
           PROVE  LET m == Restart(labels[l])
                      w == slots'[l][i].value
                  IN  w \in DOMAIN mapping'[m] /\ mapping'[m][w] = Version(w, m)
      <3> DEFINE m == Restart(labels[l])
                 w == slots'[l][i].value
      <3>1. CASE l # n
        <4>1. slots'[l] = slots[l] /\ m # r
          BY <1>1, <2>5, <3>1, RestartsDiffer DEF r
        <4>2. m \in DOMAIN mapping
          BY <1>1, RestartsDiffer DEF Labelled
        <4>3. w \in DOMAIN mapping[m] /\ mapping[m][w] = Version(w, m)
          BY <1>1, <4>1 DEF Restored
        <4> QED BY <2>7, <4>1, <4>2, <4>3
      <3>2. CASE l = n /\ i \in DOMAIN q
        <4>1. m = r /\ w = slots[n][i].value /\ i \in DOMAIN slots[n]
          BY <1>2, <2>4, <2>5, <3>2 DEF r
        <4>2. w \in DOMAIN mapping[r] /\ mapping[r][w] = Version(w, r)
          BY <1>1, <3>2, <4>1 DEF Restored
        <4> QED BY <2>9, <4>1, <4>2
      <3>3. CASE l = n /\ i = Len(q) + 1
        <4>1. m = r /\ w = v
          BY <2>3, <2>4, <2>5, <3>3 DEF r
        <4> QED BY <2>9, <4>1
      <3> QED BY <2>4, <2>5, <3>1, <3>2, <3>3
    <2>11. Restored'
      BY <1>1, <2>5, <2>10 DEF Restored, Restart, Version
    <2>12. Has(slots'[n], v)
      BY <2>3, <2>4, <2>5 DEF Has
    <2>13. \A l \in DOMAIN slots : InOrder(slots'[l])
      BY <1>1, <2>2, <2>5
    <2> QED BY <2>5, <2>6, <2>7, <2>11, <2>12, <2>13 DEF n
  <1> QED BY <1>4, <1>5

----------------------------------------------------------------------------
(* The invariant *)

\* No step of the pass but those of the analysis changes what these are about.
LEMMA SameAnalysis ==
  ASSUME UNCHANGED analysis
  PROVE  /\ UNCHANGED <<phase, program, order, live, checkpointBlocks>> /\ UNCHANGED vars
         /\ Nodes' = Nodes
         /\ \A v : SizesOf(v)' = SizesOf(v) /\ Targets(v)' = Targets(v) /\ Needed(v)' = Needed(v)
  <1>1. UNCHANGED <<phase, program, order, live, checkpointBlocks>> /\ UNCHANGED vars
    BY DEF analysis, vars, function, nodes
  <1>2. \A v : SizesOf(v)' = SizesOf(v) /\ Targets(v)' = Targets(v) /\ Needed(v)' = Needed(v)
    BY <1>1 DEF SizesOf, Targets, Needed
  <1> QED BY <1>1, <1>2 DEF Nodes

\* What order is does not change either.
LEMMA StillInOrder ==
  ASSUME UNCHANGED analysis, \A l \in DOMAIN slots' : InOrder(slots'[l])
  PROVE  AllInOrder'
  <1>1. program' = program
    BY SameAnalysis
  <1> QED BY <1>1 DEF AllInOrder, InOrder, SizesOf, Before

\* What is live in a block are instructions and arguments.
LEMMA LiveTyped ==
  ASSUME SetsInv, phase = "done", NEW n \in Nodes
  PROVE  n \in DOMAIN live /\ {u.value : u \in live[n]} \in SUBSET Values
  <1>1. live = in /\ in[n] \in NodeUses /\ DOMAIN in = Nodes
    BY DEF SetsInv, LiveInv, SolvedSoFar, Recorded
  <1>2. \A u \in live[n] : u.value \in Values
    BY <1>1 DEF NodeUses, NodeUse
  <1> QED BY <1>1, <1>2

\* Before the analysis there are no labels.
LEMMA SlotsInit == PassInit => SlotsInv
  BY DEF PassInit, SlotsInv, AllInOrder, LiveReady, Restored

\* The analysis of main comes before any of the blocks.
LEMMA AnalyseSlots ==
  ASSUME SlotsInv, Analyse
  PROVE  SlotsInv'
  BY DEF Analyse, SlotsInv, AllInOrder, plan, LiveReady, Restored

\* The transformation starts with what the analysis has found live.
LEMMA StartSlots ==
  ASSUME SlotsInv, SetsInv, AddCheckpointsToFunction
  PROVE  SlotsInv'
  <1>1. /\ step = "analysis" /\ phase = "done" /\ step' \in {"unchanged", "blocks"}
        /\ labels' = << >> /\ slots' = << >> /\ work' = << >> /\ liveValues' = live
        /\ labels = << >> /\ slots = << >> /\ UNCHANGED analysis
    BY DEF AddCheckpointsToFunction, SlotsInv, plan
  <1>2. Nodes' = Nodes /\ UNCHANGED <<phase, live, checkpointBlocks>>
    BY <1>1, SameAnalysis
  <1>3. Nodes \subseteq DOMAIN live
    BY <1>1, LiveTyped
  <1>4. Labelled'
    <2>1. labels' \in Seq(checkpointBlocks') /\ Range(labels') = {} /\ DOMAIN labels' = {}
      BY <1>1 DEF Range
    <2> QED BY <1>1, <1>2, <1>3, <2>1 DEF Labelled
  <1>5. slots' \in Seq(Seq(SlotType)) /\ Len(slots') <= Len(labels') /\ DOMAIN slots' = {}
    BY <1>1
  <1>6. LiveReady' /\ Restored' /\ AllInOrder'
    BY <1>5 DEF LiveReady, Restored, AllInOrder
  <1> QED BY <1>1, <1>2, <1>4, <1>5, <1>6 DEF SlotsInv

\* Another label's blocks.
LEMMA CreateSlots ==
  ASSUME SlotsInv, SetsInv, CreateCheckpointAndRestartBlocks
  PROVE  SlotsInv'
  <1>1. PICK n \in checkpointBlocks \ Range(labels) : \E g, h :
          /\ labels' = Append(labels, n)
          /\ DOMAIN g = {Checkpoint(n), Restart(n)} /\ g[Restart(n)] = {}
          /\ DOMAIN h = {Checkpoint(n), Restart(n)}
          /\ liveValues' = Insert(g, liveValues) /\ mapping' = Insert(h, mapping)
    <2>1. PICK n \in checkpointBlocks \ Range(labels) :
            LET added  == {Checkpoint(n), Restart(n)}
                values == {u.value : u \in liveValues[n]}
            IN  /\ labels' = Append(labels, n)
                /\ liveValues' = Insert([m \in added |->
                       IF m = Restart(n) THEN {} ELSE LiveAtCheckpoint(n)], liveValues)
                /\ mapping' = Insert([m \in added |-> Identity(values)], mapping)
      BY DEF CreateCheckpointAndRestartBlocks
    <2> DEFINE added == {Checkpoint(n), Restart(n)}
               g == [m \in added |-> IF m = Restart(n) THEN {} ELSE LiveAtCheckpoint(n)]
               h == [m \in added |-> Identity({u.value : u \in liveValues[n]})]
    <2>2. /\ labels' = Append(labels, n) /\ liveValues' = Insert(g, liveValues)
          /\ mapping' = Insert(h, mapping)
      BY <2>1
    <2>3. DOMAIN g = added /\ DOMAIN h = added /\ g[Restart(n)] = {}
      OBVIOUS
    <2> HIDE DEF g, h
    <2> QED BY <2>2, <2>3
  <1>2. PICK g, h :
          /\ labels' = Append(labels, n)
          /\ DOMAIN g = {Checkpoint(n), Restart(n)} /\ g[Restart(n)] = {}
          /\ DOMAIN h = {Checkpoint(n), Restart(n)}
          /\ liveValues' = Insert(g, liveValues) /\ mapping' = Insert(h, mapping)
    BY <1>1
  <1>3. /\ step = "blocks" /\ step' = "blocks" /\ Labelled /\ phase = "done"
        /\ slots = << >> /\ work = << >> /\ slots' = << >> /\ work' = << >>
        /\ UNCHANGED analysis
    BY DEF CreateCheckpointAndRestartBlocks, SlotsInv
  <1>4. Nodes' = Nodes /\ UNCHANGED <<phase, live, checkpointBlocks>>
    BY <1>3, SameAnalysis
  <1>5. LiveInv
    BY DEF SetsInv
  <1>6. labels \in Seq(checkpointBlocks)
    BY <1>3 DEF Labelled
  <1>7. /\ labels' \in Seq(checkpointBlocks) /\ DOMAIN labels' = 1 .. Len(labels) + 1
        /\ Len(labels) \in Nat /\ DOMAIN labels = 1 .. Len(labels)
        /\ labels'[Len(labels) + 1] = n
        /\ \A i \in DOMAIN labels : labels'[i] = labels[i]
        /\ Len(labels') = Len(labels) + 1
    BY <1>2, <1>6
  <1>8. \A i, j \in DOMAIN labels' : labels'[i] = labels'[j] => i = j
    <2>1. \A i \in DOMAIN labels : labels[i] # n
      BY <1>1 DEF Range
    <2>2. \A i, j \in DOMAIN labels : labels[i] = labels[j] => i = j
      BY <1>3 DEF Labelled
    <2> QED BY <1>7, <2>1, <2>2
  <1>9. Range(labels') = Range(labels) \cup {n} /\ Range(labels) \subseteq checkpointBlocks
    <2>1. Range(labels) \subseteq checkpointBlocks
      BY <1>6 DEF Range
    <2> QED BY <1>7, <2>1 DEF Range
  <1>10. /\ \A m \in Nodes : m \notin {Checkpoint(n), Restart(n)}
         /\ \A c \in Range(labels) : Restart(c) \notin {Checkpoint(n), Restart(n)}
    BY <1>1, <1>5, <1>9, AddedBlocks
  <1>11. Nodes \subseteq DOMAIN liveValues' /\ \A m \in Nodes : liveValues'[m] = live[m]
    BY <1>2, <1>3, <1>10 DEF Labelled, Insert
  <1>12. ASSUME NEW c \in Range(labels')
         PROVE  /\ Restart(c) \in DOMAIN mapping' \cap DOMAIN liveValues'
                /\ liveValues'[Restart(c)] = {}
    <2>1. CASE c = n
      BY <1>2, <2>1 DEF Insert
    <2>2. CASE c \in Range(labels)
      <3>1. /\ Restart(c) \in DOMAIN mapping \cap DOMAIN liveValues
            /\ liveValues[Restart(c)] = {}
        BY <1>3, <2>2 DEF Labelled
      <3>2. Restart(c) \notin DOMAIN g
        BY <1>2, <1>10, <2>2
      <3> QED BY <1>2, <3>1, <3>2 DEF Insert
    <2> QED BY <1>9, <2>1, <2>2
  <1>13. Labelled'
    BY <1>4, <1>7, <1>8, <1>11, <1>12 DEF Labelled, Restart
  <1>14. slots' \in Seq(Seq(SlotType)) /\ Len(slots') <= Len(labels') /\ DOMAIN slots' = {}
    BY <1>3, <1>7
  <1>15. LiveReady' /\ Restored' /\ AllInOrder'
    BY <1>14 DEF LiveReady, Restored, AllInOrder
  <1> QED BY <1>3, <1>4, <1>13, <1>14, <1>15 DEF SlotsInv

\* The switch at the entry; filling begins.
LEMMA EntrySlots ==
  ASSUME SlotsInv, SetsInv, InsertRestartBlock
  PROVE  SlotsInv'
  <1>1. /\ step = "blocks" /\ step' = "fill" /\ Labelled /\ phase = "done"
        /\ slots = << >> /\ work = << >> /\ slots' = << >> /\ work' = << >>
        /\ UNCHANGED <<analysis, labels>>
        /\ liveValues' = Insert([m \in {NoCREntry} |-> {}], liveValues)
        /\ mapping' = Insert([m \in {NoCREntry} |-> MappedAtNoCREntry], mapping)
    BY DEF InsertRestartBlock, SlotsInv, plan
  <1>2. Nodes' = Nodes /\ UNCHANGED <<phase, live, checkpointBlocks, labels>>
    BY <1>1, SameAnalysis
  <1>3. NoCREntry \notin Nodes /\ \A n : NoCREntry # Restart(n)
    BY AddedBlocks DEF SetsInv
  <1>4. Labelled'
    BY <1>1, <1>2, <1>3 DEF Labelled, Insert, Restart
  <1>5. /\ slots' \in Seq(Seq(SlotType)) /\ Len(slots') <= Len(labels') /\ DOMAIN slots' = {}
        /\ work' \in Seq(WorkType) /\ DOMAIN work' = {}
    BY <1>1, <1>2 DEF SlotsInv
  <1>6. LiveReady' /\ Restored' /\ WorkInOrder' /\ AllInOrder'
    BY <1>1, <1>5 DEF LiveReady, Restored, WorkInOrder, AllInOrder
  <1> QED BY <1>1, <1>2, <1>4, <1>5, <1>6 DEF SlotsInv

\* The next label begins with a call for each value that is live there.
LEMMA FillNextSlots ==
  ASSUME SlotsInv, SetsInv, FillNextBlock
  PROVE  SlotsInv'
  <1> DEFINE n == Len(slots) + 1
             S == {u.value : u \in liveValues[labels[n]]}
  <1>1. /\ step = "fill" /\ step' = "fill" /\ work = << >> /\ Len(slots) < Len(labels)
        /\ slots' = Append(slots, << >>) /\ work' = Calls(S)
        /\ UNCHANGED <<analysis, labels, liveValues, mapping>>
    BY DEF FillNextBlock, transformed
  <1>2. /\ Labelled /\ phase = "done" /\ slots \in Seq(Seq(SlotType)) /\ labels \in Seq(checkpointBlocks)
        /\ \A l \in DOMAIN slots : InOrder(slots[l])
        /\ LiveReady /\ Restored /\ program \in Programs /\ checkpointBlocks \subseteq Nodes
    BY <1>1 DEF SlotsInv, AllInOrder, Labelled, SetsInv, Coded, LiveInv, Named
  <1>3. Nodes' = Nodes /\ UNCHANGED <<phase, live, checkpointBlocks, labels, liveValues>>
    BY <1>1, SameAnalysis
  <1>4. n \in DOMAIN labels /\ DOMAIN slots \subseteq DOMAIN labels /\ Len(slots) \in Nat
    BY <1>1, <1>2
  <1>5. labels[n] \in Nodes /\ liveValues[labels[n]] = live[labels[n]]
    BY <1>2, <1>4 DEF Labelled
  <1>6. S \in SUBSET Values
    BY <1>2, <1>5, LiveTyped
  <1> HIDE DEF S
  <1>7. /\ work' \in Seq(WorkType)
        /\ \A k \in DOMAIN work' : work'[k][1] = "value" /\ work'[k][2] \in S
        /\ \A v \in S : \E k \in DOMAIN work' : work'[k][2] = v
    BY <1>1, <1>2, <1>6, CallsIs
  <1>8. /\ slots' \in Seq(Seq(SlotType)) /\ Len(slots') = n /\ DOMAIN slots' = DOMAIN slots \cup {n}
        /\ slots' # << >> /\ slots'[n] = << >> /\ n \notin DOMAIN slots
        /\ \A l \in DOMAIN slots : slots'[l] = slots[l]
    BY <1>1, <1>2
  <1>9. WorkInOrder'
    BY <1>7, <1>8 DEF WorkInOrder
  <1>10. Labelled'
    BY <1>1, <1>2, <1>3 DEF Labelled, Restart
  <1>11. LiveReady'
    <2> SUFFICES ASSUME NEW l \in DOMAIN slots', NEW u \in live[labels[l]]
                 PROVE  \/ \E i \in DOMAIN slots'[l] : slots'[l][i].value = u.value
                        \/ l = Len(slots') /\ \E j \in DOMAIN work' : work'[j][2] = u.value
      BY <1>3 DEF LiveReady
    <2>1. CASE l \in DOMAIN slots
      <3>1. DOMAIN work = {}
        BY <1>1
      <3>2. \E i \in DOMAIN slots[l] : slots[l][i].value = u.value
        BY <1>2, <2>1, <3>1 DEF LiveReady
      <3> QED BY <1>8, <2>1, <3>2
    <2>2. CASE l = n
      <3>1. u.value \in S
        BY <1>5, <2>2 DEF S
      <3> QED BY <1>7, <1>8, <2>2, <3>1
    <2> QED BY <1>8, <2>1, <2>2
  <1>12. Restored'
    <2>1. DOMAIN slots'[n] = {}
      BY <1>8
    <2>2. \A l \in DOMAIN slots' : \A i \in DOMAIN slots'[l] :
            l \in DOMAIN slots /\ slots'[l] = slots[l]
      BY <1>8, <2>1
    <2>3. mapping' = mapping /\ labels' = labels
      BY <1>1, <1>3
    <2> QED BY <1>2, <2>2, <2>3 DEF Restored, Restart, Version
  <1>13. AllInOrder'
    <2>1. InOrder(slots'[n])
      BY <1>8 DEF InOrder
    <2>2. \A l \in DOMAIN slots' : InOrder(slots'[l])
      BY <1>2, <1>8, <2>1
    <2> QED BY <1>1, <2>2, StillInOrder
  <1>14. Len(slots') <= Len(labels')
    BY <1>3, <1>4, <1>8, <1>2
  <1> QED BY <1>1, <1>2, <1>3, <1>8, <1>9, <1>10, <1>11, <1>12, <1>13, <1>14 DEF SlotsInv

\* A step that takes the first call out of work, and puts others in its place or
\* gives its value a slot.
LEMMA WorkStep ==
  ASSUME SlotsInv, SetsInv, step = "fill", step' = "fill", work # << >>,
         UNCHANGED <<analysis, labels, liveValues>>, DOMAIN mapping' = DOMAIN mapping,
         slots' \in Seq(Seq(SlotType)), Len(slots') = Len(slots),
         \A l \in DOMAIN slots : InOrder(slots'[l]),
         \A l \in DOMAIN slots : \A w : Has(slots[l], w) => Has(slots'[l], w),
         Restored',
         NEW front \in Seq(WorkType), work' = front \o Tail(work),
         \/ Has(slots'[Len(slots)], Head(work)[2])
         \/ \E j \in DOMAIN front : front[j][2] = Head(work)[2],
         \A k \in DOMAIN front : front[k][1] = "pointer" =>
           \A w \in SizesOf(front[k][2]) \cup Targets(front[k][2]) :
             \E j \in 1 .. k - 1 : front[j][2] = w
  PROVE  SlotsInv'
  <1> DEFINE n == Len(slots)
             m == Len(front)
             v == Head(work)[2]
  <1>1. /\ Labelled /\ phase = "done" /\ slots \in Seq(Seq(SlotType)) /\ slots # << >>
        /\ WorkInOrder /\ work \in Seq(WorkType) /\ LiveReady /\ n <= Len(labels)
        /\ labels \in Seq(checkpointBlocks)
    BY DEF SlotsInv, WorkInOrder, Labelled
  <1>2. /\ Nodes' = Nodes /\ UNCHANGED <<phase, live, checkpointBlocks, labels, liveValues>>
        /\ \A w : SizesOf(w)' = SizesOf(w) /\ Targets(w)' = Targets(w)
    BY SameAnalysis
  <1>3. /\ n \in Nat \ {0} /\ DOMAIN slots = 1 .. n /\ DOMAIN slots' = 1 .. n
        /\ Last(slots) = slots[n] /\ Last(slots') = slots'[n] /\ slots' # << >>
    BY <1>1 DEF Last
  <1>4. /\ m \in Nat /\ DOMAIN front = 1 .. m
        /\ Len(work) \in Nat \ {0} /\ DOMAIN work = 1 .. Len(work) /\ v = work[1][2]
        /\ Tail(work) \in Seq(WorkType) /\ Len(Tail(work)) = Len(work) - 1
        /\ \A i \in 1 .. Len(work) - 1 : Tail(work)[i] = work[i + 1]
    BY <1>1
  <1>5. /\ work' \in Seq(WorkType) /\ DOMAIN work' = 1 .. m + (Len(work) - 1)
        /\ \A i \in 1 .. m : work'[i] = front[i]
        /\ \A i \in 2 .. Len(work) : work'[m + i - 1] = work[i]
    <2> DEFINE t == Tail(work)
    <2>1. /\ front \o t \in Seq(WorkType) /\ DOMAIN (front \o t) = 1 .. m + Len(t)
          /\ \A i \in 1 .. m : (front \o t)[i] = front[i]
          /\ \A i \in 1 .. Len(t) : (front \o t)[m + i] = t[i]
      BY <1>4
    <2>2. \A i \in 2 .. Len(work) : i - 1 \in 1 .. Len(t) /\ t[i - 1] = work[i] /\ m + (i - 1) = m + i - 1
      BY <1>4
    <2> HIDE DEF t
    <2>3. work' = front \o t /\ Len(t) = Len(work) - 1
      BY <1>4 DEF t
    <2> QED BY <2>1, <2>2, <2>3
  <1> HIDE DEF m, n, v
  <1>6. \A w, k : Ready(w, k) <=> Has(slots[n], w) \/ \E j \in 1 .. k - 1 : work[j][2] = w
    BY <1>3 DEF Ready, HasSlot, Has
  <1>7. \A w, k : Has(slots'[n], w) \/ (\E j \in 1 .. k - 1 : work'[j][2] = w) => Ready(w, k)'
    BY <1>3 DEF Ready, HasSlot, Has
  <1>8. \A w : Has(slots[n], w) => Has(slots'[n], w)
    BY <1>3
  <1>9. Has(slots'[n], v) \/ \E j \in 1 .. m : work'[j][2] = v
    BY <1>4, <1>5 DEF n, v
  <1>10. ASSUME NEW k \in DOMAIN work', work'[k][1] = "pointer",
                NEW w \in SizesOf(work'[k][2]) \cup Targets(work'[k][2])
         PROVE  Ready(w, k)'
    <2>1. CASE k \in 1 .. m
      <3>1. work'[k] = front[k] /\ k \in DOMAIN front
        BY <1>4, <1>5, <2>1
      <3>2. PICK j \in 1 .. k - 1 : front[j][2] = w
        BY <1>10, <3>1
      <3>3. work'[j] = front[j]
        BY <1>4, <1>5, <2>1
      <3> QED BY <1>7, <3>2, <3>3
    <2>2. CASE k > m
      <3> DEFINE i == k - m + 1
      <3>1. i \in 2 .. Len(work) /\ m + i - 1 = k
        BY <1>4, <1>5, <2>2, SMTT(30)
      <3> HIDE DEF i
      <3>2. work'[k] = work[i] /\ i \in DOMAIN work
        BY <1>4, <1>5, <3>1, SMTT(30)
      <3>3. Ready(w, i)
        BY <1>1, <1>10, <3>2 DEF WorkInOrder
      <3>4. CASE Has(slots[n], w)
        BY <1>7, <1>8, <3>4
      <3>5. ASSUME NEW j \in 1 .. i - 1, work[j][2] = w PROVE Ready(w, k)'
        <4>1. CASE j = 1
          <5>1. w = v
            BY <1>4, <3>5, <4>1
          <5>2. \A q \in 1 .. m : q \in 1 .. k - 1
            BY <1>4, <1>5, <2>2
          <5> QED BY <1>7, <1>9, <5>1, <5>2
        <4>2. CASE j # 1
          <5>1. j \in 2 .. Len(work) /\ m + j - 1 \in 1 .. k - 1
            BY <1>4, <3>1, <4>2, SMTT(30)
          <5>2. work'[m + j - 1][2] = w
            BY <1>5, <3>5, <5>1
          <5> QED BY <1>7, <5>1, <5>2
        <4> QED BY <4>1, <4>2
      <3> QED BY <1>6, <3>3, <3>4, <3>5
    <2> QED BY <1>4, <1>5, <2>1, <2>2
  <1>11. WorkInOrder'
    BY <1>2, <1>3, <1>5, <1>10 DEF WorkInOrder
  <1>12. LiveReady'
    <2> SUFFICES ASSUME NEW l \in DOMAIN slots', NEW u \in live[labels[l]]
                 PROVE  \/ Has(slots'[l], u.value)
                        \/ l = n /\ \E j \in DOMAIN work' : work'[j][2] = u.value
      BY <1>2 DEF LiveReady, Has, n
    <2>1. CASE Has(slots[l], u.value)
      BY <1>3, <2>1
    <2>2. ASSUME l = n, NEW j \in DOMAIN work, work[j][2] = u.value
          PROVE  \/ Has(slots'[l], u.value)
                 \/ l = n /\ \E k \in DOMAIN work' : work'[k][2] = u.value
      <3>1. CASE j = 1
        <4>1. u.value = v
          BY <1>4, <2>2, <3>1
        <4>2. \A k \in 1 .. m : k \in DOMAIN work'
          BY <1>4, <1>5
        <4> QED BY <1>9, <2>2, <4>1, <4>2
      <3>2. CASE j # 1
        <4>1. j \in 2 .. Len(work) /\ m + j - 1 \in DOMAIN work'
          <5>1. j \in 1 .. Len(work) /\ m \in Nat /\ Len(work) \in Nat
            BY <1>4
          <5>2. DOMAIN work' = 1 .. m + (Len(work) - 1)
            BY <1>5
          <5> QED BY <3>2, <5>1, <5>2, SMTT(30)
        <4>2. work'[m + j - 1][2] = u.value
          BY <1>5, <2>2, <4>1
        <4> QED BY <2>2, <4>1, <4>2
      <3> QED BY <3>1, <3>2
    <2>3. l \in DOMAIN slots
      BY <1>3
    <2>4. Has(slots[l], u.value) \/ (l = n /\ \E j \in DOMAIN work : work[j][2] = u.value)
      BY <1>1, <2>3 DEF LiveReady, Has, n
    <2> QED BY <2>1, <2>2, <2>4
  <1>13. Labelled'
    BY <1>1, <1>2 DEF Labelled, Restart
  <1>14. AllInOrder'
    BY <1>3, StillInOrder
  <1>15. Len(slots') <= Len(labels')
    BY <1>1, <1>2 DEF n
  <1> QED BY <1>1, <1>2, <1>11, <1>12, <1>13, <1>14, <1>15 DEF SlotsInv

\* What a call in work is about.
LEMMA HeadTyped ==
  ASSUME SlotsInv, SetsInv, step = "fill", work # << >>
  PROVE  /\ Head(work) \in WorkType /\ Head(work)[2] \in Values /\ program \in Programs
         /\ slots # << >> /\ slots \in Seq(Seq(SlotType))
         /\ << >> \o Tail(work) = Tail(work) /\ << >> \in Seq(WorkType)
         /\ \A l \in DOMAIN slots : InOrder(slots[l])
  <1>1. work \in Seq(WorkType) /\ slots # << >> /\ slots \in Seq(Seq(SlotType)) /\ AllInOrder
    BY DEF SlotsInv, WorkInOrder
  <1>2. Head(work) \in WorkType /\ Tail(work) \in Seq(WorkType)
    BY <1>1
  <1>3. << >> \o Tail(work) = Tail(work) /\ << >> \in Seq(WorkType)
    BY <1>2
  <1>4. Head(work)[2] \in Values
    BY <1>2 DEF WorkType
  <1> QED BY <1>1, <1>2, <1>3, <1>4 DEF SetsInv, Coded, AllInOrder

\* A value, or a pointer whose turn it is, gets its slot.
LEMMA SlotStep ==
  ASSUME SlotsInv, SetsInv, step = "fill", step' = "fill", work # << >>,
         UNCHANGED <<analysis, labels, liveValues>>,
         AddSlotOnce(Head(work)[2]), work' = Tail(work),
         \A w \in Needed(Head(work)[2]) : HasSlot(w)
  PROVE  SlotsInv'
  <1> DEFINE v == Head(work)[2]
  <1>1. /\ v \in Values /\ program \in Programs /\ slots # << >>
        /\ work' = << >> \o Tail(work) /\ << >> \in Seq(WorkType)
    BY HeadTyped
  <1>2. LiveInv
    BY DEF SetsInv
  <1> HIDE DEF v
  <1>3. AddSlotOnce(v) /\ \A w \in Needed(v) : HasSlot(w)
    BY DEF v
  <1>4. /\ slots' \in Seq(Seq(SlotType)) /\ Len(slots') = Len(slots)
        /\ \A l \in DOMAIN slots : InOrder(slots'[l])
        /\ \A l \in DOMAIN slots : \A w : Has(slots[l], w) => Has(slots'[l], w)
        /\ Has(slots'[Len(slots)], v)
        /\ Restored' /\ DOMAIN mapping' = DOMAIN mapping
    BY <1>1, <1>2, <1>3, AddSlotOnceKeeps
  <1>5. DOMAIN << >> = {}
    OBVIOUS
  <1> QED BY <1>1, <1>4, <1>5, WorkStep DEF v

\* A scalar needs no other value to have a slot.
LEMMA ScalarSlots ==
  ASSUME SlotsInv, SetsInv, RestoreScalar
  PROVE  SlotsInv'
  <1>1. /\ step = "fill" /\ step' = "fill" /\ work # << >> /\ work' = Tail(work)
        /\ program.kind[Head(work)[2]] = "scalar" /\ AddSlotOnce(Head(work)[2])
        /\ UNCHANGED <<analysis, labels, liveValues>>
    BY DEF RestoreScalar
  <1>2. Needed(Head(work)[2]) = {}
    BY <1>1 DEF Needed, SizesOf, Derives
  <1> QED BY <1>1, <1>2, SlotStep

\* A pointer whose turn it is: its sizes and its targets have their slots.
LEMMA PointerSlots ==
  ASSUME SlotsInv, SetsInv, RestorePointer
  PROVE  SlotsInv'
  <1>1. /\ step = "fill" /\ step' = "fill" /\ work # << >> /\ work' = Tail(work)
        /\ Head(work)[1] = "pointer" /\ AddSlotOnce(Head(work)[2])
        /\ UNCHANGED <<analysis, labels, liveValues>>
    BY DEF RestorePointer
  <1>2. work \in Seq(WorkType) /\ WorkInOrder
    BY <1>1 DEF SlotsInv, WorkInOrder
  <1>3. 1 \in DOMAIN work /\ Head(work) = work[1]
    BY <1>1, <1>2
  <1>4. \A w \in SizesOf(Head(work)[2]) \cup Targets(Head(work)[2]) : Ready(w, 1)
    BY <1>1, <1>2, <1>3 DEF WorkInOrder
  <1>5. \A w \in Needed(Head(work)[2]) : HasSlot(w)
    BY <1>4 DEF Needed, Ready
  <1> QED BY <1>1, <1>5, SlotStep

\* A pointer's sizes and its targets come first, then the pointer.
LEMMA ExpandSlots ==
  ASSUME SlotsInv, SetsInv, RestoreSizesAndAliases
  PROVE  SlotsInv'
  <1> DEFINE v == Head(work)[2]
             a == Calls(SizesOf(v))
             b == Calls(Targets(v))
             p == <<"pointer", v>>
             front == CallsFor(v)
  <1>1. /\ step = "fill" /\ step' = "fill" /\ work # << >> /\ work' = front \o Tail(work)
        /\ UNCHANGED <<analysis, labels, liveValues, slots, mapping>>
    BY DEF RestoreSizesAndAliases, transformed
  <1>2. v \in Values /\ program \in Programs /\ p \in WorkType
    BY <1>1, HeadTyped DEF WorkType
  <1>3. SizesOf(v) \in SUBSET Values /\ Targets(v) \in SUBSET Values
    BY <1>2, SizesTyped
  <1>4. /\ a \in Seq(WorkType) /\ b \in Seq(WorkType)
        /\ \A k \in DOMAIN a : a[k][1] = "value"
        /\ \A k \in DOMAIN b : b[k][1] = "value"
        /\ \A w \in SizesOf(v) : \E k \in DOMAIN a : a[k][2] = w
        /\ \A w \in Targets(v) : \E k \in DOMAIN b : b[k][2] = w
    BY <1>2, <1>3, CallsIs
  <1>5. front = a \o b \o <<p>>
    BY DEF CallsFor
  <1>6. p[1] = "pointer" /\ p[2] = v
    OBVIOUS
  <1> HIDE DEF a, b, p, front
  <1> DEFINE c == a \o b
             n == Len(c) + 1
  <1>7. /\ c \in Seq(WorkType) /\ DOMAIN c = 1 .. Len(a) + Len(b) /\ Len(c) = Len(a) + Len(b)
        /\ Len(a) \in Nat /\ Len(b) \in Nat
        /\ \A k \in DOMAIN a : k \in 1 .. Len(c) /\ c[k] = a[k]
        /\ \A k \in DOMAIN b : Len(a) + k \in 1 .. Len(c) /\ c[Len(a) + k] = b[k]
    BY <1>4
  <1>8. \A k \in DOMAIN c : k \in DOMAIN a \/ (k - Len(a) \in DOMAIN b /\ c[k] = b[k - Len(a)])
    BY <1>4, <1>7
  <1>9. \A k \in DOMAIN c : c[k][1] = "value"
    BY <1>4, <1>7, <1>8
  <1>10. \A w \in SizesOf(v) \cup Targets(v) : \E k \in 1 .. Len(c) : c[k][2] = w
    <2>1. ASSUME NEW w \in SizesOf(v) PROVE \E k \in 1 .. Len(c) : c[k][2] = w
      <3>1. PICK k \in DOMAIN a : a[k][2] = w
        BY <1>4
      <3> QED BY <1>7, <3>1
    <2>2. ASSUME NEW w \in Targets(v) PROVE \E k \in 1 .. Len(c) : c[k][2] = w
      <3>1. PICK k \in DOMAIN b : b[k][2] = w
        BY <1>4
      <3> HIDE DEF c
      <3>2. Len(a) + k \in 1 .. Len(c) /\ c[Len(a) + k][2] = w
        BY <1>7, <3>1
      <3> QED BY <3>2
    <2> QED BY <2>1, <2>2
  <1> HIDE DEF c
  <1>11. /\ front \in Seq(WorkType) /\ DOMAIN front = 1 .. n /\ front[n] = p /\ n \in Nat \ {0}
         /\ \A k \in 1 .. n - 1 : k \in DOMAIN c /\ front[k] = c[k]
    BY <1>2, <1>5, <1>7 DEF c
  <1> HIDE DEF n
  <1>12. ASSUME NEW k \in DOMAIN front, front[k][1] = "pointer",
                NEW w \in SizesOf(front[k][2]) \cup Targets(front[k][2])
         PROVE  \E j \in 1 .. k - 1 : front[j][2] = w
    <2>1. k = n
      BY <1>9, <1>11, <1>12
    <2>2. w \in SizesOf(v) \cup Targets(v)
      BY <1>6, <1>11, <1>12, <2>1
    <2>3. PICK j \in 1 .. Len(c) : c[j][2] = w
      BY <1>10, <2>2
    <2>4. j \in 1 .. n - 1
      BY <1>7 DEF n
    <2> QED BY <1>11, <2>1, <2>3, <2>4
  <1>13. n \in DOMAIN front /\ front[n][2] = v
    BY <1>6, <1>11
  <1>14. /\ slots \in Seq(Seq(SlotType)) /\ \A l \in DOMAIN slots : InOrder(slots[l])
    BY <1>1, HeadTyped
  <1>15. Restored'
    <2>1. Restored
      BY DEF SlotsInv
    <2> QED BY <1>1, <2>1 DEF Restored, Restart, Version
  <1>16. \E j \in DOMAIN front : front[j][2] = Head(work)[2]
    BY <1>13 DEF v
  <1>17. \A k \in DOMAIN front : front[k][1] = "pointer" =>
           \A w \in SizesOf(front[k][2]) \cup Targets(front[k][2]) :
             \E j \in 1 .. k - 1 : front[j][2] = w
    BY <1>12
  <1>18. /\ slots' \in Seq(Seq(SlotType)) /\ Len(slots') = Len(slots)
         /\ \A l \in DOMAIN slots : InOrder(slots'[l])
         /\ \A l \in DOMAIN slots : \A w : Has(slots[l], w) => Has(slots'[l], w)
         /\ DOMAIN mapping' = DOMAIN mapping
    BY <1>1, <1>14
  <1>19. front \in Seq(WorkType)
    BY <1>11
  <1> HIDE DEF v
  <1> QED BY <1>1, <1>15, <1>16, <1>17, <1>18, <1>19, WorkStep

\* The steps after the filling.
Fixing == {"phis", "update", "cleanup", "run"}

\* What changes no slots and no live values, wherever it leads to.
LEMMA KeepSlots ==
  ASSUME SlotsInv, UNCHANGED <<analysis, labels, slots, work, liveValues>>,
         DOMAIN mapping' = DOMAIN mapping, Restored',
         \/ step' = step
         \/ step = "analysis" /\ phase = "done" /\ step' = "unchanged"
         \/ step = "fill" /\ step' = "exited"
         \/ step = "fill" /\ step' = "phis" /\ work = << >> /\ Len(slots) = Len(labels)
         \/ step \in Fixing /\ step' \in Fixing \cup {"undefined"}
  PROVE  SlotsInv'
  <1>1. /\ Nodes' = Nodes /\ UNCHANGED <<phase, live, checkpointBlocks>>
        /\ \A w : SizesOf(w)' = SizesOf(w) /\ Targets(w)' = Targets(w)
    BY SameAnalysis
  <1>2. Labelled => Labelled'
    BY <1>1 DEF Labelled, Restart
  <1>3. LiveReady'
    <2>1. slots' = slots /\ work' = work /\ labels' = labels /\ live' = live /\ LiveReady
      BY <1>1 DEF SlotsInv
    <2> QED BY <2>1 DEF LiveReady
  <1>4. AllInOrder'
    BY StillInOrder DEF SlotsInv, AllInOrder
  <1>5. WorkInOrder => WorkInOrder'
    BY <1>1 DEF WorkInOrder, Ready, HasSlot, Last
  <1>6. /\ step' # "analysis" => phase' = "done"
        /\ step' \in {"analysis", "unchanged"} => labels' = << >>
        /\ step' \in {"analysis", "unchanged", "blocks"} => slots' = << >> /\ work' = << >>
        /\ step' \notin {"analysis", "unchanged"} => Labelled
        /\ step' = "fill" => WorkInOrder
        /\ step' \in Fixing => work' = << >> /\ Len(slots') = Len(labels')
    BY <1>1 DEF SlotsInv, Fixing
  <1>7. slots' \in Seq(Seq(SlotType)) /\ Len(slots') <= Len(labels')
    BY DEF SlotsInv
  <1> QED BY <1>2, <1>3, <1>4, <1>5, <1>6, <1>7 DEF SlotsInv, Fixing

\* The same slots and the same mappings.
LEMMA RestoredKept ==
  ASSUME Restored, UNCHANGED <<labels, slots, mapping>>
  PROVE  Restored'
  BY DEF Restored, Restart, Version

\* PHI nodes are mapped in blocks with live values, and a restart block has none.
LEMMA CreatePhisSlots ==
  ASSUME SlotsInv, SetsInv, CreatePhis
  PROVE  SlotsInv'
  <1>1. PICK i \in DOMAIN blocks :
          /\ WithLive(i)
          /\ mapping' = [mapping EXCEPT ![blocks[i]] = Insert(NewNames(blocks[i]), @)]
    BY DEF CreatePhis
  <1>2. /\ step = "phis" /\ step' = "phis" /\ UNCHANGED <<analysis, liveValues>>
        /\ UNCHANGED <<labels, slots, work>>
    BY DEF CreatePhis, plan
  <1>3. liveValues[blocks[i]] # {}
    BY <1>1 DEF WithLive
  <1>4. /\ Labelled /\ labels \in Seq(checkpointBlocks) /\ slots \in Seq(Seq(SlotType))
        /\ Len(slots) <= Len(labels) /\ Restored
    BY <1>2 DEF SlotsInv, Labelled
  <1>5. \A l \in DOMAIN slots : l \in DOMAIN labels
    BY <1>4
  <1>6. \A l \in DOMAIN slots : Restart(labels[l]) # blocks[i] /\ Restart(labels[l]) \in DOMAIN mapping
    BY <1>3, <1>4, <1>5 DEF Labelled, Range
  <1>7. \A l \in DOMAIN slots : mapping'[Restart(labels[l])] = mapping[Restart(labels[l])]
    BY <1>1, <1>6
  <1>8. Restored'
    BY <1>2, <1>4, <1>7 DEF Restored, Restart, Version
  <1>9. DOMAIN mapping' = DOMAIN mapping
    BY <1>1
  <1> QED BY <1>2, <1>8, <1>9, KeepSlots

\* The actions that map nothing, and leave slots and work as they are.
Unmapped ==
  \/ NotLinked \/ PointerNotSupported \/ AllFilled \/ AllCreated \/ UpdatePhis
  \/ NoMapping \/ CollectConstantPhis \/ RemovePhi \/ RepeatCleanUp \/ Fixed
  \/ RunBlock \/ RestartFromCheckpoint

\* They keep the invariant.
LEMMA UnmappedSlots ==
  ASSUME SlotsInv, Unmapped
  PROVE  SlotsInv'
  <1>1. /\ UNCHANGED <<analysis, labels, slots, work, liveValues, mapping>>
        /\ \/ step = "analysis" /\ phase = "done" /\ step' = "unchanged"
           \/ step = "fill" /\ step' = "exited"
           \/ step = "fill" /\ step' = "phis" /\ work = << >> /\ Len(slots) = Len(labels)
           \/ step \in Fixing /\ step' \in Fixing \cup {"undefined"}
    <2>1. CASE NotLinked
      BY <2>1 DEF NotLinked, transformed, plan
    <2>2. CASE PointerNotSupported
      BY <2>2 DEF PointerNotSupported, transformed, plan
    <2>3. CASE AllFilled
      BY <2>3 DEF AllFilled, transformed, plan
    <2>4. CASE AllCreated
      BY <2>4 DEF AllCreated, transformed, plan, Fixing
    <2>5. CASE UpdatePhis
      BY <2>5 DEF UpdatePhis, plan, Fixing
    <2>6. CASE NoMapping
      BY <2>6 DEF NoMapping, transformed, plan, Fixing
    <2>7. CASE CollectConstantPhis
      BY <2>7 DEF CollectConstantPhis, transformed, plan, Fixing
    <2>8. CASE RemovePhi
      BY <2>8 DEF RemovePhi, plan, Fixing
    <2>9. CASE RepeatCleanUp
      BY <2>9 DEF RepeatCleanUp, transformed, plan, Fixing
    <2>10. CASE Fixed
      BY <2>10 DEF Fixed, transformed, plan, Fixing
    <2>11. CASE RunBlock
      BY <2>11 DEF RunBlock, transformed, plan, Fixing
    <2>12. CASE RestartFromCheckpoint
      BY <2>12 DEF RestartFromCheckpoint, transformed, plan, Fixing
    <2> QED BY <2>1, <2>2, <2>3, <2>4, <2>5, <2>6, <2>7, <2>8, <2>9, <2>10, <2>11, <2>12
            DEF Unmapped
  <1>2. Restored'
    BY <1>1, RestoredKept DEF SlotsInv
  <1> QED BY <1>1, <1>2, KeepSlots

\* Every step of the pass keeps what the analysis has found.
LEMMA PassSets ==
  ASSUME SetsInv, [PassNext]_passVars
  PROVE  SetsInv'
  <1>1. CASE Analyse
    BY <1>1, SetsStep DEF Analyse
  <1>2. CASE UNCHANGED analysis
    BY <1>2, SameAnalysis, SetsStep
  <1>3. Analyse \/ UNCHANGED analysis
    <2>1. CASE AddCheckpointsToFunction
      BY <2>1 DEF AddCheckpointsToFunction
    <2>2. CASE CreateCheckpointAndRestartBlocks
      BY <2>2 DEF CreateCheckpointAndRestartBlocks
    <2>3. CASE InsertRestartBlock
      BY <2>3 DEF InsertRestartBlock
    <2>4. CASE Others
      BY <2>4, OthersKeep
    <2>5. CASE UNCHANGED passVars
      BY <2>5 DEF passVars
    <2> QED BY <2>1, <2>2, <2>3, <2>4, <2>5 DEF PassNext, Pass, Others
  <1> QED BY <1>1, <1>2, <1>3

\* The invariant of the whole pass.
PassInv == SetsInv /\ SlotsInv

\* Every step of the pass keeps it.
LEMMA PassStep ==
  ASSUME PassInv, [PassNext]_passVars
  PROVE  PassInv'
  <1>1. SetsInv /\ SlotsInv /\ SetsInv'
    BY PassSets DEF PassInv
  <1>2. CASE Analyse
    BY <1>1, <1>2, AnalyseSlots DEF PassInv
  <1>3. CASE AddCheckpointsToFunction
    BY <1>1, <1>3, StartSlots DEF PassInv
  <1>4. CASE CreateCheckpointAndRestartBlocks
    BY <1>1, <1>4, CreateSlots DEF PassInv
  <1>5. CASE InsertRestartBlock
    BY <1>1, <1>5, EntrySlots DEF PassInv
  <1>6. CASE FillNextBlock
    BY <1>1, <1>6, FillNextSlots DEF PassInv
  <1>7. CASE RestoreScalar
    BY <1>1, <1>7, ScalarSlots DEF PassInv
  <1>8. CASE RestoreSizesAndAliases
    BY <1>1, <1>8, ExpandSlots DEF PassInv
  <1>9. CASE RestorePointer
    BY <1>1, <1>9, PointerSlots DEF PassInv
  <1>10. CASE CreatePhis
    BY <1>1, <1>10, CreatePhisSlots DEF PassInv
  <1>11. CASE Unmapped
    BY <1>1, <1>11, UnmappedSlots DEF PassInv
  <1>12. CASE UNCHANGED passVars
    <2>1. /\ UNCHANGED <<analysis, labels, slots, work, liveValues, mapping>> /\ step' = step
      BY <1>12 DEF passVars, transformed, plan
    <2>2. Restored'
      BY <1>1, <2>1, RestoredKept DEF SlotsInv
    <2> QED BY <1>1, <2>1, <2>2, KeepSlots DEF PassInv
  <1> QED BY <1>2, <1>3, <1>4, <1>5, <1>6, <1>7, <1>8, <1>9, <1>10, <1>11, <1>12
          DEF PassNext, Pass, Unmapped

----------------------------------------------------------------------------
(* The theorems *)

\* Every reachable state of the pass satisfies PassInv.
THEOREM PassInvariant == PassSpec => []PassInv
  <1>1. PassInit => PassInv
    BY LiveInit, InitCoded, SlotsInit DEF PassInit, PassInv, SetsInv
  <1>2. PassInv /\ [PassNext]_passVars => PassInv'
    BY PassStep
  <1> QED BY <1>1, <1>2, PTL DEF PassSpec

\* checkpointRestoreLiveValue, however it recurses: a label's checkpoint block
\* saves each value once, and after the sizes and the pointers that the call is
\* given with it; the candidates of an alias are those pointers' slots.
THEOREM SlotsAreInOrder == PassSpec => []SlotsInOrder
  <1>1. PassInv => SlotsInOrder
    <2> SUFFICES ASSUME AllInOrder PROVE SlotsInOrder
      BY DEF PassInv, SlotsInv
    <2> SUFFICES ASSUME NEW l \in DOMAIN slots, NEW i \in DOMAIN slots[l]
                 PROVE  LET slot == slots[l][i]
                        IN  /\ ~Precedes(l, slot.value, i)
                            /\ \A w \in SizesOf(slot.value)
                                 \cup (IF slot.candidates = {} THEN {}
                                       ELSE program.aliases[slot.value]) : Precedes(l, w, i)
                            /\ \A c \in slot.candidates : slots[l][c[2] + 1].value = c[1]
      BY DEF SlotsInOrder
    <2>1. InOrder(slots[l])
      BY DEF AllInOrder
    <2> QED BY <2>1 DEF InOrder, Before, Precedes
  <1> QED BY <1>1, PassInvariant, PTL

\* Once the blocks are filled, each checkpoint block saves all that is live in it,
\* and each restart block's node maps a value to what its own call restores.
THEOREM AllLiveSaved == PassSpec => []LiveSaved
  <1>1. PassInv => LiveSaved
    <2> SUFFICES ASSUME PassInv, step \in Fixing, NEW l \in DOMAIN labels
                 PROVE  /\ {u.value : u \in live[labels[l]]} \subseteq Range(ValuesOf(l))
                        /\ \A v \in Range(ValuesOf(l)) :
                             mapping[Restart(labels[l])][v] = Version(v, Restart(labels[l]))
      BY DEF LiveSaved, Fixing
    <2>1. /\ Labelled /\ labels \in Seq(checkpointBlocks) /\ slots \in Seq(Seq(SlotType))
          /\ work = << >> /\ Len(slots) = Len(labels) /\ LiveReady /\ Restored
      BY DEF PassInv, SlotsInv, Labelled, Fixing
    <2>2. l \in DOMAIN slots /\ DOMAIN work = {}
      BY <2>1
    <2>3. \A v : v \in Range(ValuesOf(l)) <=> \E i \in DOMAIN slots[l] : v = slots[l][i].value
      BY DEF ValuesOf, Range
    <2>4. \A u \in live[labels[l]] : \E i \in DOMAIN slots[l] : slots[l][i].value = u.value
      BY <2>1, <2>2 DEF LiveReady
    <2>5. {u.value : u \in live[labels[l]]} \subseteq Range(ValuesOf(l))
      BY <2>3, <2>4
    <2>6. ASSUME NEW v \in Range(ValuesOf(l))
          PROVE  mapping[Restart(labels[l])][v] = Version(v, Restart(labels[l]))
      <3>1. PICK i \in DOMAIN slots[l] : v = slots[l][i].value
        BY <2>3
      <3> QED BY <2>1, <2>2, <3>1 DEF Restored
    <2> QED BY <2>5, <2>6
  <1> QED BY <1>1, PassInvariant, PTL

\* The live sets keep their types to the end of the pass: nothing after the
\* analysis changes them.
THEOREM PassLiveTypes == PassSpec => []TypeOK
  BY PassInvariant, SetsInvTypes, PTL DEF PassInv

\* To the end of the pass, the live sets hold only what some use may still need.
THEOREM PassNothingDead == PassSpec => []NothingDead
  BY PassInvariant, SetsInvNothingDead, PTL DEF PassInv

\* To the end of the pass, they hold all of it, where no value is taken by PHI
\* nodes of one block from two of its predecessors.
THEOREM PassAllLive == PassSpec => [](OneSource => AllLive)
  BY PassInvariant, SetsInvAllLive, PTL DEF PassInv
=============================================================================
