----------------------- MODULE PointerAnalysisProofs -----------------------
(***************************************************************************)
(* What the three loops of pointerAnalysis find, for every function, every *)
(* order of addresses and every true answer of AliasAnalysis: each loop    *)
(* that ends has dealt with all its pointers, alias sets hold what the     *)
(* PHI nodes can hold and nothing else, and the recursion through them     *)
(* ends for the functions that carry no changed pointer round a loop.      *)
(***************************************************************************)
EXTENDS PointerAnalysis, Iteration, FiniteSetTheorems

\* What a PHI node may take, directly or through other PHI nodes.
PhiEdges        == UNION {{w} \X Sources(w) : w \in Phis}
PhiOrigins(phi) == ReachedFrom(phi, PhiEdges)

\* The types of the variables.
Types ==
  /\ program \in Programs
  /\ phase \in {"collect", "pointers", "phis", "aliases", "done", "stopped"}
  /\ changed \in BOOLEAN
  /\ sweep \in Seq(DOMAIN program.kind)
  /\ unknown \in SUBSET DOMAIN program.kind /\ found \in SUBSET DOMAIN program.kind
  /\ DOMAIN size = DOMAIN aliases /\ DOMAIN size \subseteq DOMAIN program.kind
  /\ \A v \in DOMAIN size : /\ size[v] \in OfKind(Allocating \cup {"phi"})
                            /\ aliases[v] \in SUBSET Values

\* The first loop: what has a size, and what is left.
Sized ==
  /\ DOMAIN size \subseteq OfKind(Allocating \cup Derived \cup {"phi"})
  /\ OfKind(Allocating \cup {"phi"}) \subseteq DOMAIN size
  /\ OfKind(Unsizable) = {}
  /\ \A v \in OfKind(Allocating) : aliases[v] = {v}
  /\ \A v \in OfKind(Derived) : v \in DOMAIN size =>
       /\ program.operand[v] \in DOMAIN size \ {v}
       /\ aliases[v] = {program.operand[v]}
  /\ DOMAIN sizePhi = Phis
PointersLeft ==
  /\ OfKind(Derived \cup {"other"}) \subseteq unknown \cup DOMAIN size
  /\ unknown \subseteq OfKind(Derived \cup {"other"}) /\ Range(sweep) \subseteq unknown
  /\ found \subseteq DOMAIN size
  /\ \A phi \in Phis : sizePhi[phi] = << >>
NonePointersLeft == OfKind(Derived) \subseteq DOMAIN size /\ OfKind({"other"}) = {}

\* The second loop: the entries of a size PHI node, and the PHI nodes that are
\* done.
EntriesOf(phi, entries) ==
  /\ entries \in Seq((DOMAIN program.kind) \X Blocks)
  /\ \A i \in DOMAIN entries : \E pair \in Incoming(phi) :
       pair[1] \in DOMAIN size /\ entries[i] = <<size[pair[1]], pair[2]>>
  /\ \A i, j \in DOMAIN entries : entries[i][2] = entries[j][2] => i = j
Known(phi) == AllKnown(phi, sizePhi[phi])
PhisLeft ==
  /\ unknown \subseteq Phis /\ Range(sweep) \subseteq Phis /\ found \subseteq Phis
  /\ \A phi \in (Phis \ unknown) \cup found : Known(phi)
NonePhisLeft == \A phi \in Phis : Known(phi)

\* The third loop: a PHI node whose alias set has none in it is passed by.
SweepLeft ==
  /\ Range(sweep) \subseteq Phis
  /\ ~changed => \A phi \in Phis \ Range(sweep) : aliases[phi] \cap Phis = {}
NoneInAliases == \A phi \in Phis : aliases[phi] \cap Phis = {}

\* Whatever set holds the alias sets of phi and of the PHI nodes it holds itself
\* holds what phi may take that is no PHI node: no such value is lost.
Covered(phi) ==
  \A S \in SUBSET Values :
    (\A q \in Phis : q \in {phi} \cup S => aliases[q] \subseteq S)
      => PhiOrigins(phi) \ Phis \subseteq S

\* What a PHI node holds at a point of a run is in its alias set, or a PHI node is
\* in there that held it before.
Traced(phi, i) ==
  LET value == program.holds[i][phi]
  IN  \/ value \in aliases[phi]
      \/ \E q \in aliases[phi] \cap Phis : \E j \in 1 .. i - 1 :
           q \in DOMAIN program.holds[j] /\ program.holds[j][q] = value

AliasesFound ==
  /\ \A phi \in Phis : aliases[phi] \subseteq PhiOrigins(phi)
  /\ program.noAlias = {} => \A phi \in Phis : Covered(phi)
  /\ (\A pair \in program.noAlias : pair[2] \notin Phis) =>
       \A i \in DOMAIN program.holds : \A phi \in DOMAIN program.holds[i] : Traced(phi, i)

\* What holds between any two steps, phase by phase.
PointersInv ==
  /\ Types
  /\ phase = "collect" => sweep = << >> /\ found = {} /\ DOMAIN size = {} /\ ~changed
  /\ phase \in {"pointers", "phis", "aliases", "done"} => Sized /\ AliasesFound
  /\ phase = "pointers" => PointersLeft
  /\ phase \in {"phis", "aliases", "done"} =>
       NonePointersLeft /\ \A phi \in Phis : EntriesOf(phi, sizePhi[phi])
  /\ phase = "phis" => PhisLeft
  /\ phase \in {"aliases", "done"} => NonePhisLeft
  /\ phase = "aliases" => SweepLeft
  /\ phase = "done" => NoneInAliases

----------------------------------------------------------------------------
(* Lemmas *)

\* ReachedFrom is closed under the edges, and the least set that is.
LEMMA ReachedClosed ==
  ASSUME NEW v, NEW edges \in SUBSET (Values \X Values)
  PROVE  /\ ReachedFrom(v, edges) \in SUBSET Values
         /\ \A edge \in edges :
              edge[1] \in {v} \cup ReachedFrom(v, edges) => edge[2] \in ReachedFrom(v, edges)
  <1> DEFINE R == ReachedFrom(v, edges)
             closed == {S \in SUBSET Values :
                          \A edge \in edges : edge[1] \in {v} \cup S => edge[2] \in S}
  <1>1. R = {w \in Values : \A S \in closed : w \in S}
    BY DEF ReachedFrom
  <1> HIDE DEF R
  <1>2. ASSUME NEW edge \in edges, edge[1] \in {v} \cup R
        PROVE  edge[2] \in R
    <2>1. edge[2] \in Values
      OBVIOUS
    <2>2. \A S \in closed : edge[1] \in {v} \cup S
      BY <1>1, <1>2
    <2>3. \A S \in closed : edge[2] \in S
      BY <2>2
    <2> QED BY <1>1, <2>1, <2>3
  <1> QED BY <1>1, <1>2 DEF R

\* It is within every set that is closed under the edges.
LEMMA ReachedLeast ==
  ASSUME NEW v, NEW edges, NEW S \in SUBSET Values,
         \A edge \in edges : edge[1] \in {v} \cup S => edge[2] \in S
  PROVE  ReachedFrom(v, edges) \subseteq S
  BY DEF ReachedFrom

\* What is reached from what is reached is reached.
LEMMA ReachedOn ==
  ASSUME NEW edges \in SUBSET (Values \X Values), NEW v, NEW w \in ReachedFrom(v, edges)
  PROVE  ReachedFrom(w, edges) \subseteq ReachedFrom(v, edges)
  <1> DEFINE R == ReachedFrom(v, edges)
  <1>1. R \in SUBSET Values /\ \A edge \in edges : edge[1] \in {v} \cup R => edge[2] \in R
    BY ReachedClosed
  <1> HIDE DEF R
  <1>2. w \in R
    BY DEF R
  <1>3. \A edge \in edges : edge[1] \in {w} \cup R => edge[2] \in R
    BY <1>1, <1>2
  <1> QED BY <1>1, <1>3, ReachedLeast DEF R

\* Fewer edges reach less.
LEMMA ReachedByFewer ==
  ASSUME NEW edges \in SUBSET (Values \X Values), NEW fewer \in SUBSET edges, NEW v
  PROVE  ReachedFrom(v, fewer) \subseteq ReachedFrom(v, edges)
  <1> DEFINE R == ReachedFrom(v, edges)
  <1>1. R \in SUBSET Values /\ \A edge \in edges : edge[1] \in {v} \cup R => edge[2] \in R
    BY ReachedClosed
  <1> HIDE DEF R
  <1> QED BY <1>1, ReachedLeast DEF R

\* What is computed from what.
Computation == UNION {{w} \X Sources(w) : w \in DOMAIN program.kind}

\* The kinds of values, and where they come from.
LEMMA ProgramTyped ==
  ASSUME program \in Programs
  PROVE  /\ Elsewhere \notin DOMAIN program.kind
         /\ \A v \in DOMAIN program.kind : program.kind[v] \in Kinds
         /\ \A v \in DOMAIN program.kind : /\ Sources(v) \in SUBSET Values
                                           /\ program.operand[v] \in Values
                                           /\ program.incoming[v] \in Seq(Values \X Blocks)
         /\ \A v \in DOMAIN program.kind : \A p1, p2 \in Incoming(v) : p1[2] = p2[2] => p1 = p2
         /\ \A v \in DOMAIN program.kind : Incoming(v) \in SUBSET (Values \X Blocks)
         /\ \A phi \in Phis : Sources(phi) = {pair[1] : pair \in Incoming(phi)}
         /\ Computation \in SUBSET (Values \X Values) /\ PhiEdges \in SUBSET Computation
  <1>1. /\ Elsewhere \notin DOMAIN program.kind
        /\ \A v \in DOMAIN program.kind : program.kind[v] \in Kinds
        /\ \A v \in DOMAIN program.kind : /\ program.operand[v] \in Values
                                          /\ program.incoming[v] \in Seq(Values \X Blocks)
    BY ProgramsAssumption DEF Values
  <1>2. \A v \in DOMAIN program.kind : Incoming(v) \in SUBSET (Values \X Blocks)
    BY <1>1 DEF Incoming, Range
  <1>3. ASSUME NEW v \in DOMAIN program.kind, NEW p1 \in Incoming(v), NEW p2 \in Incoming(v),
               p1[2] = p2[2]
        PROVE  p1 = p2
    <2>1. \A i, j \in DOMAIN program.incoming[v] :
            program.incoming[v][i][2] = program.incoming[v][j][2]
              => program.incoming[v][i] = program.incoming[v][j]
      BY ProgramsAssumption
    <2>2. PICK i \in DOMAIN program.incoming[v] : p1 = program.incoming[v][i]
      BY DEF Incoming, Range
    <2>3. PICK j \in DOMAIN program.incoming[v] : p2 = program.incoming[v][j]
      BY DEF Incoming, Range
    <2> QED BY <1>3, <2>1, <2>2, <2>3
  <1>4. \A v \in DOMAIN program.kind : Sources(v) \in SUBSET Values
    BY <1>1, <1>2 DEF Sources
  <1>5. \A phi \in Phis : Sources(phi) = {pair[1] : pair \in Incoming(phi)}
    BY DEF Sources
  <1>6. Computation \in SUBSET (Values \X Values)
    <2>1. \A w \in DOMAIN program.kind : w \in Values /\ {w} \X Sources(w) \subseteq Values \X Values
      BY <1>4 DEF Values
    <2> QED BY <2>1 DEF Computation
  <1>7. PhiEdges \in SUBSET Computation
    BY DEF PhiEdges, Computation, Phis, OfKind
  <1> QED BY <1>1, <1>2, <1>3, <1>4, <1>5, <1>6, <1>7

\* What is about the function alone.
LEMMA SameProgram ==
  ASSUME program' = program
  PROVE  /\ Phis' = Phis /\ Values' = Values
         /\ \A kinds : OfKind(kinds)' = OfKind(kinds)
         /\ \A v : Incoming(v)' = Incoming(v) /\ PhiOrigins(v)' = PhiOrigins(v)
  <1>1. Phis' = Phis /\ Values' = Values /\ \A kinds : OfKind(kinds)' = OfKind(kinds)
    BY DEF Phis, Values, OfKind, Kind
  <1>2. \A v : Incoming(v)' = Incoming(v) /\ Kind(v)' = Kind(v)
    BY DEF Incoming, Kind
  <1>3. \A v : Sources(v)' = Sources(v)
    BY <1>1, <1>2 DEF Sources
  <1>4. PhiEdges' = PhiEdges
    BY <1>1, <1>3 DEF PhiEdges
  <1>5. \A v : PhiOrigins(v)' = PhiOrigins(v)
    BY <1>1, <1>4 DEF PhiOrigins, ReachedFrom
  <1> QED BY <1>1, <1>2, <1>5

\* A set of pointers is walked over to its end.
LEMMA InAddressOrderIs ==
  ASSUME program \in Programs, NEW S
  PROVE  /\ InAddressOrder(S) \in Seq(DOMAIN program.kind)
         /\ Range(InAddressOrder(S)) = (DOMAIN program.kind) \cap S
  <1> DEFINE a == program.addresses
             w == InAddressOrder(S)
  <1>1. a \in Seq(DOMAIN program.kind) /\ DOMAIN program.kind = {a[i] : i \in DOMAIN a}
    BY ProgramsAssumption DEF Range
  <1>2. /\ w \in Seq((DOMAIN program.kind) \cap S)
        /\ \A j \in DOMAIN a : a[j] \in S => \E k \in DOMAIN w : w[k] = a[j]
    BY <1>1, WalkIs DEF InAddressOrder
  <1> HIDE DEF a, w
  <1> QED BY <1>1, <1>2 DEF Range, w

\* The points of a run before one of them.
LEMMA HoldsAreSeq ==
  ASSUME program \in Programs, NEW i \in DOMAIN program.holds
  PROVE  i \in Nat /\ 1 .. i - 1 \subseteq DOMAIN program.holds
  <1>1. PICK D : program.holds \in Seq(D)
    BY HoldsAssumption
  <1> QED BY <1>1

\* phi holds an incoming value, or what an incoming PHI node held before.
TakenBefore(phi, i) ==
  \E pair \in Incoming(phi) :
    \/ pair[1] \notin Phis /\ program.holds[i][phi] = pair[1]
    \/ \E j \in 1 .. i - 1 : /\ pair[1] \in DOMAIN program.holds[j]
                             /\ program.holds[i][phi] = program.holds[j][pair[1]]

\* What PHI nodes hold are no PHI nodes.
LEMMA HoldsTyped ==
  ASSUME program \in Programs, NEW i \in DOMAIN program.holds,
         NEW phi \in DOMAIN program.holds[i]
  PROVE  /\ i \in Nat /\ phi \in Phis /\ program.holds[i][phi] \in Values \ Phis
         /\ <<phi, program.holds[i][phi]>> \notin program.noAlias
         /\ TakenBefore(phi, i)
  <1> DEFINE h == program.holds
             D == UNION {[S -> Values \ Phis] : S \in SUBSET Phis}
  <1> DEFINE nodes == {v \in DOMAIN program.kind : program.kind[v] = "phi"}
  <1>0. nodes = Phis
    BY DEF Phis, OfKind, Kind
  <1>9. /\ h \in Seq(UNION {[S -> (DOMAIN program.kind \cup {Elsewhere}) \ nodes] : S \in SUBSET nodes})
        /\ \A k \in DOMAIN h : \A node \in DOMAIN h[k] :
             \E pair \in Range(program.incoming[node]) :
               \/ pair[1] \notin nodes /\ h[k][node] = pair[1]
               \/ \E j \in 1 .. k - 1 : /\ pair[1] \in DOMAIN h[j]
                                        /\ h[k][node] = h[j][pair[1]]
    BY HoldsAssumption, Zenon
  <1> HIDE DEF nodes
  <1>1. h \in Seq(UNION {[S -> (DOMAIN program.kind \cup {Elsewhere}) \ Phis] : S \in SUBSET Phis})
    BY <1>0, <1>9
  <1>2. h \in Seq(D)
    BY <1>1 DEF Values
  <1>3. h[i] \in D /\ i \in Nat
    BY <1>2
  <1>4. phi \in Phis /\ h[i][phi] \in Values \ Phis
    BY <1>3
  <1>5. \A g \in Range(h) : \A pair \in program.noAlias :
          pair[1] \in DOMAIN g =>
            g[pair[1]] # IF pair[2] \in DOMAIN g THEN g[pair[2]] ELSE pair[2]
    BY HoldsAssumption
  <1>6. h[i] \in Range(h) /\ DOMAIN h[i] \subseteq Phis
    BY <1>3 DEF Range
  <1>7. <<phi, h[i][phi]>> \notin program.noAlias
    BY <1>4, <1>5, <1>6
  <1>8. TakenBefore(phi, i)
    BY <1>0, <1>9 DEF Incoming, TakenBefore
  <1> QED BY <1>3, <1>4, <1>7, <1>8

----------------------------------------------------------------------------
(* The actions *)

\* Before the analysis nothing is known.
LEMMA PointersInit == Init => PointersInv
  <1> SUFFICES ASSUME Init PROVE PointersInv
    OBVIOUS
  <1>1. DOMAIN size = {} /\ DOMAIN aliases = {} /\ sweep = << >>
    BY DEF Init
  <1>2. Types
    <2>1. \A D : << >> \in Seq(D)
      OBVIOUS
    <2> QED BY <1>1, <2>1 DEF Init, Types
  <1> QED BY <1>1, <1>2 DEF Init, PointersInv

\* Allocations, argv and PHI nodes are known at once.
LEMMA CollectPointersKeeps ==
  ASSUME PointersInv, CollectPointers
  PROVE  PointersInv'
  <1>1. /\ program \in Programs /\ program' = program /\ phase' = "pointers"
        /\ found' = {} /\ ~changed' /\ changed' \in BOOLEAN /\ OfKind(Unsizable) = {}
        /\ size' = [v \in OfKind(Allocating \cup {"phi"}) |-> v]
        /\ aliases' = [v \in OfKind(Allocating \cup {"phi"}) |->
                         IF v \in Phis THEN {pair[1] : pair \in Incoming(v)} ELSE {v}]
        /\ sizePhi' = [phi \in Phis |-> << >>]
        /\ unknown' = OfKind(Derived \cup {"other"})
        /\ sweep' = InAddressOrder(unknown')
    BY DEF CollectPointers, PointersInv, Types
  <1>2. /\ OfKind(Allocating \cup {"phi"}) \subseteq DOMAIN program.kind
        /\ OfKind(Derived \cup {"other"}) \subseteq DOMAIN program.kind
        /\ Phis \subseteq OfKind(Allocating \cup {"phi"})
        /\ OfKind(Allocating) \subseteq OfKind(Allocating \cup {"phi"}) \ Phis
        /\ OfKind(Derived) \cap OfKind(Allocating \cup {"phi"}) = {}
        /\ OfKind(Allocating \cup {"phi"}) \subseteq OfKind(Allocating \cup Derived \cup {"phi"})
    BY DEF OfKind, Phis, Allocating, Derived
  <1>3. \A phi \in Phis : aliases'[phi] = Sources(phi) /\ Sources(phi) \in SUBSET Values
    BY <1>1, <1>2, ProgramTyped
  <1>4. Types'
    <2>1. sweep' \in Seq(DOMAIN program.kind)
      BY <1>1, InAddressOrderIs
    <2>2. \A v \in DOMAIN size' : aliases'[v] \in SUBSET Values
      BY <1>1, <1>2, <1>3 DEF Values
    <2> QED BY <1>1, <1>2, <2>1, <2>2 DEF Types, OfKind, Kind, Values
  <1>5. Sized'
    BY <1>1, <1>2 DEF Sized, OfKind, Kind, Phis
  <1>6. PointersLeft'
    <2>1. Range(sweep') \subseteq unknown'
      BY <1>1, InAddressOrderIs
    <2> QED BY <1>1, <2>1 DEF PointersLeft, OfKind, Kind, Phis
  <1>7. AliasesFound'
    <2>0. program \in Programs
      BY <1>1
    <2>1. \A phi \in Phis : \A s \in Sources(phi) : <<phi, s>> \in PhiEdges
      BY DEF PhiEdges
    <2>2. PhiEdges \in SUBSET (Values \X Values)
      BY <1>1, ProgramTyped
    <2>3. ASSUME NEW phi \in Phis PROVE aliases'[phi] \subseteq PhiOrigins(phi)
      <3> SUFFICES ASSUME NEW s \in Sources(phi) PROVE s \in PhiOrigins(phi)
        BY <1>3
      <3>1. <<phi, s>> \in PhiEdges /\ <<phi, s>>[1] = phi /\ <<phi, s>>[2] = s
        BY <2>1
      <3> HIDE DEF PhiEdges
      <3> QED BY <2>2, <3>1, ReachedClosed DEF PhiOrigins
    <2>4. ASSUME NEW phi \in Phis, NEW S \in SUBSET Values,
                 \A q \in Phis : q \in {phi} \cup S => aliases'[q] \subseteq S
          PROVE  PhiOrigins(phi) \ Phis \subseteq S
      <3>1. ASSUME NEW edge \in PhiEdges, edge[1] \in {phi} \cup S PROVE edge[2] \in S
        <4>1. PICK w \in Phis : edge \in {w} \X Sources(w)
          BY DEF PhiEdges
        <4> QED BY <1>3, <2>4, <3>1, <4>1
      <3> QED BY <3>1, ReachedLeast DEF PhiOrigins
    <2>5. ASSUME NEW i \in DOMAIN program.holds, NEW phi \in DOMAIN program.holds[i]
          PROVE  \/ program.holds[i][phi] \in aliases'[phi]
                 \/ \E q \in aliases'[phi] \cap Phis : \E j \in 1 .. i - 1 :
                      q \in DOMAIN program.holds[j] /\ program.holds[j][q] = program.holds[i][phi]
      <3>0. TakenBefore(phi, i)
        BY <2>0, HoldsTyped
      <3>1. PICK pair \in Incoming(phi) :
              \/ pair[1] \notin Phis /\ program.holds[i][phi] = pair[1]
              \/ \E j \in 1 .. i - 1 : /\ pair[1] \in DOMAIN program.holds[j]
                                       /\ program.holds[i][phi] = program.holds[j][pair[1]]
        BY <3>0 DEF TakenBefore
      <3>2. pair[1] \in aliases'[phi]
        <4>1. phi \in Phis
          BY <2>0, HoldsTyped
        <4>2. Sources(phi) = {other[1] : other \in Incoming(phi)}
          BY <2>0, <4>1, ProgramTyped
        <4> QED BY <1>3, <4>1, <4>2
      <3>3. ASSUME NEW j \in 1 .. i - 1, pair[1] \in DOMAIN program.holds[j]
            PROVE  pair[1] \in Phis
        <4>1. j \in DOMAIN program.holds
          BY <2>0, HoldsAreSeq
        <4> QED BY <2>0, <3>3, <4>1, HoldsTyped
      <3> QED BY <3>1, <3>2, <3>3
    <2>6. (\A phi \in Phis : aliases[phi] \subseteq PhiOrigins(phi))'
      BY <1>1, <2>3, SameProgram
    <2>7. (\A phi \in Phis : Covered(phi))'
      <3>1. Phis' = Phis /\ Values' = Values /\ \A phi : PhiOrigins(phi)' = PhiOrigins(phi)
        BY <1>1, SameProgram
      <3> QED BY <2>4, <3>1 DEF Covered
    <2>8. (\A i \in DOMAIN program.holds : \A phi \in DOMAIN program.holds[i] : Traced(phi, i))'
      <3>1. program' = program /\ Phis' = Phis
        BY <1>1, SameProgram
      <3> QED BY <2>5, <3>1 DEF Traced
    <2> QED BY <2>6, <2>7, <2>8 DEF AliasesFound
  <1> QED BY <1>1, <1>4, <1>5, <1>6, <1>7 DEF PointersInv

\* What PHI nodes alias is as good as it was.
LEMMA AliasesKept ==
  ASSUME AliasesFound, program' = program, \A phi \in Phis : aliases'[phi] = aliases[phi],
         program \in Programs
  PROVE  AliasesFound'
  <1>1. /\ Phis' = Phis /\ Values' = Values
        /\ \A phi : PhiOrigins(phi)' = PhiOrigins(phi)
    BY SameProgram
  <1>2. (\A phi \in Phis : aliases[phi] \subseteq PhiOrigins(phi))'
    BY <1>1 DEF AliasesFound
  <1>3. \A phi \in Phis : Covered(phi) => Covered(phi)'
    BY <1>1 DEF Covered
  <1>4. ASSUME NEW i \in DOMAIN program.holds, NEW phi \in DOMAIN program.holds[i], Traced(phi, i)
        PROVE  Traced(phi, i)'
    <2>1. phi \in Phis
      BY HoldsTyped
    <2> QED BY <1>1, <1>4, <2>1 DEF Traced
  <1> QED BY <1>1, <1>2, <1>3, <1>4 DEF AliasesFound

\* The first element of a sequence and the rest.
LEMMA HeadAndTail ==
  ASSUME NEW D, NEW s \in Seq(D), s # << >>
  PROVE  /\ Head(s) \in D /\ Head(s) \in Range(s) /\ Tail(s) \in Seq(D)
         /\ Range(s) = {Head(s)} \cup Range(Tail(s))
  <1>1. /\ Len(s) \in Nat \ {0} /\ DOMAIN s = 1 .. Len(s) /\ Head(s) = s[1] /\ s[1] \in D
        /\ Tail(s) \in Seq(D) /\ DOMAIN Tail(s) = 1 .. Len(s) - 1
        /\ \A i \in 1 .. Len(s) - 1 : Tail(s)[i] = s[i + 1]
    OBVIOUS
  <1>2. ASSUME NEW i \in 1 .. Len(s), i # 1
        PROVE  i - 1 \in 1 .. Len(s) - 1 /\ s[i] = Tail(s)[i - 1]
    <2>1. i - 1 \in 1 .. Len(s) - 1 /\ (i - 1) + 1 = i
      BY <1>1, <1>2
    <2> QED BY <1>1, <2>1
  <1>3. \A i \in 1 .. Len(s) - 1 : i + 1 \in 1 .. Len(s)
    BY <1>1
  <1>4. Range(Tail(s)) \subseteq Range(s)
    BY <1>1, <1>3 DEF Range
  <1>5. Range(s) \subseteq {Head(s)} \cup Range(Tail(s))
    <2> SUFFICES ASSUME NEW i \in 1 .. Len(s) PROVE s[i] \in {Head(s)} \cup Range(Tail(s))
      BY <1>1 DEF Range
    <2>1. CASE i = 1
      BY <1>1, <2>1
    <2>2. CASE i # 1
      BY <1>1, <1>2, <2>2 DEF Range
    <2> QED BY <2>1, <2>2
  <1>6. Head(s) \in Range(s)
    BY <1>1 DEF Range
  <1> QED BY <1>1, <1>4, <1>5, <1>6

\* exit(-1), and the call through a null pointer.
LEMMA StoppedKeeps ==
  ASSUME PointersInv, NoAllocationSize \/ NotSupported
  PROVE  PointersInv'
  <1>1. /\ phase' = "stopped" /\ Types
        /\ UNCHANGED <<program, size, aliases, unknown, sweep, found, changed>>
    BY DEF NoAllocationSize, NotSupported, PointersInv, info
  <1>2. Types'
    BY <1>1, SameProgram DEF Types
  <1> QED BY <1>1, <1>2 DEF PointersInv

\* A derived pointer takes the size of what it is derived from.
LEMMA VisitPointerKeeps ==
  ASSUME PointersInv, VisitPointer
  PROVE  PointersInv'
  <1> DEFINE v == Head(sweep)
             pointer == program.operand[v]
  <1>1. /\ phase = "pointers" /\ phase' = phase /\ sweep # << >> /\ sweep' = Tail(sweep)
        /\ UNCHANGED <<program, sizePhi, unknown, changed>> /\ Kind(v) # "other"
        /\ IF pointer \in DOMAIN size
           THEN /\ size' = With(size, v, size[pointer])
                /\ aliases' = With(aliases, v, {pointer})
                /\ found' = found \cup {v}
           ELSE UNCHANGED <<size, aliases, found>>
    BY DEF VisitPointer, SizeFrom, AliasesFrom
  <1>2. Types /\ Sized /\ PointersLeft /\ AliasesFound /\ program \in Programs
    BY <1>1 DEF PointersInv, Types
  <1>3. /\ v \in unknown /\ sweep' \in Seq(DOMAIN program.kind)
        /\ Range(sweep') \subseteq unknown
    BY <1>1, <1>2, HeadAndTail DEF Types, PointersLeft
  <1>4. v \in DOMAIN program.kind /\ Kind(v) \in Derived /\ v \in OfKind(Derived)
    BY <1>1, <1>2, <1>3 DEF PointersLeft, OfKind
  <1>5. v \notin Phis /\ v \notin OfKind(Allocating)
        /\ v \in OfKind(Allocating \cup Derived \cup {"phi"})
    BY <1>4 DEF Phis, OfKind, Derived, Allocating
  <1> HIDE DEF v
  <1>6. /\ \A w \in DOMAIN size : w # v => size'[w] = size[w] /\ aliases'[w] = aliases[w]
        /\ DOMAIN size' = DOMAIN aliases'
        /\ IF pointer \in DOMAIN size
           THEN /\ DOMAIN size' = DOMAIN size \cup {v}
                /\ size'[v] = size[pointer] /\ aliases'[v] = {pointer}
                /\ found' = found \cup {v}
           ELSE UNCHANGED <<size, aliases, found>>
    BY <1>1, <1>2 DEF With, Types
  <1>7. Phis \subseteq DOMAIN size /\ OfKind(Allocating) \subseteq DOMAIN size
    BY <1>2 DEF Sized, Phis, OfKind
  <1>8. /\ Phis' = Phis /\ Values' = Values /\ \A kinds : OfKind(kinds)' = OfKind(kinds)
        /\ program' = program
    BY <1>1, SameProgram
  <1>9. AliasesFound'
    BY <1>2, <1>5, <1>6, <1>7, <1>8, AliasesKept
  <1>10. Types'
    <2>1. pointer \in Values
      BY <1>2, <1>4, ProgramTyped
    <2>2. DOMAIN size' \subseteq DOMAIN program.kind
      BY <1>2, <1>4, <1>6 DEF Types
    <2>3. ASSUME NEW w \in DOMAIN size'
          PROVE  size'[w] \in OfKind(Allocating \cup {"phi"}) /\ aliases'[w] \in SUBSET Values
      <3>1. CASE w \in DOMAIN size /\ w # v
        BY <1>2, <1>6, <3>1 DEF Types
      <3>2. CASE w = v /\ pointer \in DOMAIN size
        <4>1. size'[w] = size[pointer] /\ aliases'[w] = {pointer}
          BY <1>6, <3>2
        <4>2. size[pointer] \in OfKind(Allocating \cup {"phi"})
          BY <1>2, <3>2 DEF Types
        <4> QED BY <2>1, <4>1, <4>2
      <3>3. CASE w = v /\ pointer \notin DOMAIN size
        BY <1>2, <1>6, <2>3, <3>3 DEF Types
      <3> QED BY <1>6, <2>3, <3>1, <3>2, <3>3
    <2>4. found' \in SUBSET DOMAIN program.kind
      BY <1>2, <1>4, <1>6 DEF Types
    <2>5. /\ program' \in Programs /\ phase' = "pointers" /\ changed' \in BOOLEAN
          /\ unknown' \in SUBSET DOMAIN program.kind
      BY <1>1, <1>2 DEF Types
    <2> QED BY <1>3, <1>6, <1>8, <2>2, <2>3, <2>4, <2>5 DEF Types
  <1>11. Sized'
    <2>1. \A w \in OfKind(Allocating) : aliases'[w] = {w}
      BY <1>2, <1>5, <1>6, <1>7 DEF Sized
    <2>2. ASSUME NEW w \in OfKind(Derived), w \in DOMAIN size'
          PROVE  /\ program.operand[w] \in DOMAIN size' \ {w}
                 /\ aliases'[w] = {program.operand[w]}
      BY <1>2, <1>6, <2>2 DEF Sized
    <2>3. DOMAIN size' \subseteq OfKind(Allocating \cup Derived \cup {"phi"})
      <3>1. DOMAIN size' \subseteq DOMAIN size \cup {v}
        BY <1>6
      <3> QED BY <1>2, <1>5, <3>1 DEF Sized
    <2>4. OfKind(Allocating \cup {"phi"}) \subseteq DOMAIN size'
      BY <1>2, <1>6 DEF Sized
    <2>5. OfKind(Unsizable) = {} /\ DOMAIN sizePhi' = Phis
      BY <1>1, <1>2 DEF Sized
    <2> QED BY <1>8, <2>1, <2>2, <2>3, <2>4, <2>5 DEF Sized
  <1>12. PointersLeft'
    BY <1>1, <1>2, <1>3, <1>6, <1>8 DEF PointersLeft
  <1> QED BY <1>1, <1>9, <1>10, <1>11, <1>12 DEF PointersInv

\* The first loop goes round again, or has found every size.
LEMMA EndSweepKeeps ==
  ASSUME PointersInv, EndSweep
  PROVE  PointersInv'
  <1>1. /\ phase = "pointers" /\ found' = {} /\ UNCHANGED <<program, size, aliases, sizePhi, changed>>
        /\ IF unknown = found
           THEN phase' = "phis" /\ unknown' = Phis
           ELSE unknown' = unknown \ found /\ phase' = phase
        /\ sweep' = InAddressOrder(unknown')
    BY DEF EndSweep, info
  <1>2. Types /\ Sized /\ PointersLeft /\ AliasesFound /\ program \in Programs
    BY <1>1 DEF PointersInv, Types
  <1>3. /\ Phis' = Phis /\ Values' = Values /\ \A kinds : OfKind(kinds)' = OfKind(kinds)
        /\ \A phi : Incoming(phi)' = Incoming(phi)
        /\ program' = program /\ Phis \subseteq DOMAIN program.kind
    BY <1>1, SameProgram DEF Phis, OfKind
  <1>4. sweep' \in Seq(DOMAIN program.kind) /\ Range(sweep') \subseteq unknown'
    BY <1>1, <1>2, InAddressOrderIs
  <1>5. AliasesFound'
    BY <1>1, <1>2, <1>3, AliasesKept
  <1>6. Types'
    BY <1>1, <1>2, <1>3, <1>4 DEF Types
  <1>7. Sized'
    BY <1>1, <1>2, <1>3 DEF Sized
  <1>8. CASE unknown # found
    <2>1. PointersLeft'
      BY <1>1, <1>2, <1>3, <1>4, <1>8 DEF PointersLeft
    <2> QED BY <1>1, <1>5, <1>6, <1>7, <1>8, <2>1 DEF PointersInv
  <1>9. CASE unknown = found
    <2>1. OfKind(Derived) \subseteq DOMAIN size /\ OfKind({"other"}) \subseteq DOMAIN size
      BY <1>2, <1>9 DEF PointersLeft, OfKind
    <2>2. OfKind({"other"}) \cap OfKind(Allocating \cup Derived \cup {"phi"}) = {}
      BY DEF OfKind, Allocating, Derived
    <2>3. NonePointersLeft'
      BY <1>1, <1>2, <1>3, <2>1, <2>2 DEF NonePointersLeft, Sized
    <2>4. (\A phi \in Phis : EntriesOf(phi, sizePhi[phi]))'
      <3>1. \A D : << >> \in Seq(D)
        OBVIOUS
      <3>2. \A phi \in Phis : sizePhi'[phi] = << >>
        BY <1>1, <1>2 DEF PointersLeft
      <3>3. DOMAIN << >> = {}
        OBVIOUS
      <3>4. \A phi : EntriesOf(phi, << >>)'
        BY <3>1, <3>3 DEF EntriesOf
      <3> QED BY <1>3, <3>2, <3>4
    <2>5. PhisLeft'
      BY <1>1, <1>3, <1>4, <1>9 DEF PhisLeft
    <2> QED BY <1>1, <1>5, <1>6, <1>7, <1>9, <2>3, <2>4, <2>5 DEF PointersInv
  <1> QED BY <1>8, <1>9

\* The size PHI nodes are as they were.
LEMMA EntriesKept ==
  ASSUME program' = program, size' = size, sizePhi' = sizePhi,
         \A phi \in Phis : EntriesOf(phi, sizePhi[phi])
  PROVE  (\A phi \in Phis : EntriesOf(phi, sizePhi[phi]))'
  <1>1. Phis' = Phis /\ \A phi : Incoming(phi)' = Incoming(phi)
    BY SameProgram
  <1>2. \A phi : EntriesOf(phi, sizePhi[phi]) => EntriesOf(phi, sizePhi[phi])'
    BY <1>1 DEF EntriesOf
  <1> QED BY <1>1, <1>2

\* One more incoming value.
LEMMA WithEntryIs ==
  ASSUME Types, NEW phi \in Phis, NEW pair \in Incoming(phi), NEW entries,
         EntriesOf(phi, entries)
  PROVE  /\ EntriesOf(phi, WithEntry(entries, pair))
         /\ \A b : HasEntry(entries, b) => HasEntry(WithEntry(entries, pair), b)
  <1> DEFINE E == Seq((DOMAIN program.kind) \X Blocks)
             new == <<size[pair[1]], pair[2]>>
             r == WithEntry(entries, pair)
  <1>1. CASE HasEntry(entries, pair[2]) \/ pair[1] \notin DOMAIN size
    BY <1>1 DEF WithEntry
  <1>2. CASE ~HasEntry(entries, pair[2]) /\ pair[1] \in DOMAIN size
    <2>1. r = Append(entries, new)
      BY <1>2 DEF WithEntry
    <2>2. new \in (DOMAIN program.kind) \X Blocks
      <3>1. pair \in Values \X Blocks
        BY ProgramTyped DEF Types, Phis, OfKind
      <3>2. size[pair[1]] \in DOMAIN program.kind
        BY <1>2 DEF Types, OfKind
      <3> QED BY <3>1, <3>2
    <2>3. /\ entries \in E
          /\ \A i \in DOMAIN entries : \E p1 \in Incoming(phi) :
               p1[1] \in DOMAIN size /\ entries[i] = <<size[p1[1]], p1[2]>>
          /\ \A i, j \in DOMAIN entries : entries[i][2] = entries[j][2] => i = j
      BY DEF EntriesOf
    <2> DEFINE n == Len(entries)
    <2>4. /\ r \in E /\ DOMAIN r = 1 .. n + 1 /\ r[n + 1] = new /\ DOMAIN entries = 1 .. n
          /\ \A i \in 1 .. n : r[i] = entries[i]
          /\ n \in Nat
      BY <2>1, <2>2, <2>3
    <2>5. \A i \in 1 .. n : entries[i][2] # new[2]
      BY <1>2, <2>4 DEF HasEntry
    <2> HIDE DEF n, r, new, E
    <2>6. ASSUME NEW i \in DOMAIN r
          PROVE  \E p1 \in Incoming(phi) :
                   p1[1] \in DOMAIN size /\ r[i] = <<size[p1[1]], p1[2]>>
      <3>1. CASE i = n + 1
        BY <1>2, <2>4, <3>1 DEF new
      <3>2. CASE i \in 1 .. n
        BY <2>3, <2>4, <3>2
      <3> QED BY <2>4, <3>1, <3>2
    <2>7. ASSUME NEW i \in DOMAIN r, NEW j \in DOMAIN r, r[i][2] = r[j][2]
          PROVE  i = j
      <3>1. CASE i \in 1 .. n /\ j \in 1 .. n
        BY <2>3, <2>4, <2>7, <3>1
      <3>2. CASE i = n + 1 \/ j = n + 1
        BY <2>4, <2>5, <2>7, <3>2
      <3> QED BY <2>4, <3>1, <3>2
    <2>8. \A b : HasEntry(entries, b) => HasEntry(r, b)
      BY <2>4 DEF HasEntry
    <2> QED BY <2>4, <2>6, <2>7, <2>8 DEF EntriesOf, E, r
  <1> QED BY <1>1, <1>2

\* f is the function within WithIncoming.
IsEntries(f, phi, n) ==
  f = [i \in 0 .. n |->
         IF i = 0 THEN sizePhi[phi] ELSE WithEntry(f[i - 1], program.incoming[phi][i])]

\* The loop over the incoming values of a PHI node.
LEMMA WithIncomingIs ==
  ASSUME Types, NEW phi \in Phis, EntriesOf(phi, sizePhi[phi])
  PROVE  /\ EntriesOf(phi, WithIncoming(phi))
         /\ \A b : HasEntry(sizePhi[phi], b) => HasEntry(WithIncoming(phi), b)
  <1> DEFINE pairs == program.incoming[phi]
             n == Len(pairs)
             D == {s \in Seq((DOMAIN program.kind) \X Blocks) : EntriesOf(phi, s)}
             m == CHOOSE f : IsEntries(f, phi, n)
             go == [i \in 1 .. n |-> [s \in D |-> WithEntry(s, pairs[i])]]
  <1>1. pairs \in Seq(Values \X Blocks) /\ n \in Nat
    BY ProgramTyped DEF Types, Phis, OfKind
  <1>2. \A i \in 1 .. n : pairs[i] \in Incoming(phi)
    BY <1>1 DEF Incoming, Range
  <1>3. WithIncoming(phi) = m[n]
    BY DEF WithIncoming, IsEntries
  <1>4. sizePhi[phi] \in D
    BY DEF EntriesOf
  <1>5. \A i \in 1 .. n : \A s \in D : WithEntry(s, pairs[i]) \in D
    <2> SUFFICES ASSUME NEW i \in 1 .. n, NEW s \in D PROVE EntriesOf(phi, WithEntry(s, pairs[i]))
      BY DEF EntriesOf
    <2> QED BY <1>2, WithEntryIs
  <1> HIDE DEF n, pairs, D
  <1>6. \E f : f \in [0 .. n -> D] /\ IsEntries(f, phi, n)
    <2>1. go \in [1 .. n -> [D -> D]]
      BY <1>5
    <2> HIDE DEF go
    <2>2. PICK f \in [0 .. n -> D] : IsIterated(f, sizePhi[phi], go, n)
      BY <1>1, <1>4, <2>1, Iterated
    <2> USE DEF go
    <2>3. ASSUME NEW i \in 0 .. n
          PROVE  f[i] = IF i = 0 THEN sizePhi[phi] ELSE WithEntry(f[i - 1], pairs[i])
      <3>1. f[i] = IF i = 0 THEN sizePhi[phi] ELSE go[i][f[i - 1]]
        BY <2>2 DEF IsIterated
      <3>2. i # 0 => i \in 1 .. n /\ f[i - 1] \in D
        BY <1>1
      <3> QED BY <3>1, <3>2
    <2>4. f = [i \in 0 .. n |-> f[i]]
      OBVIOUS
    <2> HIDE DEF go
    <2> QED BY <2>3, <2>4 DEF IsEntries, pairs
  <1>7. IsEntries(m, phi, n)
    BY <1>6, Zenon
  <1> HIDE DEF m
  <1> DEFINE Good(i) == /\ m[i] \in D
                        /\ \A b : HasEntry(sizePhi[phi], b) => HasEntry(m[i], b)
             T == {i \in 0 .. n : Good(i)}
  <1>8. 0 \in T
    BY <1>1, <1>4, <1>7 DEF IsEntries
  <1>9. ASSUME NEW i \in 0 .. n - 1, i \in T PROVE i + 1 \in T
    <2>1. i + 1 \in 0 .. n /\ i + 1 # 0 /\ (i + 1) - 1 = i /\ i + 1 \in 1 .. n
      BY <1>1
    <2>2. m[i + 1] = IF i + 1 = 0 THEN sizePhi[phi] ELSE WithEntry(m[(i + 1) - 1], pairs[i + 1])
      BY <1>7, <2>1 DEF IsEntries, pairs
    <2>3. m[i + 1] = WithEntry(m[i], pairs[i + 1])
      BY <2>1, <2>2
    <2>4. EntriesOf(phi, m[i])
      BY <1>9 DEF D
    <2>5. \A b : HasEntry(m[i], b) => HasEntry(m[i + 1], b)
      BY <1>2, <2>1, <2>3, <2>4, WithEntryIs
    <2> QED BY <1>5, <1>9, <2>1, <2>3, <2>5
  <1> HIDE DEF T
  <1>10. 0 .. n \subseteq T
    BY <1>1, <1>8, <1>9, UpTo
  <1>11. Good(n)
    BY <1>1, <1>10 DEF T
  <1> QED BY <1>3, <1>11 DEF D

\* The size PHI nodes of one PHI node get what is known of its incoming values.
LEMMA VisitSizePhiKeeps ==
  ASSUME PointersInv, VisitSizePhi
  PROVE  PointersInv'
  <1> DEFINE phi == Head(sweep)
             entries == WithIncoming(phi)
  <1>1. /\ phase = "phis" /\ phase' = phase /\ sweep # << >> /\ sweep' = Tail(sweep)
        /\ UNCHANGED <<program, size, aliases, unknown, changed>>
        /\ sizePhi' = [sizePhi EXCEPT ![phi] = entries]
        /\ found' = IF AllKnown(phi, entries) THEN found \cup {phi} ELSE found
    BY DEF VisitSizePhi
  <1>2. /\ Types /\ Sized /\ NonePointersLeft /\ PhisLeft /\ AliasesFound /\ program \in Programs
        /\ \A other \in Phis : EntriesOf(other, sizePhi[other])
    BY <1>1 DEF PointersInv, Types
  <1>3. phi \in Phis /\ sweep' \in Seq(DOMAIN program.kind) /\ Range(sweep') \subseteq Phis
    BY <1>1, <1>2, HeadAndTail DEF Types, PhisLeft
  <1> HIDE DEF phi
  <1>4. /\ EntriesOf(phi, entries)
        /\ \A b : HasEntry(sizePhi[phi], b) => HasEntry(entries, b)
    BY <1>2, <1>3, WithIncomingIs
  <1> HIDE DEF entries
  <1>5. /\ Phis' = Phis /\ Values' = Values /\ \A kinds : OfKind(kinds)' = OfKind(kinds)
        /\ \A v : Incoming(v)' = Incoming(v)
        /\ program' = program /\ Phis \subseteq DOMAIN program.kind
    BY <1>1, SameProgram DEF Phis, OfKind
  <1>6. /\ DOMAIN sizePhi' = Phis /\ sizePhi'[phi] = entries
        /\ \A other \in Phis : other # phi => sizePhi'[other] = sizePhi[other]
    BY <1>1, <1>2, <1>3 DEF Sized
  <1>7. AliasesFound'
    BY <1>1, <1>2, <1>5, AliasesKept
  <1>8. Types'
    BY <1>1, <1>2, <1>3, <1>5 DEF Types
  <1>9. Sized' /\ NonePointersLeft'
    BY <1>1, <1>2, <1>5, <1>6 DEF Sized, NonePointersLeft
  <1>10. (\A other \in Phis : EntriesOf(other, sizePhi[other]))'
    <2>1. \A other \in Phis : EntriesOf(other, sizePhi'[other])
      BY <1>2, <1>4, <1>6
    <2> QED BY <1>1, <1>5, <2>1 DEF EntriesOf
  <1>11. PhisLeft'
    <2>1. \A other : Known(other)' <=> AllKnown(other, sizePhi'[other])
      BY <1>5 DEF Known, AllKnown, HasEntry
    <2>2. ASSUME NEW other \in (Phis \ unknown) \cup found'
          PROVE  AllKnown(other, sizePhi'[other])
      <3>1. CASE other = phi
        <4>1. CASE AllKnown(phi, entries)
          BY <1>6, <3>1, <4>1
        <4>2. CASE ~AllKnown(phi, entries)
          <5>1. AllKnown(phi, sizePhi[phi])
            BY <1>1, <1>2, <2>2, <3>1, <4>2 DEF PhisLeft, Known
          <5> QED BY <1>4, <1>6, <3>1, <5>1 DEF AllKnown
        <4> QED BY <4>1, <4>2
      <3>2. CASE other # phi
        <4>1. other \in (Phis \ unknown) \cup found /\ other \in Phis
          BY <1>1, <1>2, <1>3, <2>2, <3>2 DEF PhisLeft
        <4> QED BY <1>2, <1>6, <3>2, <4>1 DEF PhisLeft, Known
      <3> QED BY <3>1, <3>2
    <2>3. \A other \in (Phis' \ unknown') \cup found' : Known(other)'
      BY <1>1, <1>5, <2>1, <2>2
    <2>4. unknown' \subseteq Phis' /\ Range(sweep') \subseteq Phis' /\ found' \subseteq Phis'
      BY <1>1, <1>2, <1>3, <1>5 DEF PhisLeft
    <2> QED BY <2>3, <2>4 DEF PhisLeft
  <1> QED BY <1>1, <1>7, <1>8, <1>9, <1>10, <1>11 DEF PointersInv

\* The second loop goes round again, or knows every entry.
LEMMA EndPhiSweepKeeps ==
  ASSUME PointersInv, EndPhiSweep
  PROVE  PointersInv'
  <1>1. /\ phase = "phis" /\ found' = {} /\ ~changed' /\ changed' \in BOOLEAN
        /\ UNCHANGED <<program, size, aliases, sizePhi>>
        /\ IF unknown = found
           THEN phase' = "aliases" /\ unknown' = {} /\ sweep' = InAddressOrder(Phis)
           ELSE /\ unknown' = unknown \ found /\ sweep' = InAddressOrder(unknown')
                /\ phase' = phase
    BY DEF EndPhiSweep, info
  <1>2. /\ Types /\ Sized /\ NonePointersLeft /\ PhisLeft /\ AliasesFound /\ program \in Programs
        /\ \A phi \in Phis : EntriesOf(phi, sizePhi[phi])
    BY <1>1 DEF PointersInv, Types
  <1>3. /\ Phis' = Phis /\ Values' = Values /\ \A kinds : OfKind(kinds)' = OfKind(kinds)
        /\ \A v : Incoming(v)' = Incoming(v)
        /\ program' = program /\ Phis \subseteq DOMAIN program.kind
    BY <1>1, SameProgram DEF Phis, OfKind
  <1>4. \A S : /\ InAddressOrder(S) \in Seq(DOMAIN program.kind)
               /\ Range(InAddressOrder(S)) = (DOMAIN program.kind) \cap S
    BY <1>2, InAddressOrderIs
  <1>5. AliasesFound'
    BY <1>1, <1>2, <1>3, AliasesKept
  <1>6. Types'
    BY <1>1, <1>2, <1>3, <1>4 DEF Types
  <1>7. Sized' /\ NonePointersLeft' /\ (\A phi \in Phis : EntriesOf(phi, sizePhi[phi]))'
    <2>1. Sized' /\ NonePointersLeft'
      BY <1>1, <1>2, <1>3 DEF Sized, NonePointersLeft
    <2> QED BY <1>1, <1>2, <2>1, EntriesKept
  <1>8. \A phi : Known(phi)' = Known(phi)
    BY <1>1, <1>3 DEF Known, AllKnown, HasEntry
  <1>9. CASE unknown # found
    <2>1. unknown' = unknown \ found /\ Range(sweep') \subseteq unknown'
      BY <1>1, <1>4, <1>9
    <2>2. PhisLeft'
      <3>1. unknown' \subseteq Phis' /\ Range(sweep') \subseteq Phis' /\ found' \subseteq Phis'
        BY <1>1, <1>2, <1>3, <2>1 DEF PhisLeft
      <3>2. \A phi \in (Phis \ unknown') \cup found' : Known(phi)
        BY <1>1, <1>2, <2>1 DEF PhisLeft
      <3>3. \A phi \in (Phis' \ unknown') \cup found' : Known(phi)'
        BY <1>1, <1>3, <1>8, <3>2
      <3> QED BY <3>1, <3>3 DEF PhisLeft
    <2> QED BY <1>1, <1>5, <1>6, <1>7, <1>9, <2>2 DEF PointersInv
  <1>10. CASE unknown = found
    <2>1. \A phi \in Phis : Known(phi)
      BY <1>2, <1>10 DEF PhisLeft
    <2>2. NonePhisLeft'
      BY <1>1, <1>3, <1>8, <2>1 DEF NonePhisLeft
    <2>3. Range(sweep') = Phis
      BY <1>1, <1>3, <1>4, <1>10
    <2>4. SweepLeft'
      BY <1>1, <1>3, <2>3 DEF SweepLeft
    <2> QED BY <1>1, <1>5, <1>6, <1>7, <1>10, <2>2, <2>4 DEF PointersInv
  <1> QED BY <1>9, <1>10

\* The third loop goes round again if an alias set changed.
LEMMA EndAliasPassKeeps ==
  ASSUME PointersInv, EndAliasPass
  PROVE  PointersInv'
  <1>1. /\ phase = "aliases" /\ sweep = << >> /\ ~changed' /\ changed' \in BOOLEAN
        /\ UNCHANGED <<program, size, aliases, sizePhi, unknown, found>>
        /\ IF changed THEN sweep' = InAddressOrder(Phis) /\ phase' = phase
           ELSE phase' = "done" /\ sweep' = sweep
    BY DEF EndAliasPass, info
  <1>2. /\ Types /\ Sized /\ NonePointersLeft /\ NonePhisLeft /\ SweepLeft /\ AliasesFound
        /\ program \in Programs /\ \A phi \in Phis : EntriesOf(phi, sizePhi[phi])
    BY <1>1 DEF PointersInv, Types
  <1>3. /\ Phis' = Phis /\ Values' = Values /\ \A kinds : OfKind(kinds)' = OfKind(kinds)
        /\ \A v : Incoming(v)' = Incoming(v)
        /\ program' = program /\ Phis \subseteq DOMAIN program.kind
    BY <1>1, SameProgram DEF Phis, OfKind
  <1>4. InAddressOrder(Phis) \in Seq(DOMAIN program.kind) /\ Range(InAddressOrder(Phis)) = Phis
    BY <1>2, <1>3, InAddressOrderIs
  <1>5. AliasesFound'
    BY <1>1, <1>2, <1>3, AliasesKept
  <1>6. Types'
    BY <1>1, <1>2, <1>3, <1>4 DEF Types
  <1>7. Sized' /\ NonePointersLeft' /\ (\A phi \in Phis : EntriesOf(phi, sizePhi[phi]))'
    <2>1. Sized' /\ NonePointersLeft'
      BY <1>1, <1>2, <1>3 DEF Sized, NonePointersLeft
    <2> QED BY <1>1, <1>2, <2>1, EntriesKept
  <1>8. NonePhisLeft'
    BY <1>1, <1>2, <1>3 DEF NonePhisLeft, Known, AllKnown, HasEntry
  <1>9. CASE changed
    <2>1. SweepLeft'
      BY <1>1, <1>3, <1>4, <1>9 DEF SweepLeft
    <2> QED BY <1>1, <1>5, <1>6, <1>7, <1>8, <1>9, <2>1 DEF PointersInv
  <1>10. CASE ~changed
    <2>1. Range(sweep) = {}
      BY <1>1 DEF Range
    <2>2. NoneInAliases'
      BY <1>1, <1>2, <1>3, <1>10, <2>1 DEF SweepLeft, NoneInAliases
    <2> QED BY <1>1, <1>5, <1>6, <1>7, <1>8, <1>10, <2>2 DEF PointersInv
  <1> QED BY <1>9, <1>10

\* The one step that changes the alias set of a PHI node: what it aliases already,
\* and what the PHI nodes among that do, without them.
LEMMA VisitPhiAliases ==
  ASSUME PointersInv, VisitPhi, NEW phi \in Phis, phi = Head(sweep)
  PROVE  /\ aliases'[phi] = Resolved(phi) /\ DOMAIN aliases' = DOMAIN aliases
         /\ \A v \in DOMAIN aliases : v # phi => aliases'[v] = aliases[v]
         /\ AliasesFound'
  <1> DEFINE others == aliases[phi] \cap Phis
  <1>1. /\ phase = "aliases" /\ program' = program
        /\ aliases' = [aliases EXCEPT ![phi] = Resolved(phi)]
    BY DEF VisitPhi
  <1>2. Types /\ Sized /\ AliasesFound /\ program \in Programs
    BY <1>1 DEF PointersInv, Types
  <1>3. Phis \subseteq DOMAIN aliases
    BY <1>2 DEF Sized, Types, Phis, OfKind
  <1>4. /\ aliases'[phi] = Resolved(phi) /\ DOMAIN aliases' = DOMAIN aliases
        /\ \A v \in DOMAIN aliases : v # phi => aliases'[v] = aliases[v]
    BY <1>1, <1>3
  <1>5. Phis' = Phis /\ Values' = Values /\ \A v : PhiOrigins(v)' = PhiOrigins(v)
    BY <1>1, SameProgram
  <1>6. Resolved(phi) = (aliases[phi] \cup UNION {TakenFrom(phi, other) : other \in others}) \ others
    BY DEF Resolved
  <1>7. \A other : /\ TakenFrom(phi, other) \subseteq aliases[other]
                   /\ \A v \in aliases[other] :
                        <<phi, v>> \notin program.noAlias => v \in TakenFrom(phi, other)
    BY DEF TakenFrom
  <1>8. ASSUME NEW q \in Phis PROVE aliases'[q] \subseteq PhiOrigins(q)
    <2>1. CASE q # phi
      BY <1>2, <1>3, <1>4, <2>1 DEF AliasesFound
    <2>2. CASE q = phi
      <3>1. \A other \in others : aliases[other] \subseteq PhiOrigins(phi)
        <4>1. PhiEdges \in SUBSET (Values \X Values)
          BY <1>2, ProgramTyped
        <4>2. ASSUME NEW other \in others PROVE aliases[other] \subseteq PhiOrigins(phi)
          <5>1. other \in ReachedFrom(phi, PhiEdges) /\ aliases[other] \subseteq PhiOrigins(other)
            BY <1>2 DEF AliasesFound, PhiOrigins
          <5>2. PhiOrigins(other) \subseteq PhiOrigins(phi)
            BY <4>1, <5>1, ReachedOn DEF PhiOrigins
          <5> QED BY <5>1, <5>2
        <4> QED BY <4>2
      <3>2. aliases[phi] \subseteq PhiOrigins(phi)
        BY <1>2 DEF AliasesFound
      <3> HIDE DEF others
      <3> QED BY <1>4, <1>6, <1>7, <2>2, <3>1, <3>2
    <2> QED BY <2>1, <2>2
  <1>9. ASSUME program.noAlias = {}, NEW q \in Phis, NEW S \in SUBSET Values,
               \A p \in Phis : p \in {q} \cup S => aliases'[p] \subseteq S
        PROVE  PhiOrigins(q) \ Phis \subseteq S
    <2>1. Covered(q)
      BY <1>2, <1>9 DEF AliasesFound
    <2>2. CASE phi \notin {q} \cup S
      <3>1. \A p \in Phis : p \in {q} \cup S => aliases[p] \subseteq S
        BY <1>3, <1>4, <1>9, <2>2
      <3> QED BY <2>1, <3>1 DEF Covered
    <2>3. CASE phi \in {q} \cup S
      <3> DEFINE more == S \cup others
      <3>1. Resolved(phi) \subseteq S
        BY <1>4, <1>9, <2>3
      <3>2. more \in SUBSET Values
        <4>1. Phis \subseteq Values
          BY DEF Phis, OfKind, Values
        <4> QED BY <4>1
      <3>3. ASSUME NEW p \in Phis, p \in {q} \cup more PROVE aliases[p] \subseteq more
        <4>1. CASE p = phi
          BY <1>6, <3>1, <4>1
        <4>2. CASE p \in others
          <5>1. aliases[p] \subseteq TakenFrom(phi, p)
            BY <1>7, <1>9
          <5>2. TakenFrom(phi, p) \subseteq UNION {TakenFrom(phi, other) : other \in others}
            BY <4>2
          <5> HIDE DEF others
          <5> QED BY <1>6, <3>1, <5>1, <5>2
        <4>3. CASE p # phi /\ p \notin others
          BY <1>3, <1>4, <1>9, <3>3, <4>3
        <4> QED BY <4>1, <4>2, <4>3
      <3> HIDE DEF more
      <3>4. PhiOrigins(q) \ Phis \subseteq more
        BY <2>1, <3>2, <3>3 DEF Covered
      <3> QED BY <3>4 DEF more
    <2> QED BY <2>2, <2>3
  <1>10. ASSUME \A pair \in program.noAlias : pair[2] \notin Phis,
                NEW i \in DOMAIN program.holds, NEW q \in DOMAIN program.holds[i]
         PROVE  Traced(q, i)'
    <2> DEFINE value == program.holds[i][q]
               Held(p, j) == p \in DOMAIN program.holds[j] /\ program.holds[j][p] = value
    <2>1. /\ q \in Phis /\ i \in Nat /\ value \notin Phis /\ <<q, value>> \notin program.noAlias
          /\ 1 .. i - 1 \subseteq DOMAIN program.holds
      BY <1>2, HoldsTyped, HoldsAreSeq
    <2>2. Traced(q, i)
      BY <1>2, <1>10 DEF AliasesFound
    <2> HIDE DEF value
    <2>3. SUFFICES \/ value \in aliases'[q]
                   \/ \E p \in aliases'[q] \cap Phis : \E j \in 1 .. i - 1 : Held(p, j)
      BY <1>1, <1>5 DEF Traced, value
    <2>4. \/ value \in aliases[q]
          \/ \E p \in aliases[q] \cap Phis : \E j \in 1 .. i - 1 : Held(p, j)
      BY <2>2 DEF Traced, value
    <2>5. CASE q # phi
      BY <1>3, <1>4, <2>1, <2>4, <2>5
    <2>6. CASE q = phi /\ value \in aliases[q]
      BY <1>4, <1>6, <2>1, <2>6
    <2>7. CASE q = phi /\ \E p \in others : \E j \in 1 .. i - 1 : Held(p, j)
      <3> DEFINE T == {j \in 1 .. i - 1 : \E p \in others : Held(p, j)}
      <3>1. T \in SUBSET Nat /\ T # {}
        BY <2>7
      <3> HIDE DEF T
      <3>2. PICK j \in T : \A k \in T : j <= k
        BY <3>1, Least
      <3>3. PICK p \in others : Held(p, j)
        BY DEF T
      <3>4. j \in 1 .. i - 1 /\ j \in DOMAIN program.holds
        BY <2>1 DEF T
      <3>5. Traced(p, j)
        BY <1>2, <1>10, <3>3, <3>4 DEF AliasesFound
      <3>6. CASE value \in aliases[p]
        <4>1. value \in TakenFrom(phi, p)
          BY <1>7, <2>1, <2>7, <3>6
        <4>2. value \in UNION {TakenFrom(phi, other) : other \in others} /\ value \notin others
          BY <2>1, <4>1
        <4> HIDE DEF others
        <4> QED BY <1>4, <1>6, <2>7, <4>2
      <3>7. ASSUME NEW r \in aliases[p] \cap Phis, NEW k \in 1 .. j - 1, Held(r, k)
            PROVE  \E o \in aliases'[q] \cap Phis : \E l \in 1 .. i - 1 : Held(o, l)
        <4>1. k \in 1 .. i - 1 /\ ~(j <= k)
          BY <2>1, <3>4
        <4>2. r \notin others
          BY <3>2, <3>7, <4>1 DEF T
        <4>3. r \in TakenFrom(phi, p)
          <5>1. <<phi, r>> \notin program.noAlias
            BY <1>10
          <5> QED BY <1>7, <5>1
        <4>4. r \in UNION {TakenFrom(phi, other) : other \in others}
          BY <4>3
        <4> HIDE DEF others
        <4>5. r \in Resolved(phi)
          BY <1>6, <4>2, <4>4
        <4> QED BY <1>4, <2>7, <3>7, <4>1, <4>5
      <3> QED BY <3>3, <3>5, <3>6, <3>7 DEF Traced
    <2> QED BY <2>4, <2>5, <2>6, <2>7
  <1>11. AliasesFound'
    <2>1. (\A q \in Phis : aliases[q] \subseteq PhiOrigins(q))'
      BY <1>5, <1>8
    <2>2. program.noAlias = {} => (\A q \in Phis : Covered(q))'
      BY <1>5, <1>9 DEF Covered
    <2>3. (\A pair \in program.noAlias : pair[2] \notin Phis) =>
            \A i \in DOMAIN program.holds : \A q \in DOMAIN program.holds[i] : Traced(q, i)'
      BY <1>10
    <2> QED BY <1>1, <1>5, <2>1, <2>2, <2>3 DEF AliasesFound
  <1> QED BY <1>4, <1>11

\* The rest of what holds of that step.
LEMMA VisitPhiKeeps ==
  ASSUME PointersInv, VisitPhi
  PROVE  PointersInv'
  <1> DEFINE phi == Head(sweep)
  <1>1. /\ phase = "aliases" /\ phase' = phase /\ sweep # << >> /\ sweep' = Tail(sweep)
        /\ UNCHANGED <<program, size, sizePhi, unknown, found>>
        /\ changed' = Changed(phi)
    BY DEF VisitPhi
  <1>2. /\ Types /\ Sized /\ NonePointersLeft /\ NonePhisLeft /\ SweepLeft /\ AliasesFound
        /\ program \in Programs /\ \A q \in Phis : EntriesOf(q, sizePhi[q])
    BY <1>1 DEF PointersInv, Types
  <1>3. /\ phi \in Phis /\ sweep' \in Seq(DOMAIN program.kind) /\ Range(sweep') \subseteq Phis
        /\ Range(sweep) = {phi} \cup Range(sweep')
    BY <1>1, <1>2, HeadAndTail DEF Types, SweepLeft
  <1> HIDE DEF phi
  <1>4. /\ Phis' = Phis /\ Values' = Values /\ \A kinds : OfKind(kinds)' = OfKind(kinds)
        /\ \A v : Incoming(v)' = Incoming(v)
        /\ program' = program /\ Phis \subseteq DOMAIN program.kind
    BY <1>1, SameProgram DEF Phis, OfKind
  <1>5. /\ aliases'[phi] = Resolved(phi) /\ DOMAIN aliases' = DOMAIN aliases
        /\ \A v \in DOMAIN aliases : v # phi => aliases'[v] = aliases[v]
        /\ AliasesFound'
    BY <1>3, VisitPhiAliases DEF phi
  <1>6. Phis \subseteq DOMAIN aliases /\ DOMAIN aliases = DOMAIN size
    BY <1>2 DEF Sized, Types, Phis, OfKind
  <1>7. Types'
    <2>1. \A v \in DOMAIN aliases : aliases[v] \in SUBSET Values
      BY <1>2 DEF Types
    <2>2. Resolved(phi) \in SUBSET Values
      BY <1>3, <1>6, <2>1 DEF Resolved, TakenFrom
    <2>3. \A v \in DOMAIN aliases : aliases'[v] \in SUBSET Values
      BY <1>5, <2>1, <2>2
    <2>4. changed' \in BOOLEAN
      BY <1>1, <1>2 DEF Changed, Types
    <2> QED BY <1>1, <1>2, <1>3, <1>4, <1>5, <1>6, <2>3, <2>4 DEF Types
  <1>8. Sized'
    <2>1. phi \notin OfKind(Allocating) /\ phi \notin OfKind(Derived)
      BY <1>3 DEF Phis, OfKind, Allocating, Derived
    <2>2. \A v \in OfKind(Allocating) : v \in DOMAIN aliases /\ aliases'[v] = {v}
      BY <1>2, <1>5, <1>6, <2>1 DEF Sized, OfKind
    <2>3. \A v \in OfKind(Derived) : v \in DOMAIN size =>
            program.operand[v] \in DOMAIN size \ {v} /\ aliases'[v] = {program.operand[v]}
      BY <1>2, <1>5, <1>6, <2>1 DEF Sized
    <2> QED BY <1>1, <1>2, <1>4, <2>2, <2>3 DEF Sized
  <1>9. NonePointersLeft' /\ NonePhisLeft' /\ (\A q \in Phis : EntriesOf(q, sizePhi[q]))'
    <2>1. NonePointersLeft'
      BY <1>1, <1>2, <1>4 DEF NonePointersLeft
    <2>2. NonePhisLeft'
      BY <1>1, <1>2, <1>4 DEF NonePhisLeft, Known, AllKnown, HasEntry
    <2> QED BY <1>1, <1>2, <2>1, <2>2, EntriesKept
  <1>10. SweepLeft'
    <2>1. ASSUME ~changed', NEW q \in Phis \ Range(sweep')
          PROVE  aliases'[q] \cap Phis = {}
      <3>1. ~changed /\ aliases[phi] \cap Phis = {}
        BY <1>1, <2>1 DEF Changed
      <3>2. CASE q # phi
        BY <1>2, <1>3, <1>5, <1>6, <3>1, <3>2 DEF SweepLeft
      <3>3. CASE q = phi
        BY <1>5, <3>1, <3>3 DEF Resolved
      <3> QED BY <3>2, <3>3
    <2> QED BY <1>3, <1>4, <2>1 DEF SweepLeft
  <1> QED BY <1>1, <1>5, <1>7, <1>8, <1>9, <1>10 DEF PointersInv

\* Every step keeps the invariant, and so does none.
LEMMA PointersStep ==
  ASSUME PointersInv, [Next]_vars
  PROVE  PointersInv'
  <1>1. CASE UNCHANGED vars
    <2>1. UNCHANGED <<phase, program, size, aliases, sizePhi, unknown, sweep, found, changed>>
      BY <1>1 DEF vars, info
    <2>2. /\ Phis' = Phis /\ Values' = Values /\ \A kinds : OfKind(kinds)' = OfKind(kinds)
          /\ \A v : Incoming(v)' = Incoming(v)
      BY <2>1, SameProgram
    <2>3. Types' /\ program \in Programs
      BY <2>1, <2>2 DEF PointersInv, Types
    <2>4. /\ Sized' <=> Sized
          /\ NonePointersLeft' <=> NonePointersLeft
          /\ PointersLeft' <=> PointersLeft
      BY <2>1, <2>2 DEF Sized, NonePointersLeft, PointersLeft
    <2>5. \A phi : Known(phi)' = Known(phi)
      BY <2>1, <2>2 DEF Known, AllKnown, HasEntry
    <2>6. /\ PhisLeft' <=> PhisLeft
          /\ NonePhisLeft' <=> NonePhisLeft
          /\ SweepLeft' <=> SweepLeft
          /\ NoneInAliases' <=> NoneInAliases
      BY <2>1, <2>2, <2>5 DEF PhisLeft, NonePhisLeft, SweepLeft, NoneInAliases
    <2>7. AliasesFound => AliasesFound'
      BY <2>1, <2>3, AliasesKept
    <2>8. (\A phi \in Phis : EntriesOf(phi, sizePhi[phi])) =>
            (\A phi \in Phis : EntriesOf(phi, sizePhi[phi]))'
      BY <2>1, EntriesKept
    <2> QED BY <2>1, <2>3, <2>4, <2>6, <2>7, <2>8 DEF PointersInv
  <1> QED BY <1>1, CollectPointersKeeps, StoppedKeeps, VisitPointerKeeps, EndSweepKeeps,
             VisitSizePhiKeeps, EndPhiSweepKeeps, VisitPhiKeeps, EndAliasPassKeeps DEF Next

\* What holds between the steps of the analysis.
THEOREM PointersInvariant == Spec => []PointersInv
  <1>1. Init => PointersInv
    BY PointersInit
  <1>2. PointersInv /\ [Next]_vars => PointersInv'
    BY PointersStep
  <1> QED BY <1>1, <1>2, PTL DEF Spec

----------------------------------------------------------------------------
(* What it says of the properties *)

\* The variables have their types, and a pointer a size exactly if an alias set.
THEOREM PointersTyped == Spec => []TypeOK
  <1>1. PointersInv => TypeOK
    <2> SUFFICES ASSUME Types PROVE TypeOK
      BY DEF PointersInv
    <2>1. Range(sweep) \subseteq DOMAIN program.kind
      BY DEF Types, Range
    <2>2. \A v \in DOMAIN size : aliases[v] \subseteq DOMAIN program.kind \cup {Elsewhere}
      BY DEF Types, Values
    <2> QED BY <2>1, <2>2 DEF Types, TypeOK
  <1> QED BY <1>1, PointersInvariant, PTL

\* After the first two loops everything has a size, and so has what it comes from.
LEMMA AllSized ==
  ASSUME PointersInv, phase \in {"aliases", "done"}
  PROVE  /\ DOMAIN size = DOMAIN program.kind
         /\ DOMAIN program.kind = OfKind(Allocating) \cup OfKind(Derived) \cup Phis
         /\ \A v \in DOMAIN size : Sources(v) \subseteq DOMAIN size
         /\ \A phi \in Phis : \A pair \in Incoming(phi) :
              \E i \in DOMAIN sizePhi[phi] : sizePhi[phi][i] = <<size[pair[1]], pair[2]>>
  <1>1. /\ Types /\ Sized /\ NonePointersLeft /\ NonePhisLeft /\ program \in Programs
        /\ \A phi \in Phis : EntriesOf(phi, sizePhi[phi])
    BY DEF PointersInv, Types
  <1>2. DOMAIN program.kind = OfKind(Allocating) \cup OfKind(Derived) \cup Phis
    <2>1. OfKind({"other"}) = {} /\ OfKind(Unsizable) = {}
      BY <1>1 DEF NonePointersLeft, Sized
    <2>2. \A v \in DOMAIN program.kind : program.kind[v] \in Kinds
      BY <1>1, ProgramTyped
    <2> QED BY <2>1, <2>2 DEF OfKind, Kind, Kinds, Unsizable, Phis, Allocating, Derived
  <1>3. DOMAIN size = DOMAIN program.kind
    <2>1. OfKind(Allocating) \subseteq DOMAIN size /\ Phis \subseteq DOMAIN size
      BY <1>1 DEF Sized, OfKind, Phis
    <2> QED BY <1>1, <1>2, <2>1 DEF Types, NonePointersLeft
  <1>4. ASSUME NEW phi \in Phis, NEW pair \in Incoming(phi)
        PROVE  /\ pair[1] \in DOMAIN size
               /\ \E i \in DOMAIN sizePhi[phi] : sizePhi[phi][i] = <<size[pair[1]], pair[2]>>
    <2> DEFINE es == sizePhi[phi]
    <2>1. PICK i \in DOMAIN es : es[i][2] = pair[2]
      BY <1>1 DEF NonePhisLeft, Known, AllKnown, HasEntry
    <2>2. PICK other \in Incoming(phi) :
            other[1] \in DOMAIN size /\ es[i] = <<size[other[1]], other[2]>>
      BY <1>1 DEF EntriesOf
    <2>3. other = pair
      <3>1. other[2] = pair[2]
        BY <2>1, <2>2
      <3>2. phi \in DOMAIN program.kind
        BY DEF Phis, OfKind
      <3> QED BY <1>1, <3>1, <3>2, ProgramTyped
    <2> QED BY <2>2, <2>3
  <1>5. ASSUME NEW v \in DOMAIN size PROVE Sources(v) \subseteq DOMAIN size
    <2>1. CASE v \in Phis
      BY <1>1, <1>4, <2>1, ProgramTyped
    <2>2. CASE v \notin Phis /\ v \in OfKind(Derived)
      <3>1. Sources(v) = {program.operand[v]}
        BY <2>2 DEF Sources, OfKind
      <3> QED BY <1>1, <1>5, <2>2, <3>1 DEF Sized
    <2>3. CASE v \notin Phis /\ v \notin OfKind(Derived)
      BY <1>3, <2>3 DEF Sources, OfKind
    <2> QED BY <2>1, <2>2, <2>3
  <1> QED BY <1>2, <1>3, <1>4, <1>5

\* Nothing comes from elsewhere: the loops over unknown sizes would not have ended.
THEOREM PointersRooted == Spec => []DoneOnlyIfRooted
  <1>1. PointersInv => DoneOnlyIfRooted
    <2> SUFFICES ASSUME PointersInv, phase \in {"aliases", "done"},
                        NEW v \in OfKind(Derived \cup {"phi"})
                 PROVE  Elsewhere \notin Origins(v)
      BY DEF DoneOnlyIfRooted, Rooted
    <2>1. program \in Programs
      BY DEF PointersInv, Types
    <2>2. /\ DOMAIN size = DOMAIN program.kind /\ v \in DOMAIN size
          /\ \A w \in DOMAIN size : Sources(w) \subseteq DOMAIN size
      BY AllSized DEF OfKind
    <2>3. ASSUME NEW edge \in Computation, edge[1] \in {v} \cup DOMAIN size
          PROVE  edge[2] \in DOMAIN size
      BY <2>2 DEF Computation
    <2>4. DOMAIN size \in SUBSET Values /\ Elsewhere \notin DOMAIN size
      BY <2>1, <2>2, ProgramTyped DEF Values
    <2>5. Origins(v) \subseteq DOMAIN size
      BY <2>3, <2>4, ReachedLeast DEF Origins, Computation
    <2> QED BY <2>4, <2>5
  <1> QED BY <1>1, PointersInvariant, PTL

\* No PHI node is left in an alias set, and nothing is there that it cannot be.
THEOREM PointersResolved == Spec => []PhisResolved
  <1>1. PointersInv => PhisResolved
    <2> SUFFICES ASSUME PointersInv, phase = "done", NEW phi \in Phis
                 PROVE  aliases[phi] \subseteq Origins(phi) \ Phis
      BY DEF PhisResolved
    <2>1. program \in Programs /\ AliasesFound /\ NoneInAliases
      BY DEF PointersInv, Types
    <2>2. PhiOrigins(phi) \subseteq Origins(phi)
      BY <2>1, ProgramTyped, ReachedByFewer DEF PhiOrigins, Origins, Computation
    <2> QED BY <2>1, <2>2 DEF AliasesFound, NoneInAliases
  <1> QED BY <1>1, PointersInvariant, PTL

\* The size PHI nodes take the size of what their PHI node takes, once a block.
THEOREM PointersSizesFollow == Spec => []SizesFollow
  <1>1. PointersInv => SizesFollow
    <2> SUFFICES ASSUME PointersInv, phase \in {"aliases", "done"}, NEW phi \in Phis
                 PROVE  LET from == program.incoming[phi]
                        IN  /\ Range(sizePhi[phi]) = {<<size[pair[1]], pair[2]>> : pair \in Range(from)}
                            /\ Len(sizePhi[phi]) = Cardinality({pair[2] : pair \in Range(from)})
      BY DEF SizesFollow
    <2> DEFINE es     == sizePhi[phi]
               blocks == {pair[2] : pair \in Incoming(phi)}
    <2>1. EntriesOf(phi, es)
      BY DEF PointersInv
    <2>2. \A pair \in Incoming(phi) : \E i \in DOMAIN es : es[i] = <<size[pair[1]], pair[2]>>
      BY AllSized
    <2>3. Range(es) = {<<size[pair[1]], pair[2]>> : pair \in Incoming(phi)}
      <3> DEFINE expected == {<<size[pair[1]], pair[2]>> : pair \in Incoming(phi)}
      <3>1. \A i \in DOMAIN es : es[i] \in expected
        BY <2>1 DEF EntriesOf
      <3>2. \A e \in expected : \E i \in DOMAIN es : es[i] = e
        BY <2>2
      <3> HIDE DEF es, expected
      <3>3. Range(es) = expected
        BY <3>1, <3>2 DEF Range
      <3> QED BY <3>3 DEF expected
    <2>4. Len(es) \in Nat /\ DOMAIN es = 1 .. Len(es)
      BY <2>1 DEF EntriesOf
    <2>5. Cardinality(blocks) = Len(es)
      <3> DEFINE f == [i \in 1 .. Len(es) |-> es[i][2]]
      <3>1. \A i \in 1 .. Len(es) : f[i] \in blocks
        BY <2>1, <2>4 DEF EntriesOf
      <3>2. \A i, j \in 1 .. Len(es) : f[i] = f[j] => i = j
        BY <2>1, <2>4 DEF EntriesOf
      <3>3. \A b \in blocks : \E i \in 1 .. Len(es) : f[i] = b
        BY <2>2, <2>4, SMTT(30)
      <3>4. f \in Bijection(1 .. Len(es), blocks)
        <4> HIDE DEF blocks
        <4>1. f \in [1 .. Len(es) -> blocks]
          BY <3>1
        <4> HIDE DEF f
        <4> QED BY <3>2, <3>3, <4>1 DEF Bijection, Injection, Surjection, IsInjective
      <3> HIDE DEF f, blocks
      <3>5. ExistsBijection(1 .. Len(es), blocks)
        BY <3>4 DEF ExistsBijection
      <3> QED BY <2>4, <3>5, FS_CountingElements
    <2> QED BY <2>3, <2>5 DEF Incoming
  <1> QED BY <1>1, PointersInvariant, PTL

\* What a PHI node holds in a run is in its alias set.
THEOREM PointersTargetsFound == Spec => []TargetsFoundUnlessToldApart
  <1>1. PointersInv => TargetsFoundUnlessToldApart
    <2> SUFFICES ASSUME PointersInv, phase = "done",
                        \A pair \in program.noAlias : pair[2] \notin Phis,
                        NEW h \in Range(program.holds), NEW phi \in DOMAIN h
                 PROVE  h[phi] \in aliases[phi]
      BY DEF TargetsFoundUnlessToldApart, TargetsFound
    <2>1. program \in Programs /\ AliasesFound /\ NoneInAliases
      BY DEF PointersInv, Types
    <2>2. PICK i \in DOMAIN program.holds : h = program.holds[i]
      BY DEF Range
    <2>3. phi \in Phis
      BY <2>1, <2>2, HoldsTyped
    <2>4. Traced(phi, i)
      BY <2>1, <2>2 DEF AliasesFound
    <2> QED BY <2>1, <2>2, <2>3, <2>4 DEF Traced, NoneInAliases
  <1> QED BY <1>1, PointersInvariant, PTL

\* What is reached is reached along an edge.
LEMMA ReachedAlong ==
  ASSUME NEW v, NEW edges \in SUBSET (Values \X Values), NEW w \in ReachedFrom(v, edges)
  PROVE  \E edge \in edges : edge[1] \in {v} \cup ReachedFrom(v, edges) /\ edge[2] = w
  <1> DEFINE R == ReachedFrom(v, edges)
  <1>1. R \in SUBSET Values /\ \A edge \in edges : edge[1] \in {v} \cup R => edge[2] \in R
    BY ReachedClosed
  <1>2. w \in R
    OBVIOUS
  <1> SUFFICES ASSUME ~\E edge \in edges : edge[1] \in {v} \cup R /\ edge[2] = w
               PROVE  FALSE
    OBVIOUS
  <1> HIDE DEF R
  <1> DEFINE less == R \ {w}
  <1>3. less \in SUBSET Values /\ \A edge \in edges : edge[1] \in {v} \cup less => edge[2] \in less
    BY <1>1
  <1> HIDE DEF less
  <1>4. R \subseteq less
    BY <1>3, ReachedLeast DEF R
  <1> QED BY <1>2, <1>4 DEF less

\* The recursion goes where the pointers come from, past the PHI nodes.
LEMMA RecursionIs ==
  ASSUME PointersInv, phase = "done"
  PROVE  /\ Recursion \in SUBSET (Values \X Values)
         /\ \A edge \in Recursion : edge[2] \in Origins(edge[1])
         /\ \A edge \in Recursion :
              \/ edge[1] \in OfKind(Derived) /\ edge[2] \in Sources(edge[1])
              \/ edge[1] \in Phis /\ edge[2] \notin Phis
         /\ \A d \in OfKind(Derived) :
              Sources(d) = {program.operand[d]} /\ <<d, program.operand[d]>> \in Recursion
         /\ \A q \in Phis : \A v \in aliases[q] : <<q, v>> \in Recursion
         /\ \A q \in Phis : aliases[q] \subseteq Origins(q) \ Phis
  <1>1. /\ Types /\ Sized /\ AliasesFound /\ NoneInAliases /\ program \in Programs
        /\ DOMAIN size = DOMAIN program.kind /\ DOMAIN aliases = DOMAIN size
        /\ DOMAIN program.kind = OfKind(Allocating) \cup OfKind(Derived) \cup Phis
    BY AllSized DEF PointersInv, Types
  <1>2. \A v, w : <<v, w>> \in Recursion <=> v \in DOMAIN aliases /\ w \in aliases[v] \ {v}
    BY DEF Recursion
  <1>3. \A edge \in Recursion : \E v \in DOMAIN aliases : \E w \in aliases[v] \ {v} :
          edge = <<v, w>>
    <2>1. \A edge \in Recursion : \E v \in DOMAIN aliases : edge \in {v} \X (aliases[v] \ {v})
      BY DEF Recursion
    <2> QED BY <2>1
  <1> HIDE DEF Recursion
  <1>4. Recursion \in SUBSET (Values \X Values)
    <2>1. \A v \in DOMAIN aliases : v \in Values /\ aliases[v] \in SUBSET Values
      BY <1>1 DEF Types, Values
    <2> QED BY <1>3, <2>1
  <1>5. ASSUME NEW d \in OfKind(Derived)
        PROVE  /\ d \notin Phis /\ Sources(d) = {program.operand[d]}
               /\ aliases[d] = {program.operand[d]} /\ program.operand[d] # d
               /\ d \in DOMAIN aliases
    <2>1. d \notin Phis /\ Kind(d) \in Derived
      BY DEF OfKind, Phis, Derived
    <2> QED BY <1>1, <2>1 DEF Sources, Sized
  <1>6. \A q \in Phis : q \in DOMAIN aliases /\ aliases[q] \subseteq Origins(q) \ Phis
    <2>1. \A q \in Phis : PhiOrigins(q) \subseteq Origins(q)
      BY <1>1, ProgramTyped, ReachedByFewer DEF PhiOrigins, Origins, Computation
    <2> QED BY <1>1, <2>1 DEF AliasesFound, NoneInAliases
  <1>7. \A v \in DOMAIN program.kind : Sources(v) \subseteq Origins(v)
    <2>1. \A v \in DOMAIN program.kind : \A s \in Sources(v) : <<v, s>> \in Computation
      BY DEF Computation
    <2>2. Computation \in SUBSET (Values \X Values)
      BY <1>1, ProgramTyped
    <2>3. \A v : \A edge \in Computation : edge[1] = v => edge[2] \in Origins(v)
      BY <2>2, ReachedClosed DEF Origins, Computation
    <2> QED BY <2>1, <2>3
  <1>8. ASSUME NEW edge \in Recursion
        PROVE  /\ edge[2] \in Origins(edge[1])
               /\ \/ edge[1] \in OfKind(Derived) /\ edge[2] \in Sources(edge[1])
                  \/ edge[1] \in Phis /\ edge[2] \notin Phis
    <2>1. PICK v \in DOMAIN aliases : \E w \in aliases[v] \ {v} : edge = <<v, w>>
      BY <1>3
    <2>2. PICK w \in aliases[v] \ {v} : edge = <<v, w>>
      BY <2>1
    <2>3. v \notin OfKind(Allocating)
      BY <1>1, <2>2 DEF Sized
    <2>4. CASE v \in OfKind(Derived)
      BY <1>1, <1>5, <1>7, <2>2, <2>4
    <2>5. CASE v \in Phis
      BY <1>6, <2>2, <2>5
    <2> QED BY <1>1, <2>3, <2>4, <2>5
  <1>9. \A d \in OfKind(Derived) : <<d, program.operand[d]>> \in Recursion
    BY <1>2, <1>5
  <1>10. \A q \in Phis : \A v \in aliases[q] : <<q, v>> \in Recursion
    BY <1>2, <1>6
  <1> QED BY <1>4, <1>5, <1>6, <1>8, <1>9, <1>10

\* What the recursion from v comes to, v is computed from.
LEMMA RecursionReaches ==
  ASSUME PointersInv, phase = "done", NEW v
  PROVE  ReachedFrom(v, Recursion) \subseteq Origins(v)
  <1>1. Computation \in SUBSET (Values \X Values)
    BY ProgramTyped DEF PointersInv, Types
  <1>2. Origins(v) \in SUBSET Values /\ \A w \in Origins(v) : Origins(w) \subseteq Origins(v)
    <2>1. \A w : Origins(w) = ReachedFrom(w, Computation)
      BY DEF Origins, Computation
    <2>2. ReachedFrom(v, Computation) \in SUBSET Values
      BY <1>1, ReachedClosed
    <2>3. \A w \in ReachedFrom(v, Computation) :
            ReachedFrom(w, Computation) \subseteq ReachedFrom(v, Computation)
      BY <1>1, ReachedOn
    <2> QED BY <2>1, <2>2, <2>3
  <1>3. \A edge \in Recursion : edge[2] \in Origins(edge[1])
    BY RecursionIs
  <1>4. \A edge \in Recursion : edge[1] \in {v} \cup Origins(v) => edge[2] \in Origins(v)
    BY <1>2, <1>3
  <1> HIDE DEF Recursion
  <1> QED BY <1>2, <1>4, ReachedLeast

\* If it comes round, a derived pointer is computed from itself.
LEMMA RoundThroughDerived ==
  ASSUME PointersInv, phase = "done", NEW v, v \in ReachedFrom(v, Recursion)
  PROVE  CarriedAndChanged
  <1>1. Recursion \in SUBSET (Values \X Values)
    BY RecursionIs
  <1>2. v \in Origins(v)
    BY RecursionReaches
  <1>3. PICK edge \in Recursion : edge[1] \in {v} \cup ReachedFrom(v, Recursion) /\ edge[2] = v
    BY <1>1, ReachedAlong
  <1>4. edge[1] \in Origins(v) /\ v \in Origins(edge[1])
    BY <1>2, <1>3, RecursionReaches, RecursionIs
  <1>5. \A w \in Origins(v) : Origins(w) \subseteq Origins(v)
    BY ProgramTyped, ReachedOn DEF Origins, Computation, PointersInv, Types
  <1>6. Origins(v) \subseteq Origins(edge[1])
    BY <1>4, ProgramTyped, ReachedOn DEF Origins, Computation, PointersInv, Types
  <1>7. edge[1] \in Origins(edge[1])
    BY <1>4, <1>6
  <1>8. CASE edge[1] \in OfKind(Derived)
    BY <1>7, <1>8 DEF CarriedAndChanged
  <1>9. CASE edge[1] \in Phis /\ v \notin Phis
    <2>1. PICK on \in Recursion : on[1] = v
      <3>1. PICK first \in Recursion :
              first[1] \in {v} \cup ReachedFrom(v, Recursion) /\ first[2] = edge[1]
        <4>1. edge[1] # v
          BY <1>9
        <4>2. edge[1] \in ReachedFrom(v, Recursion)
          BY <1>3, <4>1
        <4> QED BY <1>1, <4>2, ReachedAlong
      <3>2. SUFFICES ASSUME \A on \in Recursion : on[1] # v PROVE FALSE
        OBVIOUS
      <3>3. \A on \in Recursion : on[1] \in {v} \cup {} => on[2] \in {}
        BY <3>2
      <3>4. ReachedFrom(v, Recursion) \subseteq {}
        BY <3>3, ReachedLeast
      <3> QED BY <3>4
    <2>2. v \in OfKind(Derived)
      BY <1>9, <2>1, RecursionIs
    <2> QED BY <1>2, <2>2 DEF CarriedAndChanged
  <1> QED BY <1>3, <1>8, <1>9, RecursionIs

\* Where AliasAnalysis helps nothing, no PHI node of a loop stops the recursion.
LEMMA ChangedComesRound ==
  ASSUME PointersInv, phase = "done", program.noAlias = {},
         NEW d \in OfKind(Derived), d \in Origins(d)
  PROVE  d \in ReachedFrom(d, Recursion)
  <1> DEFINE R == ReachedFrom(d, Recursion)
             T == R \cup {q \in Phis : aliases[q] \subseteq R}
  <1>1. /\ Types /\ AliasesFound /\ NoneInAliases /\ program \in Programs
        /\ DOMAIN program.kind = OfKind(Allocating) \cup OfKind(Derived) \cup Phis
    BY AllSized DEF PointersInv, Types
  <1>2. Recursion \in SUBSET (Values \X Values)
    BY RecursionIs
  <1>3. /\ R \in SUBSET Values
        /\ \A edge \in Recursion : edge[1] \in {d} \cup R => edge[2] \in R
    BY <1>2, ReachedClosed
  <1> HIDE DEF R
  <1>4. d \notin Phis
    BY DEF OfKind, Phis, Derived
  <1>5. ASSUME NEW q \in Phis, q \in T PROVE aliases[q] \subseteq R
    <2>1. \A v \in aliases[q] : <<q, v>> \in Recursion
      BY RecursionIs
    <2>2. \A v : <<q, v>>[1] = q /\ <<q, v>>[2] = v
      OBVIOUS
    <2>3. CASE q \in R
      <3> HIDE DEF Recursion
      <3> QED BY <1>3, <2>1, <2>2, <2>3
    <2> QED BY <1>5, <2>3
  <1>6. ASSUME NEW q \in Phis PROVE PhiOrigins(q) \ Phis \subseteq aliases[q]
    <2>1. aliases[q] \in SUBSET Values
      BY <1>1, AllSized DEF Types
    <2>2. \A p \in Phis : p \in {q} \cup aliases[q] => aliases[p] \subseteq aliases[q]
      BY <1>1 DEF NoneInAliases
    <2> QED BY <1>1, <2>1, <2>2 DEF AliasesFound, Covered
  <1>7. ASSUME NEW w \in DOMAIN program.kind, w \in {d} \cup T, NEW s \in Sources(w)
        PROVE  s \in T
    <2>1. CASE w \in OfKind(Derived)
      <3>1. w \in {d} \cup R
        BY <1>7, <2>1 DEF OfKind, Phis, Derived
      <3>2. Sources(w) = {program.operand[w]} /\ <<w, program.operand[w]>> \in Recursion
        BY <2>1, RecursionIs
      <3> QED BY <1>3, <3>1, <3>2
    <2>2. CASE w \in Phis
      <3>1. aliases[w] \subseteq R
        BY <1>4, <1>5, <1>7, <2>2
      <3>2. PhiEdges \in SUBSET (Values \X Values)
        BY <1>1, ProgramTyped
      <3>3. s \in PhiOrigins(w)
        <4>1. <<w, s>> \in PhiEdges
          BY <1>7, <2>2 DEF PhiEdges
        <4>2. <<w, s>>[1] = w /\ <<w, s>>[2] = s
          OBVIOUS
        <4> QED BY <3>2, <4>1, <4>2, ReachedClosed DEF PhiOrigins
      <3>4. CASE s \notin Phis
        BY <1>6, <2>2, <3>1, <3>3, <3>4
      <3>5. CASE s \in Phis
        <4>1. PhiOrigins(s) \subseteq PhiOrigins(w)
          BY <3>2, <3>3, ReachedOn DEF PhiOrigins
        <4>2. aliases[s] \subseteq PhiOrigins(s) \ Phis
          BY <1>1, <3>5 DEF AliasesFound, NoneInAliases
        <4>3. aliases[s] \subseteq R
          BY <1>6, <2>2, <3>1, <4>1, <4>2
        <4> QED BY <3>5, <4>3
      <3> QED BY <3>4, <3>5
    <2>3. CASE w \in OfKind(Allocating)
      BY <1>7, <2>3 DEF Sources, OfKind, Phis, Allocating, Derived
    <2> QED BY <1>1, <2>1, <2>2, <2>3
  <1>8. T \in SUBSET Values
    BY <1>3 DEF Phis, OfKind, Values
  <1>9. Origins(d) \subseteq T
    <2>1. \A edge \in Computation : edge[1] \in {d} \cup T => edge[2] \in T
      BY <1>7 DEF Computation
    <2> HIDE DEF T
    <2> QED BY <1>8, <2>1, ReachedLeast DEF Origins, Computation
  <1> QED BY <1>4, <1>9 DEF R

\* The recursion through the alias sets ends unless a loop carries and changes a
\* pointer, and if one does and AliasAnalysis has no answer, it does not end.
THEOREM PointersRecursion == Spec => []RecursesForEverOnlyIfChanged
  <1>1. PointersInv => RecursesForEverOnlyIfChanged
    <2> SUFFICES ASSUME PointersInv, phase = "done"
                 PROVE  /\ ~CarriedAndChanged => RecursionEnds
                        /\ CarriedAndChanged /\ program.noAlias = {} => ~RecursionEnds
      BY DEF RecursesForEverOnlyIfChanged
    <2>1. ~CarriedAndChanged => RecursionEnds
      BY RoundThroughDerived DEF RecursionEnds
    <2>2. CarriedAndChanged /\ program.noAlias = {} => ~RecursionEnds
      <3>1. \A d \in OfKind(Derived) : d \in DOMAIN aliases
        BY AllSized DEF OfKind, PointersInv, Types
      <3> QED BY <3>1, ChangedComesRound DEF CarriedAndChanged, RecursionEnds
    <2> QED BY <2>1, <2>2
  <1> QED BY <1>1, PointersInvariant, PTL
=============================================================================
