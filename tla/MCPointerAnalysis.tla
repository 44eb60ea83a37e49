------------------------- MODULE MCPointerAnalysis -------------------------
(***************************************************************************)
(* PointerAnalysis over two families of small functions: a loop of block 2 *)
(* entered from block 1 whose three PHI nodes pass pointers round, and     *)
(* chains of pointers derived from one another and from a PHI node.        *)
(***************************************************************************)
EXTENDS PointerAnalysis, TLC

CONSTANTS a, b, c, p, q, r

MCPointers == {a, b, c, p, q, r}
MCBlocks   == 1 .. 2

Orders(S) == {s \in [1 .. Cardinality(S) -> S] : Range(s) = S}

----------------------------------------------------------------------------
(* The PHI nodes p, q and r start as the allocations a, b and c; back[v] is *)
(* what v takes from the end of the loop.                                   *)

LoopPhis == {p, q, r}
Start    == (p :> a) @@ (q :> b) @@ (r :> c)

\* What the PHI nodes hold in the first rounds of the loop; three PHI nodes
\* over three pointers have been everywhere after six.
Rounds(back) ==
  LET held[i \in Nat] ==
        IF i = 0 THEN Start
        ELSE [v \in LoopPhis |-> IF back[v] \in LoopPhis THEN held[i - 1][back[v]]
                                 ELSE back[v]]
  IN  [i \in 1 .. 7 |-> held[i - 1]]

Never(back, v, w) ==
  \A h \in Range(Rounds(back)) : h[v] # IF w \in LoopPhis THEN h[w] ELSE w
NoAliases(back, others) ==
  {<<v, w>> \in LoopPhis \X others : Never(back, v, w)}

LoopProgram(back, order, others) ==
  [kind     |-> [v \in MCPointers |-> IF v \in LoopPhis THEN "phi" ELSE "malloc"],
   operand  |-> [v \in MCPointers |-> Elsewhere],
   incoming |-> [v \in MCPointers |->
                   IF v \in LoopPhis THEN <<<<Start[v], 1>>, <<back[v], 2>>>> ELSE << >>],
   addresses |-> order \o <<a, b, c>>,
   noAlias  |-> NoAliases(back, others),
   holds    |-> Rounds(back)]

\* AliasAnalysis knows nothing, tells allocations apart, or everything.
LoopPrograms(backs, knowledge) ==
  {LoopProgram(back, order, others) :
     back \in backs, order \in Orders(LoopPhis), others \in knowledge}

Backs == [LoopPhis -> LoopPhis \cup {a}]

----------------------------------------------------------------------------
(* p is a PHI node that takes a pointer or nothing known from both blocks, q *)
(* and r are derived from what comes before them, or not supported.          *)

ChainPointers == {a, p, q, r}
ChainProgram(root, kinds, operand, from, order) ==
  [kind      |-> (a :> root) @@ (p :> "phi") @@ (q :> kinds[1]) @@ (r :> kinds[2]),
   operand   |-> (a :> Elsewhere) @@ (p :> Elsewhere) @@ (q :> operand[1])
                   @@ (r :> operand[2]),
   incoming  |-> [v \in ChainPointers |-> IF v = p THEN from ELSE << >>],
   addresses |-> order \o <<a, p>>,
   noAlias   |-> {}, holds |-> << >>]

\* A block with two edges to the PHI node's gives it the same value twice.
From == {<<<<x, 1>>, <<y, 2>>>> : x \in {a, Elsewhere}, y \in {p, q, r, Elsewhere}}
          \cup {<<<<a, 1>>, <<a, 1>>, <<y, 2>>>> : y \in {a, r}}

ChainPrograms ==
  {ChainProgram(root, kinds, <<x, y>>, from, order) :
     root \in {"alloca", "argv"},
     kinds \in {"gep", "load"} \X {"bitcast", "other"},
     x \in {a, p, Elsewhere}, y \in {a, p, q}, from \in From, order \in Orders({q, r})}
  \cup {ChainProgram(root, <<"gep", "gep">>, <<a, q>>, <<<<a, 1>>>>, <<q, r>>) :
           root \in Unsizable}

MCPrograms == LoopPrograms(Backs, {{}, {a, b, c}, MCPointers}) \cup ChainPrograms
=============================================================================
