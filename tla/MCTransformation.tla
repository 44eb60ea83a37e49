-------------------------- MODULE MCTransformation --------------------------
(***************************************************************************)
(* The whole pass over every small function of one shape: N blocks, an     *)
(* instruction (or an argument) x, one PHI node y that may take x from     *)
(* some of its block's predecessors, and perhaps one use of x and y; and   *)
(* over some functions with pointers.                                      *)
(***************************************************************************)
EXTENDS Transformation

CONSTANTS
  N,                           \* number of blocks; block 1 is the entry
  x, y, z, p, xsize, ysize, psize  \* values

MCBlocks == 1 .. N
MCValues == {x, y, z, p, xsize, ysize, psize}
None     == 0

\* What is reached from block a along succ without entering block avoid.
From(s, a, avoid) ==
  LET reached[i \in Nat] ==
        IF i = 0 THEN {a} \ {avoid}
        ELSE (reached[i - 1] \cup UNION {s[b] : b \in reached[i - 1]}) \ {avoid}
  IN  reached[N]
Dominates(s, a, b) == b \notin From(s, 1, a)
Predecessors(s, b) == {a \in MCBlocks : b \in s[a]}

\* The entry has no predecessors, a terminator two successors at most.
Flows == {s \in [MCBlocks -> {t \in SUBSET (2 .. N) : Cardinality(t) <= 2}] :
            From(s, 1, None) = MCBlocks}

\* A loop has a header that dominates a predecessor of it; it is within
\* another one whose header dominates its own and that it gets back to.
Headers(s) == {h \in MCBlocks : \E a \in Predecessors(s, h) : Dominates(s, h, a)}
Within(s, h, g) ==
  /\ g # h /\ Dominates(s, g, h)
  /\ \E a \in Predecessors(s, g) : Dominates(s, g, a) /\ a \in From(s, h, g)
LoopsOf(s) ==
  {[header |-> h, depth |-> 1 + Cardinality({g \in Headers(s) : Within(s, h, g)})] :
     h \in Headers(s)}

\* x is defined in block d, an argument if d is None; the PHI node is in
\* block f, or there is none, and takes x from the blocks "srcs"; x, and y
\* where it can be, are used in block u, or nowhere.
Valid(s, d, u, f, srcs) ==
  /\ f = None => srcs = {}
  /\ f # None => srcs \subseteq Predecessors(s, f)
  /\ d # None => \A a \in srcs \cup ({u} \ {None}) : Dominates(s, d, a)

Ordered(among) == SetToSortSeq(among, <)
PhiOf(s, f, srcs) ==
  Instruction(y, TRUE,
              [i \in DOMAIN Ordered(Predecessors(s, f)) |->
                 LET a == Ordered(Predecessors(s, f))[i]
                 IN  <<IF a \in srcs THEN x ELSE Constant, a>>], {})
CodeOf(s, d, u, f, srcs, b) ==
  LET seesY == f # None /\ Dominates(s, f, b)
      ys    == IF seesY THEN {y} ELSE {}
  IN  (IF b = f THEN <<PhiOf(s, f, srcs)>> ELSE << >>)
      \o (IF b = d THEN <<Instruction(x, FALSE, << >>, ys)>> ELSE << >>)
      \o (IF b = u THEN <<Instruction(Constant, FALSE, << >>, {x} \cup ys)>>
          ELSE << >>)

Nothing == [v \in MCValues |-> {}]
InOrder == <<x, y, z, p, xsize, ysize, psize>>
ProgramOf(s, d, u, f, srcs) ==
  [order |-> [b \in MCBlocks |-> b], succ |-> s,
   code |-> [b \in MCBlocks |-> CodeOf(s, d, u, f, srcs, b)],
   args |-> IF d = None THEN {x} ELSE {}, sizes |-> Nothing,
   aliases |-> Nothing, loops |-> LoopsOf(s),
   kind |-> [v \in MCValues |-> "scalar"], addresses |-> InOrder]

OptionalBlock == MCBlocks \cup {None}
ProgramsWith(sources) ==
  UNION {{ProgramOf(s, d, u, f, srcs) :
            <<d, u, f, srcs>> \in
              {<<d, u, f, srcs>> \in
                 OptionalBlock \X OptionalBlock \X (OptionalBlock \ {1})
                   \X SUBSET MCBlocks :
                 Cardinality(srcs) \in sources /\ Valid(s, d, u, f, srcs)}} :
         s \in Flows}

----------------------------------------------------------------------------
(* Functions with pointers, as PointerAnalysis leaves them *)

Plain(result, operands) == Instruction(result, FALSE, << >>, operands)
Phi(result, a, b)       == Instruction(result, TRUE, <<<<a, 1>>, <<b, 2>>>>, {})

\* The loop is block 2, or 3 after a block 2 that may be passed by.
Looping   == <<{2}, {2, 3}, {}>>
Diamond   == <<{2, 3}, {3}, {3}>>
PointerProgram(s, header, blocks123, kinds, sizes, aliases, addrs) ==
  [order |-> <<1, 2, 3>>, succ |-> s, code |-> blocks123, args |-> {},
   sizes |-> sizes @@ Nothing, aliases |-> aliases @@ Nothing,
   loops |-> {[header |-> header, depth |-> 1]},
   kind |-> kinds @@ [v \in MCValues |-> "scalar"], addresses |-> addrs]

\* Two pointers, to arrays of xsize and of constant size, that change places (as in
\* vecadd_ptrswp.c).
Swap(addrs) ==
  PointerProgram(Looping, 2,
    <<<<Plain(xsize, {}), Plain(x, {xsize}), Plain(z, {})>>,
      <<Phi(ysize, xsize, psize), Phi(y, x, p), Phi(psize, Constant, ysize), Phi(p, z, y),
        Plain(Constant, {y, p})>>,
      <<Plain(Constant, {p})>>>>,
    (x :> "malloc") @@ (z :> "alloca") @@ (y :> "phi") @@ (p :> "phi"),
    (x :> {xsize}) @@ (y :> {ysize}) @@ (p :> {psize}),
    (x :> {x}) @@ (z :> {z}) @@ (y :> {x, z}) @@ (p :> {x, z}), addrs)

\* A pointer into an array, used in a loop without PHI nodes; "kind" is how it is
\* computed.
Into(kind, addrs) ==
  PointerProgram(Looping, 2,
    <<<<Plain(xsize, {}), Plain(x, {xsize}), Plain(p, {x}), Plain(y, {p})>>,
      <<Plain(Constant, {y})>>, << >>>>,
    (x :> "malloc") @@ (p :> "bitcast") @@ (y :> kind),
    (x :> {xsize}) @@ (p :> {xsize}) @@ (y :> {xsize}),
    (x :> {x}) @@ (p :> {x}) @@ (y :> {p}), addrs)

\* A pointer to an array that the loop makes anew, before or after it is used.
Renewed(before, addrs) ==
  PointerProgram(Looping, 2,
    <<<<Plain(x, {})>>,
      <<Phi(y, x, z)>> \o (IF before THEN <<Plain(z, {}), Plain(Constant, {y})>>
                           ELSE <<Plain(Constant, {y}), Plain(z, {})>>),
      << >>>>,
    (x :> "malloc") @@ (z :> "malloc") @@ (y :> "phi"), Nothing,
    (x :> {x}) @@ (z :> {z}) @@ (y :> {x, z}), addrs)

\* A pointer to one of two arrays, the second made on one of the ways only.
Chosen(addrs) ==
  PointerProgram(Diamond, 3,
    <<<<Plain(x, {})>>, <<Plain(z, {})>>,
      <<Instruction(y, TRUE, <<<<x, 1>>, <<z, 2>>, <<y, 3>>>>, {}), Plain(Constant, {y})>>>>,
    (x :> "malloc") @@ (z :> "malloc") @@ (y :> "phi"), Nothing,
    (x :> {x}) @@ (z :> {z}) @@ (y :> {x, z}), addrs)

\* A PHI node that nothing uses, for a pointer to an array whose size is an argument.
Unused ==
  [PointerProgram(Looping, 2,
     <<<<Plain(x, {xsize})>>,
       <<Instruction(y, TRUE, <<<<x, 1>>, <<Constant, 2>>>>, {})>>, << >>>>,
     (x :> "malloc") @@ (y :> "phi"), (x :> {xsize}) @@ (y :> {xsize}),
     (x :> {x}) @@ (y :> {x}), InOrder) EXCEPT !.args = {xsize}]

PointerPrograms ==
  {Unused} \cup
  UNION {{Swap(addrs), Chosen(addrs)} \cup {Into(kind, addrs) : kind \in {"gep", "load", "argument"}}
           \cup {Renewed(before, addrs) : before \in BOOLEAN} :
         addrs \in {InOrder, Reverse(InOrder)}}

\* No PHI node takes one value from two blocks.
MCPrograms == ProgramsWith({0, 1}) \cup PointerPrograms
\* A loop whose header has no PHI nodes, and so two predecessors.
MCNoPhis   == {Into("gep", InOrder)}
=============================================================================
