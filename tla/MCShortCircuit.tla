-------------------------- MODULE MCShortCircuit --------------------------
(***************************************************************************)
(* LiveAnalysis of one function whose PHI node takes a value from two      *)
(* blocks.                                                                 *)
(***************************************************************************)
EXTENDS LiveAnalysis

MCBlocks == 1 .. 4
MCValues == {"x", "y"}

\* y = a && b ? 0 : x before a loop: the PHI node takes x from blocks 1 and 2.
ShortCircuit ==
  [order |-> <<1, 2, 3, 4>>,
   succ  |-> [b \in 1 .. 4 |->
     CASE b = 1 -> {2, 4} [] b = 2 -> {3, 4} [] OTHER -> {4}],
   code  |-> [b \in 1 .. 4 |->
     CASE b = 1 -> <<Instruction("x", FALSE, << >>, {})>>
       [] b = 4 -> <<Instruction("y", TRUE, <<<<"x", 1>>, <<"x", 2>>,
                                   <<Constant, 3>>, <<"y", 4>>>>, {}),
                     Instruction(Constant, FALSE, << >>, {"y"})>>
       [] OTHER -> << >>],
   args    |-> {},
   sizes   |-> [v \in MCValues |-> {}],
   aliases |-> [v \in MCValues |-> {}],
   loops   |-> {[header |-> 4, depth |-> 1]}]

MCPrograms == {ShortCircuit}
=============================================================================
