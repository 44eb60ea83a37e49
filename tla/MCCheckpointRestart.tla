----------------------- MODULE MCCheckpointRestart -----------------------
(***************************************************************************)
(* A program for CheckpointRestart with two checkpointed loops.  The first *)
(* swaps two arrays at every iteration and carries a pointer to one of     *)
(* them (vecadd_ptrswp.c); the second carries an alias of an alias.        *)
(***************************************************************************)
EXTENDS CheckpointRestart, TLC

MCLabelAt == <<0, 0, 1>>
MCEnvIntervals == {0, 1, Unset, NotANumber}
MCSize    == [l \in Labels |-> 3]

\* Loop 0 has the arrays in slots 0 and 1 and the pointer in slot 2; loop 1
\* has one array, a pointer to it, and a copy of that pointer.
MCAliasVars == (0 :> {2}) @@ (1 :> {1, 2})
MCCandidates ==
  (0 :> (0 :> << >> @@ 1 :> << >> @@ 2 :> <<0, 1>>)) @@
  (1 :> (0 :> << >> @@ 1 :> <<0>> @@ 2 :> <<1, 0>>))
Swapped(first) == 0 :> Elsewhere @@ 1 :> Elsewhere @@ 2 :> first
MCPoints == <<Swapped(1), Swapped(0), [s \in Slots |-> 0]>>

\* The pointer of visit 2 is into the middle of an array: no candidate starts
\* where it points, and it is the last variable of its checkpoint.
MCLostLast == [MCPoints EXCEPT ![2][2] = Elsewhere]

\* A smaller program for the runs with failing machines: loop 0 has an array
\* and a pointer to it; loop 1 first a pointer that matches no candidate, and
\* then an array.
SmallLabelAt    == <<0, 1, 0>>
SmallSize       == [l \in Labels |-> 2]
SmallAliasVars  == 0 :> {1} @@ 1 :> {0}
SmallCandidates == 0 :> (0 :> << >> @@ 1 :> <<0>>) @@ 1 :> [s \in Slots |-> << >>]
SmallPoints ==
  LET toArray == 0 :> Elsewhere @@ 1 :> 0
  IN  <<toArray, [s \in Slots |-> Elsewhere], toArray>>
=============================================================================
