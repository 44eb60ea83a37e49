---------------------------- MODULE Resumable ----------------------------
(***************************************************************************)
(* What checkpoint and restart promises a program that makes its way       *)
(* through the visits 1, ..., MaxVisit: it may stop at any point, and when *)
(* it runs again it is exactly where it was last saved, with the live      *)
(* variables of that point; what was saved is never lost or moved back.    *)
(***************************************************************************)
EXTENDS Integers

CONSTANT MaxVisit       \* visits of a complete run

VARIABLES at,           \* the visit of the running program, Down if it is not
          saved         \* the visit it will resume at, 0 for the beginning

Down == -1

Init == at = Down /\ saved = 0

Resume  == at = Down /\ at' = saved /\ UNCHANGED saved
Advance == at # Down /\ at < MaxVisit /\ at' = at + 1 /\ UNCHANGED saved
Save    == at # Down /\ saved' = at /\ UNCHANGED at
Stop    == at # Down /\ at' = Down /\ UNCHANGED saved

Next == Resume \/ Advance \/ Save \/ Stop

Spec == Init /\ [][Next]_<<at, saved>>
=============================================================================
