---------------------------- MODULE AddressOrder ----------------------------
(***************************************************************************)
(* A std::set of pointers is walked in the order of the addresses of what  *)
(* they point to, which is where the compiler happened to allocate it.     *)
(***************************************************************************)
EXTENDS Integers, Sequences

\* The members of S in the order they have in "addresses".
Walk(addresses, S) ==
  LET walked[i \in 0 .. Len(addresses)] ==
        IF i = 0 THEN << >>
        ELSE IF addresses[i] \in S THEN Append(walked[i - 1], addresses[i])
        ELSE walked[i - 1]
  IN  walked[Len(addresses)]
=============================================================================
