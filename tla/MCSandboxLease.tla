--------------------------- MODULE MCSandboxLease ---------------------------
(* The identity a may be renewed once; any other one competes with it for  *)
(* the only slot and outlives it.  Requests are interchangeable.           *)
EXTENDS SandboxLease, TLC

CONSTANT a

MCSize == [i \in Ids |-> 1]
MCHoldExpires == [i \in Ids |-> IF i = a THEN 1 ELSE 2]
MCExpires == [i \in Ids |-> IF i = a THEN <<1, 2>> ELSE <<2>>]

Symmetry == Permutations(Requests)

=============================================================================
