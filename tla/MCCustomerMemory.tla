-------------------------- MODULE MCCustomerMemory --------------------------
(***************************************************************************)
(* Instances of CustomerMemory for TLC.                                    *)
(***************************************************************************)
EXTENDS CustomerMemory, TLC

MemorySymmetry == Permutations(Customer) \cup Permutations(Slot) \cup Permutations(Turn)
=============================================================================
