---------------------------- MODULE MCOrderStore ----------------------------
(* Small instances of OrderStore: riders and drivers race for few orders. *)
EXTENDS OrderStore, TLC

Symmetry == Permutations(Calls) \cup Permutations(OrderIds)
              \cup Permutations(Riders) \cup Permutations(Drivers)
=============================================================================
