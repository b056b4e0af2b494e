---------------------------- MODULE MCPageAlloc ----------------------------
(* Model checking of PageAlloc: harts are interchangeable.                  *)
EXTENDS PageAlloc

Symmetry == Permutations(Harts)
=============================================================================
