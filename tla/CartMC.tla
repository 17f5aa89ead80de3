------------------------------- MODULE CartMC -------------------------------
(***************************************************************************)
(* Three requests of any kind and two products.  Of the quantities, two    *)
(* adds of 3 exceed the limit, 6 fits beside -1, and no add of 6 is taken. *)
(***************************************************************************)
EXTENDS Cart, TLC

SomeQuantities == {-1, 0, 3, 6}

AnyRequest == Permutations(Reqs)
=============================================================================
