---------------------------- MODULE MCInventory -----------------------------
(* Small instances of Inventory: two devices, one of them with two units.  *)
EXTENDS Inventory, TLC

CONSTANTS d1, d2, u1, u2, u3

MCDeviceOf == (u1 :> d1) @@ (u2 :> d1) @@ (u3 :> d2)

Symmetry == Permutations({u1, u2}) \cup Permutations(Movement)
              \cup Permutations(Loan) \cup Permutations(LoanItem)
=============================================================================
