----------------------------- MODULE MCKitchen ------------------------------
(* Lots and movements of the kitchen, and the outputs that dispose of      *)
(* devices.  The parts share no state: a behaviour runs one of them, the   *)
(* other stays as it starts.                                               *)
EXTENDS KitchenStock, MaterialOutputs, TLC

VARIABLE part

Symmetry == Permutations(Lot) \cup Permutations(Movement)

vars == <<part, kitchenVars, outputVars>>

Init ==
  /\ part \in {"kitchen", "outputs"}
  /\ KitchenInit /\ OutputsInit
  /\ part = "kitchen" => \A u \in Unit : status[u] = "AVAILABLE"

Next ==
  \/ (part = "kitchen" /\ KitchenNext /\ UNCHANGED <<part, outputVars>>)
  \/ (part = "outputs" /\ OutputsNext /\ UNCHANGED <<part, kitchenVars>>)

Spec == Init /\ [][Next]_vars
=============================================================================
