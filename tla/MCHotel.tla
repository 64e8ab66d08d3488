------------------------------ MODULE MCHotel -------------------------------
(* A small instance of HotelStock: two positions of one warehouse.         *)
EXTENDS HotelStock, TLC

CONSTANT w1

MCWarehouseOf == [p \in Position |-> w1]

Symmetry == Permutations(HotelMovement) \cup Permutations(Position)
=============================================================================
