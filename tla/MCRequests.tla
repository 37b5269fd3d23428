------------------------------ MODULE MCRequests ------------------------------
(* Slots are interchangeable.                                              *)
EXTENDS Requests, TLC

SlotSymmetry == Permutations(Slots)
==============================================================================
