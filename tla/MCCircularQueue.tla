---------------------------- MODULE MCCircularQueue ----------------------------
(* A ring of a few elements, for TLC. *)
EXTENDS CircularQueue
=============================================================================
