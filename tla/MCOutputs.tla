------------------------------ MODULE MCOutputs ------------------------------
(***************************************************************************)
(* One output id with two objects, which replace each other.               *)
(***************************************************************************)
EXTENDS Outputs

CONSTANT i1

MCIdOf == [o \in Objs |-> i1]
=============================================================================
