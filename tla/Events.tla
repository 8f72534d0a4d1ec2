------------------------------- MODULE Events -------------------------------
(***************************************************************************)
(* The bound the components of the control plane share: requests, failures *)
(* of FFmpeg or of the disk, and restarts of the program are counted       *)
(* together, so that any mix of them fits in it.                           *)
(***************************************************************************)
EXTENDS Naturals

CONSTANT MaxEvents   \* bound on them
ASSUME EventsAssumption == MaxEvents \in Nat

VARIABLE events      \* how many there have been

Event == events < MaxEvents /\ events' = events + 1
=============================================================================
