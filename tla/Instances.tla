------------------------------ MODULE Instances ------------------------------
(* The backend's processes, each of which has a name of its own.            *)
EXTENDS FiniteSets

CONSTANTS Instance, None

ASSUME InstanceAssumption == IsFiniteSet(Instance) /\ None \notin Instance
=============================================================================
