-------------------------- MODULE MCPhysicsEngine --------------------------
(* Instances of PhysicsEngine for TLC. *)
EXTENDS PhysicsEngine

CONSTANTS ball, box
=============================================================================
