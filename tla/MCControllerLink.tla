-------------------------- MODULE MCControllerLink --------------------------
(***************************************************************************)
(* ControllerLink with two interfaces and two profiles: one controller may *)
(* have both, one or none, and may be unknown to the firmware.             *)
(***************************************************************************)
EXTENDS ControllerLink

CONSTANT LastInstance

MCInstances == 0 .. LastInstance
=============================================================================
