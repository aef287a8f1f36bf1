---------------------------- MODULE MCPortMutex ----------------------------
(***************************************************************************)
(* Instances of PortMutex for TLC.                                         *)
(***************************************************************************)
EXTENDS PortMutex
=============================================================================
