---------------------------- MODULE MCNodeAgent ----------------------------
(* Instances of NodeAgent for TLC.                                         *)
EXTENDS NodeAgent

CONSTANTS a1, a2, t1, t2
=============================================================================
