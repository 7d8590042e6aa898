--------------------------- MODULE MCDeployments ---------------------------
(* Instances of Deployments for TLC.                                       *)
EXTENDS Deployments, TLC

CONSTANTS index, style, staging, production

\* File names and environments are interchangeable.
MCSymmetry == Permutations(Files) \cup Permutations(Envs)
=============================================================================
