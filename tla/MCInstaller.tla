----------------------------- MODULE MCInstaller ----------------------------
(* The installer on small instances: the two terminals are alike.            *)
EXTENDS Installer, TLC

Symmetry == Permutations(Terminals)
=============================================================================
