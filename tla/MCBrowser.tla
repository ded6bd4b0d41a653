----------------------------- MODULE MCBrowser ------------------------------
(* Small instances of Browser.                                               *)
EXTENDS Browser

Symmetry == Permutations(Tasks) \cup Permutations(Hosts) \cup Permutations(Launchers) \cup Permutations(Pages)
=============================================================================
