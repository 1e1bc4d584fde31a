------------------------------ MODULE MCOpcache ------------------------------
(* Opcache with three probes; no probe and no name is special. *)
EXTENDS Opcache, TLC

Symmetry == Permutations(Probers) \cup Permutations(Names)

=============================================================================
