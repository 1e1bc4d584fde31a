---------------------------- MODULE MCConfigCache ----------------------------
(* ConfigCache on two callers, two documents and two spellings of one file. *)
EXTENDS ConfigCache, TLC

MCClean == [n \in Names |->
              CASE n = "/etc/../etc/a" -> "/etc/a"
                [] n = "" -> "."
                [] OTHER -> n]

\* Callers and addresses are interchangeable: no definition names one of them.
Symmetry == Permutations(Callers) \cup Permutations(Obj)

\* What an unreachable address last held is no part of the state.
View == <<file, cache, epoch, [o \in Obj \ Free |-> heap[o]], pc, call, held,
          forgotten>>

=============================================================================
