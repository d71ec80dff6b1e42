-------------------------- MODULE MCProcessManager --------------------------
(* Instances of ProcessManager for TLC. *)
EXTENDS ProcessManager, TLC

(* Instances and clients are interchangeable (safety runs only). *)
Symmetry == Permutations(Ids) \cup Permutations(Clients)

=============================================================================
