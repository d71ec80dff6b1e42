------------------------- MODULE MCDaemonLifecycle -------------------------
(* Instances of DaemonLifecycle for TLC. *)
EXTENDS DaemonLifecycle, TLC

(* Daemons and commands differ in their names only. *)
Symmetry == Permutations(Daemons) \cup Permutations(Commands)

=============================================================================
