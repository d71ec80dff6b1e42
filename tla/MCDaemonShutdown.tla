--------------------------- MODULE MCDaemonShutdown ---------------------------
(* Instances of DaemonShutdown for TLC. *)
EXTENDS DaemonShutdown

CONSTANTS i1, i2, web, db

(* Two instances of one name, one after the other, or of two names at once. *)
MCNamings == {[i \in Ids |-> web], [i \in Ids |-> IF i = i1 THEN web ELSE db]}

=============================================================================
