----------------------------- MODULE MCCleanLogs -----------------------------
(* Instances of CleanLogs for TLC: a project with two names, whose logs two *)
(* requests clean at a time.                                                *)
EXTENDS CleanLogs, TLC

CONSTANTS web, db, shop

MCProjectOf == (web :> shop) @@ (db :> shop)

MCSymmetry == Permutations(Ids) \cup Permutations(Cleans)

=============================================================================
