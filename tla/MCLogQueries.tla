----------------------------- MODULE MCLogQueries -----------------------------
(* Instances of LogQueries for TLC. *)
EXTENDS LogQueries

Gets == [kind : {"get"}, tail : {0, 2}, follow : BOOLEAN, before : {0}, after : {0}]
Greps == [kind : {"grep"}, tail : {0}, follow : {FALSE}, before : {0, 2}, after : 0 .. 2]

MCRequests == Gets \cup Greps

=============================================================================
