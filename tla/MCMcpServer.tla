------------------------------ MODULE MCMcpServer ------------------------------
(* Instances of McpServer for TLC. *)
EXTENDS McpServer

MCLines ==
  {[form |-> "garbage", items |-> <<>>],
   [form |-> "bytes",   items |-> <<>>],
   [form |-> "batch",   items |-> <<>>],
   [form |-> "batch",   items |-> <<"notice", "call", "plain">>]}
  \cup {[form |-> "single", items |-> <<i>>] : i \in {"call", "notice"}}

=============================================================================
