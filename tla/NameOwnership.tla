---------------------------- MODULE NameOwnership ----------------------------
(***************************************************************************)
(* What the daemon promises about names, with no registry, no reservation  *)
(* table and no process in sight: a (project, name) pair has at most one   *)
(* owner at a time, and ownership only changes hands directly.  A request  *)
(* claims a free name, turns its claim into a registered process or gives  *)
(* it up; a request that takes a registered process out owns the name      *)
(* until it frees it.                                                      *)
(*                                                                         *)
(* An owner is <<"claim", c>>, <<"entry", i>> or <<"release", c>> for a    *)
(* request c and a process instance i.                                     *)
(***************************************************************************)
CONSTANTS Keys,      \* (project, name) pairs
          Claimants, \* requests that may hold a name
          Instances  \* process instances that may hold a name

VARIABLE owners      \* owners[k]: who owns k, a set so that sharing can be seen

Owner == ({"claim", "release"} \X Claimants) \cup ({"entry"} \X Instances)

Init == owners = [k \in Keys |-> {}]

(* k passes from exactly the owners in `from` to those in `to`. *)
Pass(k, from, to) ==
  /\ owners[k] = from
  /\ owners' = [owners EXCEPT ![k] = to]

Claim(k, c)     == Pass(k, {}, {<<"claim", c>>})
Commit(k, c, i) == Pass(k, {<<"claim", c>>}, {<<"entry", i>>})
Abandon(k, c)   == Pass(k, {<<"claim", c>>}, {})
Evict(k, c, i)  == Pass(k, {<<"entry", i>>}, {<<"release", c>>})
Free(k, c)      == Pass(k, {<<"release", c>>}, {})

Next ==
  \E k \in Keys, c \in Claimants :
    \/ Claim(k, c)
    \/ Abandon(k, c)
    \/ Free(k, c)
    \/ \E i \in Instances : Commit(k, c, i) \/ Evict(k, c, i)

Spec == Init /\ [][Next]_owners

=============================================================================
