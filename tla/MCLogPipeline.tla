---------------------------- MODULE MCLogPipeline ----------------------------
(* Instances of LogPipeline for TLC. *)
EXTENDS LogPipeline, TLC

CONSTANTS out, err

MCStreams == {out, err}

MCSymmetry == Permutations(MCStreams)

=============================================================================
