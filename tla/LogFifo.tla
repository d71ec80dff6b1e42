-------------------------------- MODULE LogFifo --------------------------------
(***************************************************************************)
(* What a reader of a process's output is promised, be it the log file or  *)
(* a follower: of each stream it has a beginning of what the child wrote,  *)
(* byte for byte, until its way to the reader breaks; after that it gets   *)
(* nothing more, but keeps what it has.                                    *)
(***************************************************************************)
EXTENDS Integers, Sequences, SequencesExt

CONSTANT Streams

VARIABLES emitted,   \* per stream, what the child wrote
          delivered, \* per stream, what the reader has of it
          broken     \* streams that lost something

fifoVars == <<emitted, delivered, broken>>

FifoInit ==
  /\ emitted   = [s \in Streams |-> <<>>]
  /\ delivered = [s \in Streams |-> <<>>]
  /\ broken = {}

Emit(s) ==
  /\ Len(emitted'[s]) > Len(emitted[s])
  /\ emitted' = [emitted EXCEPT ![s] = Append(@, Last(emitted'[s]))]
  /\ UNCHANGED <<delivered, broken>>

Deliver(s) ==
  /\ s \notin broken
  /\ \E n \in Len(delivered[s]) + 1 .. Len(emitted[s]) :
       delivered' = [delivered EXCEPT ![s] = SubSeq(emitted[s], 1, n)]
  /\ UNCHANGED <<emitted, broken>>

Break(s) ==
  /\ broken' = broken \cup {s}
  /\ UNCHANGED <<emitted, delivered>>

FifoNext == \E s \in Streams : Emit(s) \/ Deliver(s) \/ Break(s)

FifoSpec == FifoInit /\ [][FifoNext]_fifoVars

=============================================================================
