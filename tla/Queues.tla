------------------------------- MODULE Queues -------------------------------
(***************************************************************************)
(* What the fan-in models share: the items of a channel that came from one *)
(* source, in the channel's order.                                         *)
(***************************************************************************)
EXTENDS Integers, Sequences, SequencesExt

\* The items of q that are in T.
Selected(q, T) ==
  FlattenSeq([i \in 1 .. Len(q) |-> IF q[i] \in T THEN <<q[i]>> ELSE <<>>])
=============================================================================
