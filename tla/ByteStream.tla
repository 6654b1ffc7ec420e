----------------------------- MODULE ByteStream -----------------------------
(***************************************************************************)
(* What one direction of a tunnel stream promises to its users, whatever   *)
(* carries it (io.Writer at one end, io.Reader at the other): the bytes    *)
(* that are read are the bytes that were written, in order, each once.  It *)
(* promises nothing about the sizes of reads.                              *)
(***************************************************************************)
EXTENDS Integers, Sequences, SequencesExt

VARIABLES pending,  \* written and not read
          taken     \* read, in order

Init == pending = <<>> /\ taken = <<>>

Write ==
  /\ IsStrictPrefix(pending, pending')
  /\ UNCHANGED taken

Read ==
  \E n \in 1 .. Len(pending) :
    /\ taken' = taken \o SubSeq(pending, 1, n)
    /\ pending' = SubSeq(pending, n + 1, Len(pending))

Spec == Init /\ [][Write \/ Read]_<<pending, taken>>
=============================================================================
