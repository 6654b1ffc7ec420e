------------------------------- MODULE FanIn -------------------------------
(***************************************************************************)
(* What an accept path promises to the tunnel server, whatever stands      *)
(* behind it: the streams of one source (a listener, a multiplexed         *)
(* session) are handed over in the order in which that source produced     *)
(* them, each at most once, and none is lost before its source is being    *)
(* closed.  Nothing is promised about the order between two sources.       *)
(***************************************************************************)
EXTENDS Sequences, SequencesExt

CONSTANTS Sources,    \* what is fanned in
          Streams     \* the streams the peers may open

VARIABLES pending,    \* per source, the streams not handed over yet
          delivered,  \* the streams handed to the server, in order
          closing     \* the sources that are being closed

vars == <<pending, delivered, closing>>

Init ==
  /\ pending = [l \in Sources |-> <<>>]
  /\ delivered = <<>>
  /\ closing = {}

\* A stream is new when it arrives.
Arrive(s, l) ==
  /\ \A k \in Sources : ~Contains(pending[k], s)
  /\ ~Contains(delivered, s)
  /\ pending' = [pending EXCEPT ![l] = Append(@, s)]
  /\ UNCHANGED <<delivered, closing>>

Deliver(l) ==
  /\ pending[l] /= <<>>
  /\ pending' = [pending EXCEPT ![l] = Tail(@)]
  /\ delivered' = Append(delivered, Head(pending[l]))
  /\ UNCHANGED closing

Shut ==
  /\ closing \subseteq closing' /\ closing' \subseteq Sources
  /\ UNCHANGED <<pending, delivered>>

\* A source that is closing may give up its newest streams, never a stream
\* that is ahead of one it still hands over.
Abandon(l) ==
  /\ l \in closing
  /\ \E n \in 0 .. Len(pending[l]) :
       pending' = [pending EXCEPT ![l] = SubSeq(@, 1, n)]
  /\ UNCHANGED <<delivered, closing>>

Next ==
  \/ \E l \in Sources : (\E s \in Streams : Arrive(s, l)) \/ Deliver(l) \/ Abandon(l)
  \/ Shut

Spec == Init /\ [][Next]_vars
=============================================================================
