---------------------------- MODULE SmuxSession ----------------------------
(***************************************************************************)
(* The multiplexed transport (pkg/transport/smuxtcp/smuxtcp.go): calls of  *)
(* Client.Dial share one outer connection under Client.mu and replace it   *)
(* when it has died; the server runs one acceptStreams loop per outer      *)
(* connection, and all loops send to one `out` channel.                    *)
(*                                                                         *)
(* Outer connections are numbered in the order in which they are dialled.  *)
(* A call of Dial opens at most one stream and names it.                   *)
(***************************************************************************)
EXTENDS Queues

CONSTANTS
  Dials,     \* calls of Client.Dial
  Closes,    \* calls of Client.Close
  MaxConns,  \* bound of the model: outer connections; later dials fail
  OutCap,    \* capacity of Server.out (64 in the code)
  None       \* no call holds Client.mu; no stream is in hand

Conns == 1 .. MaxConns

ASSUME SmuxAssumption ==
  /\ MaxConns \in Nat \ {0} /\ OutCap \in Nat \ {0}
  /\ Dials \cap Closes = {} /\ None \notin Dials \cup Closes

VARIABLES
  pc,       \* the step each call of Dial and Close is at
  mu,       \* the call that holds Client.mu
  session,  \* Client.session, 0 for nil
  ident,    \* the connection whose raw and hash the Client holds
  conn,     \* the connection a Dial dials or opened its stream on
  tag,      \* the connection whose raw and hash its stream carries
  used,     \* connections dialled so far
  link,     \* the life of each outer connection
  isClosed, \* Session.IsClosed on the client
  dropped,  \* sessions Dial replaced because OpenStream failed (history)
  loop,     \* the server's acceptStreams loop of each connection
  hand,     \* the stream it has accepted and not sent on
  wire,     \* streams opened on a session and not accepted by its loop
  out,      \* Server.out
  done,     \* Server.done is closed
  taking,   \* the caller of Server.Accept goes on
  served    \* the streams it was given, in order (history)

clientVars == <<mu, session, ident, conn, tag, used, dropped>>
linkVars == <<link, isClosed>>
serverVars == <<loop, hand, out, done, taking, served>>
vars == <<pc, clientVars, linkVars, serverVars, wire>>

Down == {"refused", "broken", "closed"}

TypeOK ==
  /\ pc \in [Dials \cup Closes -> {"idle", "wait", "outer", "shake", "open",
               "outer2", "shake2", "open2", "done", "failed"}]
  /\ mu \in Dials \cup {None}
  /\ session \in 0 .. MaxConns /\ ident \in 0 .. MaxConns
  /\ conn \in [Dials -> 0 .. MaxConns] /\ tag \in [Dials -> 0 .. MaxConns]
  /\ used \in 0 .. MaxConns /\ dropped \subseteq Conns
  /\ link \in [Conns -> {"none", "shaking", "up"} \cup Down]
  /\ isClosed \in [Conns -> BOOLEAN]
  /\ loop \in [Conns -> {"idle", "accept", "send", "exited"}]
  /\ hand \in [Conns -> Dials \cup {None}]
  /\ wire \in [Conns -> Seq(Dials)]
  /\ out \in Seq(Dials) /\ Len(out) <= OutCap
  /\ done \in BOOLEAN /\ taking \in BOOLEAN
  /\ served \in Seq(Dials)

Init ==
  /\ pc = [d \in Dials \cup Closes |-> "idle"]
  /\ mu = None /\ session = 0 /\ ident = 0
  /\ conn = [d \in Dials |-> 0] /\ tag = [d \in Dials |-> 0]
  /\ used = 0 /\ dropped = {}
  /\ link = [i \in Conns |-> "none"]
  /\ isClosed = [i \in Conns |-> FALSE]
  /\ loop = [i \in Conns |-> "idle"]
  /\ hand = [i \in Conns |-> None]
  /\ wire = [i \in Conns |-> <<>>]
  /\ out = <<>> /\ done = FALSE /\ taking = TRUE /\ served = <<>>

Goto(d, step) == pc' = [pc EXCEPT ![d] = step]
SetLink(i, state) == link' = [link EXCEPT ![i] = state]
\* Closing a connection that is down already changes nothing.
Closed(i, as) == IF link[i] \in {"shaking", "up"} THEN as ELSE link[i]

-----------------------------------------------------------------------------
(* The outer connections.                                                  *)

\* A connection breaks; nobody is told yet.
Fault(i) ==
  /\ link[i] = "up"
  /\ SetLink(i, "broken")
  /\ UNCHANGED <<pc, clientVars, isClosed, serverVars, wire>>

\* The client's session closes itself when its keep-alive gets no answer.
KeepAliveFails(i) ==
  /\ link[i] \in {"broken", "closed"} /\ ~isClosed[i]
  /\ isClosed' = [isClosed EXCEPT ![i] = TRUE]
  /\ UNCHANGED <<pc, clientVars, link, serverVars, wire>>

\* handleOuter: TLS and Noise succeed, acceptStreams starts.
HandleOuter(i) ==
  /\ link[i] = "shaking"
  /\ SetLink(i, "up")
  /\ loop' = [loop EXCEPT ![i] = "accept"]
  /\ UNCHANGED <<pc, clientVars, isClosed, hand, out, done, taking, served, wire>>

\* Variant: handleOuter sets no deadline and gives up when it is told to.
HandleOuterFailOnDone(i) ==
  /\ link[i] = "shaking" /\ done
  /\ SetLink(i, "refused")
  /\ UNCHANGED <<pc, clientVars, isClosed, serverVars, wire>>

\* A handshake error, or the 15 s deadline.
HandleOuterFail(i) ==
  /\ link[i] = "shaking"
  /\ SetLink(i, "refused")
  /\ UNCHANGED <<pc, clientVars, isClosed, serverVars, wire>>

-----------------------------------------------------------------------------
(* Client.Dial and Client.Close.                                           *)

Call(x) ==
  /\ pc[x] = "idle"
  /\ Goto(x, "wait")
  /\ UNCHANGED <<clientVars, linkVars, serverVars, wire>>

NeedsOuter == IF session = 0 THEN TRUE ELSE isClosed[session]

\* Variant: the session is looked at without the lock.
LockNothing(d) ==
  /\ pc[d] = "wait"
  /\ Goto(d, IF NeedsOuter THEN "outer" ELSE "open")
  /\ UNCHANGED <<clientVars, linkVars, serverVars, wire>>

Lock(d) ==
  /\ pc[d] = "wait" /\ mu = None
  /\ mu' = d
  /\ Goto(d, IF NeedsOuter THEN "outer" ELSE "open")
  /\ UNCHANGED <<session, ident, conn, tag, used, dropped, linkVars, serverVars,
                 wire>>

Return(d, result) == Goto(d, result) /\ mu' = None

\* dialOuter; net.Dialer fails or connects.
DialContextFail(d) ==
  /\ pc[d] \in {"outer", "outer2"}
  /\ Return(d, "failed")
  /\ UNCHANGED <<session, ident, conn, tag, used, dropped, linkVars, serverVars,
                 wire>>

DialContext(d) ==
  /\ pc[d] \in {"outer", "outer2"} /\ used < MaxConns
  /\ used' = used + 1
  /\ conn' = [conn EXCEPT ![d] = used + 1]
  /\ SetLink(used + 1, "shaking")
  /\ Goto(d, IF pc[d] = "outer" THEN "shake" ELSE "shake2")
  /\ UNCHANGED <<mu, session, ident, tag, dropped, isClosed, serverVars, wire>>

\* The server has answered or hung up.
HandshakeAnswered(d) == pc[d] \in {"shake", "shake2"} /\ link[conn[d]] /= "shaking"

\* Variant: raw and hash are set for the first connection only.
HandshakeKeepsHash(d) ==
  /\ HandshakeAnswered(d) /\ link[conn[d]] /= "refused"
  /\ session' = conn[d]
  /\ ident' = IF ident = 0 THEN conn[d] ELSE ident
  /\ Goto(d, IF pc[d] = "shake" THEN "open" ELSE "open2")
  /\ UNCHANGED <<mu, conn, tag, used, dropped, linkVars, serverVars, wire>>

Handshake(d) ==
  /\ HandshakeAnswered(d) /\ link[conn[d]] /= "refused"
  /\ session' = conn[d] /\ ident' = conn[d]
  /\ Goto(d, IF pc[d] = "shake" THEN "open" ELSE "open2")
  /\ UNCHANGED <<mu, conn, tag, used, dropped, linkVars, serverVars, wire>>

\* An error of TLS, Noise or smux: the connection is closed.
HandshakeFail(d) ==
  /\ pc[d] \in {"shake", "shake2"}
  /\ SetLink(conn[d], Closed(conn[d], "refused"))
  /\ Return(d, "failed")
  /\ UNCHANGED <<session, ident, conn, tag, used, dropped, isClosed, serverVars,
                 wire>>

\* A session that has not noticed that its connection is gone still opens
\* streams.
OpenStream(d) ==
  /\ pc[d] \in {"open", "open2"} /\ ~isClosed[session]
  /\ conn' = [conn EXCEPT ![d] = session]
  /\ tag' = [tag EXCEPT ![d] = ident]
  /\ wire' = IF link[session] = "up"
             THEN [wire EXCEPT ![session] = Append(@, d)] ELSE wire
  /\ Return(d, "done")
  /\ UNCHANGED <<session, ident, used, dropped, linkVars, serverVars>>

\* Variant: the session that is replaced is closed.
OpenStreamFailCloses(d) ==
  /\ pc[d] = "open"
  /\ session' = 0 /\ dropped' = dropped \cup {session}
  /\ Goto(d, "outer2")
  /\ SetLink(session, Closed(session, "closed"))
  /\ UNCHANGED <<mu, ident, conn, tag, used, isClosed, serverVars, wire>>

\* OpenStream fails because the session is dead or cannot send: the first
\* time it is dropped, without being closed, and dialOuter runs again.
OpenStreamFail(d) ==
  /\ pc[d] = "open"
  /\ session' = 0 /\ dropped' = dropped \cup {session}
  /\ Goto(d, "outer2")
  /\ UNCHANGED <<mu, ident, conn, tag, used, linkVars, serverVars, wire>>

OpenStreamFailAgain(d) ==
  /\ pc[d] = "open2"
  /\ Return(d, "failed")
  /\ UNCHANGED <<session, ident, conn, tag, used, dropped, linkVars, serverVars,
                 wire>>

\* Close takes the lock, closes the session and the raw connection, of which a
\* dropped session leaves only the second, and keeps both.
Close(x) ==
  LET ends == {session, ident} \ {0}
  IN  /\ pc[x] = "wait" /\ mu = None
      /\ Goto(x, "done")
      /\ link' = [i \in Conns |-> IF i \in ends THEN Closed(i, "closed") ELSE link[i]]
      /\ isClosed' = [i \in Conns |-> isClosed[i] \/ (i = session)]
      /\ UNCHANGED <<clientVars, serverVars, wire>>

-----------------------------------------------------------------------------
(* Server.acceptStreams, Accept and Close.                                 *)

AcceptStream(i) ==
  /\ loop[i] = "accept" /\ wire[i] /= <<>>
  /\ hand' = [hand EXCEPT ![i] = Head(wire[i])]
  /\ wire' = [wire EXCEPT ![i] = Tail(@)]
  /\ loop' = [loop EXCEPT ![i] = "send"]
  /\ UNCHANGED <<pc, clientVars, linkVars, out, done, taking, served>>

\* The loop ends and closes its session, and with it the connection.
LoopEnds(i) ==
  /\ loop' = [loop EXCEPT ![i] = "exited"]
  /\ hand' = [hand EXCEPT ![i] = None]
  /\ wire' = [wire EXCEPT ![i] = <<>>]
  /\ SetLink(i, Closed(i, "closed"))
  /\ UNCHANGED <<pc, clientVars, isClosed, out, done, taking, served>>

AcceptStreamFail(i) == loop[i] = "accept" /\ link[i] \in Down /\ LoopEnds(i)

\* Variant: a stream that finds the channel full is dropped.
OfferOrDrop(i) ==
  /\ loop[i] = "send"
  /\ out' = IF Len(out) < OutCap THEN Append(out, hand[i]) ELSE out
  /\ hand' = [hand EXCEPT ![i] = None]
  /\ loop' = [loop EXCEPT ![i] = "accept"]
  /\ UNCHANGED <<pc, clientVars, linkVars, done, taking, served, wire>>

\* Variant: the channel grows.
OfferUnbounded(i) ==
  /\ loop[i] = "send"
  /\ out' = Append(out, hand[i])
  /\ hand' = [hand EXCEPT ![i] = None]
  /\ loop' = [loop EXCEPT ![i] = "accept"]
  /\ UNCHANGED <<pc, clientVars, linkVars, done, taking, served, wire>>

Offer(i) ==
  /\ loop[i] = "send" /\ Len(out) < OutCap
  /\ out' = Append(out, hand[i])
  /\ hand' = [hand EXCEPT ![i] = None]
  /\ loop' = [loop EXCEPT ![i] = "accept"]
  /\ UNCHANGED <<pc, clientVars, linkVars, done, taking, served, wire>>

OfferDone(i) == loop[i] = "send" /\ done /\ LoopEnds(i)

Accept ==
  /\ taking /\ out /= <<>>
  /\ served' = Append(served, Head(out))
  /\ out' = Tail(out)
  /\ UNCHANGED <<pc, clientVars, linkVars, loop, hand, done, taking, wire>>

AcceptClosed ==
  /\ taking /\ done
  /\ taking' = FALSE
  /\ UNCHANGED <<pc, clientVars, linkVars, loop, hand, out, done, served, wire>>

\* The sessions are not told.
CloseServer ==
  /\ done' = TRUE
  /\ UNCHANGED <<pc, clientVars, linkVars, loop, hand, out, taking, served, wire>>

-----------------------------------------------------------------------------
DialStep(d) ==
  \/ DialContextFail(d) \/ DialContext(d) \/ Handshake(d) \/ HandshakeFail(d)
  \/ OpenStream(d) \/ OpenStreamFail(d) \/ OpenStreamFailAgain(d)

Next ==
  \/ \E x \in Dials \cup Closes : Call(x)
  \/ \E d \in Dials : Lock(d) \/ DialStep(d)
  \/ \E x \in Closes : Close(x)
  \/ \E i \in Conns :
       \/ Fault(i) \/ KeepAliveFails(i) \/ HandleOuter(i) \/ HandleOuterFail(i)
       \/ AcceptStream(i) \/ AcceptStreamFail(i) \/ Offer(i) \/ OfferDone(i)
  \/ Accept \/ AcceptClosed \/ CloseServer

\* Goroutines run; a call that waits for a mutex or for room in a channel has
\* its turn in the end (queues of waiters in Go).  A client that waits in its
\* handshake, which has no deadline of its own, goes on when the server has
\* answered or hung up, which the server's deadline sees to.
Fairness ==
  /\ \A d \in Dials :
       /\ SF_vars(Lock(d))
       /\ WF_vars(pc[d] \notin {"shake", "shake2"} /\ DialStep(d))
       /\ WF_vars(HandshakeAnswered(d) /\ (Handshake(d) \/ HandshakeFail(d)))
  /\ \A x \in Closes : SF_vars(Close(x))
  /\ \A i \in Conns :
       /\ WF_vars(HandleOuterFail(i))
       /\ WF_vars(AcceptStream(i) \/ AcceptStreamFail(i))
       /\ SF_vars(Offer(i) \/ OfferDone(i))
  /\ WF_vars(Accept \/ AcceptClosed)

Spec == Init /\ [][Next]_vars
FairSpec == Spec /\ Fairness

-----------------------------------------------------------------------------
(* Properties.                                                             *)

\* A stream carries the raw connection and the transcript hash of the session
\* it was opened on, across reconnects and concurrent calls: with any other
\* the server, which checks the token "against the same channel binding"
\* (smuxtcp.go:6-8), would reject it.
BoundToSession == \A d \in Dials : pc[d] = "done" => tag[d] = conn[d]

\* Concurrent calls of Dial share one connection: while no call is running,
\* an outer connection that works is the one Dial uses next and Close closes,
\* or one on which OpenStream has failed (smuxtcp.go:201-206, 213).
NoStrayConnection ==
  mu = None => \A i \in Conns : link[i] = "up" => i = session \/ i \in dropped

\* Only a call of Close or a shutdown of the server ends an outer connection
\* that works, and with it every stream on it: a Dial that replaces its session
\* never cuts the streams of other callers (smuxtcp.go:129-147, 207-213).
NoCollateral ==
  \A i \in Conns : link[i] = "closed" => done \/ \E x \in Closes : pc[x] = "done"

\* The way from the sessions to the caller of Accept keeps what FanIn promises,
\* each session being a source (smuxtcp.go:129-160).
Undelivered(i) ==
  Selected(out, {d \in Dials : conn[d] = i}) \o
    (IF loop[i] = "send" THEN <<hand[i]>> \o wire[i] ELSE wire[i])

F == INSTANCE FanIn WITH
       Sources <- Conns, Streams <- Dials,
       pending <- [i \in Conns |-> Undelivered(i)],
       delivered <- served,
       closing <- {i \in Conns : done \/ link[i] \in Down}

ImplementsFanIn == F!Spec

\* Every call of Dial and Close returns, whatever the connections do: the lock
\* is held across a whole reconnect, so one call that hangs stops them all
\* (smuxtcp.go:200-218, 105).
CallsReturn ==
  \A x \in Dials \cup Closes : pc[x] = "wait" ~> pc[x] \in {"done", "failed"}

\* A stream opened on a connection that stays up reaches the caller of Accept,
\* although the loops of all sessions compete for one channel
\* (smuxtcp.go:141-146, 151-154).
StreamHandled ==
  \A d \in Dials :
    pc[d] = "done" ~>
      \/ Contains(served, d) \/ done
      \/ \E i \in Conns : i = conn[d] /\ link[i] \in Down
=============================================================================
