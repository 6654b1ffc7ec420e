--------------------------- MODULE AcceptPipeline ---------------------------
(***************************************************************************)
(* The path of a connection into the AVANGARD server: a transport's accept *)
(* loop and its handshake goroutines (pkg/transport/tcp/server.go, the     *)
(* other transports have the same shape), the transport's `out` channel,   *)
(* the goroutine CompositeListener starts for each listener, its `out`     *)
(* channel, Server.Serve and the goroutines that run Close                 *)
(* (pkg/tunnel/server.go).                                                 *)
(*                                                                         *)
(* One action is one step of one goroutine between two points where        *)
(* another can be scheduled.  A select with several ready cases takes any. *)
(***************************************************************************)
EXTENDS FiniteSets, Queues

CONSTANTS
  N,          \* the number of listeners given to NewComposite
  Streams,    \* the connections the peers may open
  Home,       \* the listener a connection is made to
  OutCap,     \* capacity of a transport's out channel (32 in tcp)
  CompCap,    \* capacity of the composite's out channel (4 * N in the code)
  Closers,    \* goroutines that shut the server down
  OnceClose,  \* listeners whose Close guards close(done) with sync.Once
  Faulty,     \* listeners whose Accept may fail while they are open
  Multi,      \* listeners whose connections carry many streams (quic)
  NoStream,   \* the fan goroutine of a listener holds nothing
  ErrClosed   \* the item a closed listener's Accept returns

Listeners == 1 .. N

ASSUME PipelineAssumption ==
  /\ N \in Nat \ {0}
  /\ Home \in [Streams -> Listeners]
  /\ OutCap \in Nat \ {0} /\ CompCap \in Nat \ {0}
  /\ OnceClose \subseteq Listeners /\ Faulty \subseteq Listeners
  /\ Multi \subseteq Listeners
  /\ NoStream \notin Streams /\ ErrClosed \notin Streams
  /\ NoStream /= ErrClosed

VARIABLES
  st,         \* where each stream is in its life
  loop,       \* the accept loop of a listener is running
  listening,  \* the socket of a listener is open
  done,       \* the done channel of a listener is closed
  out,        \* the out channel of a listener
  fan,        \* the composite's goroutine for a listener
  hand,       \* the item that goroutine received and has not sent on
  cout,       \* the composite's out channel
  cdone,      \* the composite's done channel is closed
  ctxDone,    \* the context given to Serve is cancelled
  serving,    \* Serve has not returned
  closer,     \* the position of each closing goroutine
  panicked,   \* a channel was closed twice: the process is gone
  served      \* the streams Serve passed to a handler, in order (history)

transportVars == <<loop, listening, done, out>>
compositeVars == <<fan, hand, cout, cdone>>
serverVars == <<ctxDone, serving, served>>
vars == <<st, transportVars, compositeVars, serverVars, closer, panicked>>

\* "stranded" is a stream that a goroutine gave up without closing it.
StreamState == {"absent", "backlog", "handshake", "offering", "queued",
                "handled", "closed", "stranded"}
CloserPos == {"idle", "cancelled", "check", "close", "socket", "end"}
Items == Streams \cup {ErrClosed}

TypeOK ==
  /\ st \in [Streams -> StreamState]
  /\ loop \in [Listeners -> BOOLEAN]
  /\ listening \in [Listeners -> BOOLEAN]
  /\ done \in [Listeners -> BOOLEAN]
  /\ out \in [Listeners -> Seq(Streams)] /\ \A l \in Listeners : Len(out[l]) <= OutCap
  /\ fan \in [Listeners -> {"accept", "send", "exited"}]
  /\ hand \in [Listeners -> Items \cup {NoStream}]
  /\ cout \in Seq(Items) /\ Len(cout) <= CompCap
  /\ cdone \in BOOLEAN /\ ctxDone \in BOOLEAN /\ serving \in BOOLEAN
  /\ closer \in [Closers -> [pos : CloserPos, l : 1 .. N + 1]]
  /\ panicked \in BOOLEAN
  /\ served \in Seq(Streams)

Init ==
  /\ st = [s \in Streams |-> "absent"]
  /\ loop = [l \in Listeners |-> TRUE]
  /\ listening = [l \in Listeners |-> TRUE]
  /\ done = [l \in Listeners |-> FALSE]
  /\ out = [l \in Listeners |-> <<>>]
  /\ fan = [l \in Listeners |-> "accept"]
  /\ hand = [l \in Listeners |-> NoStream]
  /\ cout = <<>>
  /\ cdone = FALSE
  /\ ctxDone = FALSE
  /\ serving = TRUE
  /\ closer = [c \in Closers |-> [pos |-> "idle", l |-> 1]]
  /\ panicked = FALSE
  /\ served = <<>>

Move(s, from, to) == st[s] = from /\ st' = [st EXCEPT ![s] = to]

-----------------------------------------------------------------------------
(* The peers and the kernel's backlog.                                     *)

Connect(s) ==
  /\ listening[Home[s]]
  /\ Move(s, "absent", "backlog")
  /\ UNCHANGED <<transportVars, compositeVars, serverVars, closer, panicked>>

(* The accept loop and the handshake goroutines of a transport.            *)

\* Variant: the handshake runs in the accept loop itself.
AcceptConnInline(s) ==
  /\ loop[Home[s]] /\ listening[Home[s]]
  /\ \A r \in Streams : Home[r] = Home[s] => st[r] /= "handshake"
  /\ Move(s, "backlog", "handshake")
  /\ UNCHANGED <<transportVars, compositeVars, serverVars, closer, panicked>>

AcceptConn(s) ==
  /\ loop[Home[s]] /\ listening[Home[s]]
  /\ Move(s, "backlog", "handshake")
  /\ UNCHANGED <<transportVars, compositeVars, serverVars, closer, panicked>>

\* A further stream on the connection of one that is being served: the loop of
\* that connection takes it (quic/server.go:101-110), also when the listener's
\* own loop has ended.
OpenStream(s) ==
  /\ Home[s] \in Multi
  /\ \E r \in Streams : Home[r] = Home[s]
                        /\ st[r] \in {"handshake", "offering", "queued", "handled"}
  /\ Move(s, "absent", "handshake")
  /\ UNCHANGED <<transportVars, compositeVars, serverVars, closer, panicked>>

\* Variant: the loop closes the done channel when it gives up.
AcceptErrorClosesDone(l) ==
  /\ loop[l]
  /\ l \in Faulty \/ ~listening[l]
  /\ loop' = [loop EXCEPT ![l] = FALSE]
  /\ done' = [done EXCEPT ![l] = TRUE]
  /\ UNCHANGED <<st, listening, out, compositeVars, serverVars, closer, panicked>>

\* Any error of Accept ends the loop, the closed socket's among them; the
\* done channel only decides whether the error is logged.
AcceptError(l) ==
  /\ loop[l]
  /\ l \in Faulty \/ ~listening[l]
  /\ loop' = [loop EXCEPT ![l] = FALSE]
  /\ UNCHANGED <<st, listening, done, out, compositeVars, serverVars, closer,
                 panicked>>

HandshakeOK(s) ==
  /\ Move(s, "handshake", "offering")
  /\ UNCHANGED <<transportVars, compositeVars, serverVars, closer, panicked>>

HandshakeFail(s) ==
  /\ Move(s, "handshake", "closed")
  /\ UNCHANGED <<transportVars, compositeVars, serverVars, closer, panicked>>

\* Variant: an out channel without a capacity.
OfferUnbounded(s) ==
  /\ Move(s, "offering", "queued")
  /\ out' = [out EXCEPT ![Home[s]] = Append(@, s)]
  /\ UNCHANGED <<loop, listening, done, compositeVars, serverVars, closer,
                 panicked>>

Offer(s) ==
  /\ Len(out[Home[s]]) < OutCap
  /\ Move(s, "offering", "queued")
  /\ out' = [out EXCEPT ![Home[s]] = Append(@, s)]
  /\ UNCHANGED <<loop, listening, done, compositeVars, serverVars, closer,
                 panicked>>

OfferDone(s) ==
  /\ done[Home[s]]
  /\ Move(s, "offering", "closed")
  /\ UNCHANGED <<transportVars, compositeVars, serverVars, closer, panicked>>

-----------------------------------------------------------------------------
(* The goroutine NewComposite starts for listener l.                       *)

\* Variant: the item is read and left in the channel.
FanAcceptPeek(l) ==
  /\ fan[l] = "accept" /\ out[l] /= <<>>
  /\ hand' = [hand EXCEPT ![l] = Head(out[l])]
  /\ fan' = [fan EXCEPT ![l] = "send"]
  /\ UNCHANGED <<st, transportVars, cout, cdone, serverVars, closer, panicked>>

FanAccept(l) ==
  /\ fan[l] = "accept" /\ out[l] /= <<>>
  /\ hand' = [hand EXCEPT ![l] = Head(out[l])]
  /\ out' = [out EXCEPT ![l] = Tail(@)]
  /\ fan' = [fan EXCEPT ![l] = "send"]
  /\ UNCHANGED <<st, loop, listening, done, cout, cdone, serverVars, closer,
                 panicked>>

FanAcceptClosed(l) ==
  /\ fan[l] = "accept" /\ done[l]
  /\ hand' = [hand EXCEPT ![l] = ErrClosed]
  /\ fan' = [fan EXCEPT ![l] = "send"]
  /\ UNCHANGED <<st, transportVars, cout, cdone, serverVars, closer, panicked>>

\* Variant: select with a default case that drops the item.
FanSendOrDrop(l) ==
  /\ fan[l] = "send"
  /\ cout' = IF Len(cout) < CompCap THEN Append(cout, hand[l]) ELSE cout
  /\ hand' = [hand EXCEPT ![l] = NoStream]
  /\ fan' = [fan EXCEPT ![l] = IF hand[l] = ErrClosed THEN "exited" ELSE "accept"]
  /\ UNCHANGED <<st, transportVars, cdone, serverVars, closer, panicked>>

FanSend(l) ==
  /\ fan[l] = "send" /\ Len(cout) < CompCap
  /\ cout' = Append(cout, hand[l])
  /\ hand' = [hand EXCEPT ![l] = NoStream]
  /\ fan' = [fan EXCEPT ![l] = IF hand[l] = ErrClosed THEN "exited" ELSE "accept"]
  /\ UNCHANGED <<st, transportVars, cdone, serverVars, closer, panicked>>

\* The stream in hand is neither sent nor closed.
FanDone(l) ==
  /\ fan[l] = "send" /\ cdone
  /\ st' = [s \in Streams |-> IF s = hand[l] THEN "stranded" ELSE st[s]]
  /\ hand' = [hand EXCEPT ![l] = NoStream]
  /\ fan' = [fan EXCEPT ![l] = "exited"]
  /\ UNCHANGED <<transportVars, cout, cdone, serverVars, closer, panicked>>

-----------------------------------------------------------------------------
(* Server.Serve, which calls CompositeListener.Accept, and its handlers.   *)

\* Variant: Serve runs the handler itself.
ServeTakeInline ==
  /\ serving /\ cout /= <<>> /\ Head(cout) \in Streams
  /\ \A s \in Streams : st[s] /= "handled"
  /\ Move(Head(cout), "queued", "handled")
  /\ cout' = Tail(cout)
  /\ served' = Append(served, Head(cout))
  /\ UNCHANGED <<transportVars, fan, hand, cdone, ctxDone, serving, closer,
                 panicked>>

ServeTake ==
  /\ serving /\ cout /= <<>> /\ Head(cout) \in Streams
  /\ Move(Head(cout), "queued", "handled")
  /\ cout' = Tail(cout)
  /\ served' = Append(served, Head(cout))
  /\ UNCHANGED <<transportVars, fan, hand, cdone, ctxDone, serving, closer,
                 panicked>>

ServeErr ==
  /\ serving /\ cout /= <<>> /\ Head(cout) = ErrClosed
  /\ cout' = Tail(cout)
  /\ serving' = FALSE
  /\ UNCHANGED <<st, transportVars, fan, hand, cdone, ctxDone, served, closer,
                 panicked>>

ServeStop ==
  /\ serving /\ (ctxDone \/ cdone)
  /\ serving' = FALSE
  /\ UNCHANGED <<st, transportVars, compositeVars, ctxDone, served, closer,
                 panicked>>

HandlerEnd(s) ==
  /\ Move(s, "handled", "closed")
  /\ UNCHANGED <<transportVars, compositeVars, serverVars, closer, panicked>>

-----------------------------------------------------------------------------
(* A goroutine that shuts the server down: cancel, then Server.Close.      *)

At(c, pos) == closer[c].pos = pos
Go(c, pos, l) == closer' = [closer EXCEPT ![c] = [pos |-> pos, l |-> l]]

Cancel(c) ==
  /\ At(c, "idle")
  /\ ctxDone' = TRUE
  /\ Go(c, "cancelled", 1)
  /\ UNCHANGED <<st, transportVars, compositeVars, serving, served, panicked>>

\* Variant: CompositeListener.Close closes the listeners only.
CloseCompositeSkipsDone(c) ==
  /\ At(c, "cancelled")
  /\ Go(c, "check", 1)
  /\ UNCHANGED <<st, transportVars, compositeVars, serverVars, panicked>>

CloseComposite(c) ==
  /\ At(c, "cancelled")
  /\ cdone' = TRUE
  /\ Go(c, "check", 1)
  /\ UNCHANGED <<st, transportVars, fan, hand, cout, serverVars, panicked>>

\* sync.Once: closing the channel and noting it is one step for the others.
CloseOnce(c) == LET l == closer[c].l IN
  /\ At(c, "check") /\ l \in OnceClose
  /\ done' = [done EXCEPT ![l] = TRUE]
  /\ Go(c, "socket", l)
  /\ UNCHANGED <<st, loop, listening, out, compositeVars, serverVars, panicked>>

\* select { case <-s.done: default: close(s.done) } is two steps.
CloseCheck(c) == LET l == closer[c].l IN
  /\ At(c, "check") /\ l \in Listeners \ OnceClose
  /\ Go(c, IF done[l] THEN "socket" ELSE "close", l)
  /\ UNCHANGED <<st, transportVars, compositeVars, serverVars, panicked>>

CloseDone(c) == LET l == closer[c].l IN
  /\ At(c, "close")
  /\ panicked' = done[l]
  /\ done' = [done EXCEPT ![l] = TRUE]
  /\ Go(c, "socket", l)
  /\ UNCHANGED <<st, loop, listening, out, compositeVars, serverVars>>

\* Closing the socket resets the connections nobody accepted.
CloseSocket(c) == LET l == closer[c].l IN
  /\ At(c, "socket")
  /\ listening' = [listening EXCEPT ![l] = FALSE]
  /\ st' = [s \in Streams |->
              IF Home[s] = l /\ st[s] = "backlog" THEN "closed" ELSE st[s]]
  /\ Go(c, IF l = N THEN "end" ELSE "check", l + 1)
  /\ UNCHANGED <<loop, done, out, compositeVars, serverVars, panicked>>

Close(c) == \/ CloseComposite(c) \/ CloseOnce(c) \/ CloseCheck(c)
            \/ CloseDone(c) \/ CloseSocket(c)

-----------------------------------------------------------------------------
Fan(l) == FanAccept(l) \/ FanAcceptClosed(l) \/ FanSend(l) \/ FanDone(l)
Serve == ServeTake \/ ServeErr \/ ServeStop

Next ==
  /\ ~panicked
  /\ \/ \E s \in Streams :
          \/ Connect(s) \/ AcceptConn(s) \/ OpenStream(s) \/ HandshakeOK(s)
          \/ HandshakeFail(s) \/ Offer(s) \/ OfferDone(s) \/ HandlerEnd(s)
     \/ \E l \in Listeners : AcceptError(l) \/ Fan(l)
     \/ Serve
     \/ \E c \in Closers : Cancel(c) \/ Close(c)

\* Goroutines that can run do run.  A blocked channel send is served in the
\* order of the channel's send queue, hence the strong fairness of the two
\* sends.  Peers and their handshakes, faults, handler lifetimes and the
\* decision to shut down owe nothing.
Fairness ==
  /\ \A s \in Streams :
       /\ WF_vars(~panicked /\ AcceptConn(s))
       /\ SF_vars(~panicked /\ (Offer(s) \/ OfferDone(s)))
  /\ \A l \in Listeners :
       /\ WF_vars(~panicked /\ AcceptError(l) /\ ~listening[l])
       /\ WF_vars(~panicked /\ (FanAccept(l) \/ FanAcceptClosed(l)))
       /\ SF_vars(~panicked /\ (FanSend(l) \/ FanDone(l)))
  /\ WF_vars(~panicked /\ Serve)
  /\ \A c \in Closers : WF_vars(~panicked /\ Close(c))

Spec == Init /\ [][Next]_vars
FairSpec == Spec /\ Fairness
-----------------------------------------------------------------------------
(* Properties.                                                             *)

\* Every stream is where its state says and nowhere else: in one slot of one
\* channel or in one goroutine's hand while "queued", in none otherwise.  Two
\* owners of a stream would run two handlers on it (server.go:50).
SlotsOf(q, s) == {i \in 1 .. Len(q) : q[i] = s}
Slots(s) ==
  (UNION {{<<"out", l, i>> : i \in SlotsOf(out[l], s)} : l \in Listeners})
  \cup {<<"hand", l, 1>> : l \in {k \in Listeners : hand[k] = s}}
  \cup {<<"cout", 1, i>> : i \in SlotsOf(cout, s)}

SingleOwner ==
  \A s \in Streams :
    /\ st[s] = "queued" <=> Slots(s) /= {}
    /\ \A x, y \in Slots(s) : x = y

\* No channel is closed twice, which would panic and end the process: between
\* the check of Close and its close(done) nothing else closes the channel
\* (tcp/server.go:194-198, quic/server.go:148-152, server.go:174).
NoDoubleClose == ~panicked

\* Serve returns, and a listener's fan-in goroutine ends, only because the
\* server is being shut down: an error of one listener's accept loop stops
\* neither Serve nor the hand-over of the streams already admitted.
StopsOnlyOnShutdown ==
  (~serving \/ \E l \in Listeners : fan[l] = "exited") => ctxDone \/ cdone

\* The accept path keeps the promise of FanIn: order per listener, no
\* duplicate, no loss before shutdown (NewComposite, server.go:144).  The
\* streams behind a fan-in goroutine that is on its way out are abandoned.
Undelivered(l) ==
  Selected(cout, {s \in Streams : Home[s] = l}) \o
    CASE fan[l] = "accept" -> out[l]
      [] fan[l] = "send" /\ hand[l] /= ErrClosed -> <<hand[l]>> \o out[l]
      [] OTHER -> <<>>

F == INSTANCE FanIn WITH
       Sources <- Listeners,
       pending <- [l \in Listeners |-> Undelivered(l)],
       delivered <- served,
       closing <- {l \in Listeners : cdone \/ done[l]}

ImplementsFanIn == F!Spec

\* A peer that stalls in its handshake delays nobody else: a connection in
\* the backlog is taken up, or reset when the socket closes, unless an error
\* of Accept has ended the loop, after which it waits for the shutdown
\* (handleConn runs in a goroutine of its own, tcp/server.go:97).  A stream is
\* in the backlog at most once, so that "in the end none is" says this of each.
AcceptedPromptly ==
  <>[](\A s \in Streams : st[s] = "backlog" => ~loop[Home[s]])

\* An authenticated stream reaches a handler, or is still on its way in a
\* channel or given up only because the server is being shut down; its
\* goroutine does not stay blocked on the out channel even then.
HandedOver ==
  <>[](\A s \in Streams :
         st[s] /= "offering" /\ (st[s] \in {"queued", "stranded"} => ctxDone))

\* A shutdown that has begun ends Serve, every accept loop, every fan-in
\* goroutine and the closing goroutine itself, whatever is in the channels.
ShutdownCompletes ==
  \A c \in Closers : At(c, "cancelled") ~>
    /\ At(c, "end") /\ ~serving
    /\ \A l \in Listeners : fan[l] = "exited" /\ ~loop[l]
=============================================================================
