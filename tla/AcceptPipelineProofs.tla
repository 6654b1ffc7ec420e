------------------------ MODULE AcceptPipelineProofs ------------------------
(***************************************************************************)
(* Proofs about the accept path, for every number of listeners, streams    *)
(* and closing goroutines, and every capacity of the channels.             *)
(***************************************************************************)
EXTENDS AcceptPipeline, QueueLemmas

\* A closing goroutine that has not ended is at one of the listeners, and a
\* fan-in goroutine that sends has something to send.
Positions ==
  /\ \A c \in Closers : closer[c].pos /= "end" => closer[c].l \in Listeners
  /\ \A l \in Listeners : fan[l] = "send" => hand[l] \in Items

Typed == TypeOK /\ Positions

LEMMA TypedStart == Init => Typed
<1> SUFFICES ASSUME Init PROVE Typed
  OBVIOUS
<1> USE PipelineAssumption DEF Init, Listeners, StreamState, CloserPos, Items
<1>1. \A l \in Listeners : out[l] \in Seq(Streams) /\ Len(out[l]) <= OutCap
  OBVIOUS
<1>2. cout \in Seq(Items) /\ Len(cout) <= CompCap /\ served \in Seq(Streams)
  OBVIOUS
<1>3. closer \in [Closers -> [pos : CloserPos, l : 1 .. N + 1]]
  OBVIOUS
<1>4. hand \in [Listeners -> Items \cup {NoStream}]
  OBVIOUS
<1>5. Positions
  BY DEF Positions
<1>6. QED
  BY <1>1, <1>2, <1>3, <1>4, <1>5 DEF Typed, TypeOK

\* The actions that leave the closing goroutines alone.
LEMMA TypedTransport ==
  ASSUME Typed, NEW s \in Streams,
         \/ Connect(s) \/ AcceptConn(s) \/ OpenStream(s)
         \/ HandshakeOK(s) \/ HandshakeFail(s)
         \/ Offer(s) \/ OfferDone(s) \/ HandlerEnd(s)
  PROVE  Typed'
<1> USE PipelineAssumption DEF Typed, TypeOK, Positions, StreamState, Move,
        transportVars, compositeVars, serverVars
<1>1. CASE \/ Connect(s) \/ AcceptConn(s) \/ OpenStream(s)
           \/ HandshakeOK(s) \/ HandshakeFail(s)
  BY <1>1 DEF Connect, AcceptConn, OpenStream, HandshakeOK, HandshakeFail
<1>2. CASE OfferDone(s) \/ HandlerEnd(s)
  BY <1>2 DEF OfferDone, HandlerEnd
<1>3. CASE Offer(s)
  <2>1. Home[s] \in Listeners
    OBVIOUS
  <2>2. \A l \in Listeners : out'[l] \in Seq(Streams) /\ Len(out'[l]) <= OutCap
    BY <1>3, <2>1 DEF Offer
  <2>3. QED
    BY <1>3, <2>2 DEF Offer
<1>4. QED
  BY <1>1, <1>2, <1>3

LEMMA TypedFan ==
  ASSUME Typed, NEW l \in Listeners, AcceptError(l) \/ Fan(l)
  PROVE  Typed'
<1> USE PipelineAssumption DEF Typed, TypeOK, Positions, StreamState, Items,
        transportVars, compositeVars, serverVars
<1>1. CASE AcceptError(l)
  BY <1>1 DEF AcceptError
<1>2. CASE FanAccept(l)
  BY <1>2 DEF FanAccept
<1>3. CASE FanAcceptClosed(l)
  BY <1>3 DEF FanAcceptClosed
<1>4. CASE FanSend(l)
  <2>1. /\ cout' \in Seq(Items) /\ Len(cout') <= CompCap
    BY <1>4 DEF FanSend
  <2>2. QED
    BY <1>4, <2>1 DEF FanSend
<1>5. CASE FanDone(l)
  BY <1>5 DEF FanDone
<1>6. QED
  BY <1>1, <1>2, <1>3, <1>4, <1>5 DEF Fan

LEMMA TypedServe ==
  ASSUME Typed, Serve
  PROVE  Typed'
<1> USE PipelineAssumption DEF Typed, TypeOK, Positions, StreamState, Items,
        transportVars, compositeVars, serverVars
<1>1. CASE ServeTake
  BY <1>1 DEF ServeTake, Move
<1>2. CASE ServeErr
  <2>1. cout' \in Seq(Items) /\ Len(cout') <= CompCap
    BY <1>2 DEF ServeErr
  <2>2. QED
    BY <1>2, <2>1 DEF ServeErr
<1>3. CASE ServeStop
  BY <1>3 DEF ServeStop
<1>4. QED
  BY <1>1, <1>2, <1>3 DEF Serve

LEMMA TypedClose ==
  ASSUME Typed, NEW c \in Closers, Cancel(c) \/ Close(c)
  PROVE  Typed'
<1> USE PipelineAssumption DEF Typed, TypeOK, Positions, StreamState, CloserPos,
        Listeners, At, Go, transportVars, compositeVars, serverVars
<1>1. CASE Cancel(c)
  BY <1>1 DEF Cancel
<1>2. CASE CloseComposite(c)
  BY <1>2 DEF CloseComposite
<1>3. CASE CloseOnce(c)
  BY <1>3 DEF CloseOnce
<1>4. CASE CloseCheck(c)
  BY <1>4 DEF CloseCheck
<1>5. CASE CloseDone(c)
  BY <1>5 DEF CloseDone
<1>6. CASE CloseSocket(c)
  BY <1>6 DEF CloseSocket
<1>7. QED
  BY <1>1, <1>2, <1>3, <1>4, <1>5, <1>6 DEF Close

LEMMA TypedStep == Typed /\ [Next]_vars => Typed'
<1> SUFFICES ASSUME Typed, [Next]_vars PROVE Typed'
  OBVIOUS
<1>1. CASE UNCHANGED vars
  BY <1>1 DEF Typed, TypeOK, Positions, vars, transportVars, compositeVars, serverVars
<1>2. CASE Next
  BY <1>2, TypedTransport, TypedFan, TypedServe, TypedClose DEF Next
<1>3. QED
  BY <1>1, <1>2

LEMMA AlwaysTyped == Spec => []Typed
<1>1. QED
  BY TypedStart, TypedStep, PTL DEF Spec

\* Every variable keeps its type; no channel ever holds more than its
\* capacity (tcp/server.go:79, server.go:147).
THEOREM TypeCorrect == Spec => []TypeOK
<1>1. Typed => TypeOK
  BY DEF Typed
<1>2. QED
  BY <1>1, AlwaysTyped, PTL

-----------------------------------------------------------------------------
(* StopsOnlyOnShutdown.                                                    *)

\* A done channel is closed, and a listener's ErrClosed is on its way to
\* Serve, only after the composite's own done channel was closed.
ShutdownFirst ==
  /\ \A c \in Closers : closer[c].pos \notin {"idle", "cancelled"} => cdone
  /\ \A l \in Listeners : done[l] \/ hand[l] = ErrClosed \/ fan[l] = "exited" => cdone
  /\ \A i \in 1 .. Len(cout) : cout[i] = ErrClosed => cdone
  /\ ~serving => ctxDone \/ cdone

LEMMA ShutdownFirstStep ==
  Typed /\ ShutdownFirst /\ [Next]_vars => ShutdownFirst'
<1> USE PipelineAssumption DEF ShutdownFirst
<1> SUFFICES ASSUME Typed, ShutdownFirst, [Next]_vars PROVE ShutdownFirst'
  OBVIOUS
<1>1. ASSUME NEW s \in Streams,
             \/ Connect(s) \/ AcceptConn(s) \/ OpenStream(s)
             \/ HandshakeOK(s) \/ HandshakeFail(s)
             \/ Offer(s) \/ OfferDone(s) \/ HandlerEnd(s)
      PROVE  ShutdownFirst'
  <2>1. UNCHANGED <<closer, done, hand, fan, cout, cdone, ctxDone, serving>>
    BY <1>1 DEF Connect, AcceptConn, OpenStream, HandshakeOK,
                HandshakeFail, Offer, OfferDone, HandlerEnd, transportVars,
                compositeVars, serverVars
  <2>2. QED
    BY <2>1
<1>2. ASSUME NEW l \in Listeners, AcceptError(l)
      PROVE  ShutdownFirst'
  BY <1>2 DEF AcceptError, compositeVars, serverVars
<1>3. ASSUME NEW l \in Listeners, FanAccept(l) \/ FanAcceptClosed(l) \/ FanDone(l)
      PROVE  ShutdownFirst'
  <2>1. Head(out[l]) /= ErrClosed \/ out[l] = <<>>
    BY DEF Typed, TypeOK
  <2>2. QED
    BY <1>3, <2>1 DEF FanAccept, FanAcceptClosed, FanDone, Typed, TypeOK,
                      transportVars, serverVars
<1>4. ASSUME NEW l \in Listeners, FanSend(l)
      PROVE  ShutdownFirst'
  BY <1>4 DEF FanSend, Typed, TypeOK, transportVars, serverVars
<1>5. CASE Serve
  <2>1. CASE ServeStop
    BY <2>1 DEF ServeStop, transportVars, compositeVars
  <2>2. CASE ServeTake \/ ServeErr
    <3>1. /\ cout /= <<>> /\ cout' = Tail(cout) /\ cout \in Seq(Items)
          /\ UNCHANGED <<closer, done, hand, fan, cdone, ctxDone>>
      BY <2>2 DEF ServeTake, ServeErr, transportVars, Typed, TypeOK
    <3>2. \A i \in 1 .. Len(cout') : i + 1 \in 1 .. Len(cout) /\ cout'[i] = cout[i + 1]
      BY <3>1
    <3>3. 1 \in 1 .. Len(cout) /\ Head(cout) = cout[1]
      BY <3>1
    <3>4. ~serving' => cdone
      BY <2>2, <3>3 DEF ServeTake, ServeErr
    <3>5. QED
      BY <3>1, <3>2, <3>4
  <2>3. QED
    BY <1>5, <2>1, <2>2 DEF Serve
<1>6. ASSUME NEW c \in Closers, Cancel(c) \/ Close(c)
      PROVE  ShutdownFirst'
  <2> USE DEF At, Go, Typed, TypeOK, transportVars, compositeVars, serverVars
  <2>1. CASE Cancel(c)
    BY <2>1 DEF Cancel
  <2>2. CASE CloseComposite(c)
    BY <2>2 DEF CloseComposite
  <2>3. CASE CloseOnce(c)
    BY <2>3 DEF CloseOnce
  <2>4. CASE CloseCheck(c)
    BY <2>4 DEF CloseCheck
  <2>5. CASE CloseDone(c)
    BY <2>5 DEF CloseDone
  <2>6. CASE CloseSocket(c)
    BY <2>6 DEF CloseSocket
  <2>7. QED
    BY <1>6, <2>1, <2>2, <2>3, <2>4, <2>5, <2>6 DEF Close
<1>7. CASE UNCHANGED vars
  BY <1>7 DEF vars, transportVars, compositeVars, serverVars
<1>8. QED
  BY <1>1, <1>2, <1>3, <1>4, <1>5, <1>6, <1>7 DEF Next, Fan

\* Serve and the fan-in goroutines stop only in a shutdown: no error of one
\* accept loop reaches Serve (server.go:144-178, tcp/server.go:85-99).
THEOREM StopsOnlyInShutdown == Spec => []StopsOnlyOnShutdown
<1>1. Init => ShutdownFirst
  BY PipelineAssumption DEF Init, ShutdownFirst
<1>2. ShutdownFirst => StopsOnlyOnShutdown
  BY DEF ShutdownFirst, StopsOnlyOnShutdown
<1>3. QED
  BY <1>1, <1>2, ShutdownFirstStep, AlwaysTyped, PTL DEF Spec

-----------------------------------------------------------------------------
(* NoDoubleClose.                                                          *)

\* What the transports rely on: sync.Once guards every close(done), as in ws
\* and smuxtcp, or one goroutine at most closes the server, as in
\* `avangard-server run` (cmd/avangard-server/main.go:231-238).
SafeClose == OnceClose = Listeners \/ \A c, d \in Closers : c = d

\* A goroutine about to close a done channel finds it open: nobody can have
\* closed it since the check.
Unclosed ==
  \A c \in Closers :
    /\ closer[c].pos \in {"idle", "cancelled"} => closer[c].l = 1
    /\ closer[c].pos = "close" => closer[c].l \notin OnceClose
    /\ (\A d \in Closers : c = d) =>
         \A l \in Listeners :
           done[l] => \/ l < closer[c].l
                      \/ l = closer[c].l /\ closer[c].pos = "socket"

LEMMA UnclosedStep ==
  ASSUME SafeClose
  PROVE  Typed /\ Unclosed /\ NoDoubleClose /\ [Next]_vars
           => Unclosed' /\ NoDoubleClose'
<1> USE PipelineAssumption DEF NoDoubleClose
<1> SUFFICES ASSUME Typed, Unclosed, NoDoubleClose, [Next]_vars
             PROVE  Unclosed' /\ NoDoubleClose'
  OBVIOUS
<1>1. ASSUME NEW c \in Closers, Cancel(c) \/ Close(c)
      PROVE  Unclosed' /\ NoDoubleClose'
  <2> USE DEF At, Go, Unclosed
  <2>1. /\ closer \in [Closers -> [pos : CloserPos, l : 1 .. N + 1]]
        /\ done \in [Listeners -> BOOLEAN]
        /\ closer[c].l \in 1 .. N + 1
        /\ closer[c].pos /= "end" => closer[c].l \in Listeners
    BY DEF Typed, TypeOK, Positions
  <2> USE DEF Listeners
  <2>2. CASE Cancel(c)
    BY <2>1, <2>2 DEF Cancel, transportVars
  <2>3. CASE CloseComposite(c)
    BY <2>1, <2>3 DEF CloseComposite, transportVars
  <2>4. CASE CloseOnce(c)
    BY <2>1, <2>4 DEF CloseOnce
  <2>5. CASE CloseCheck(c)
    BY <2>1, <2>5 DEF CloseCheck, transportVars
  <2>6. CASE CloseDone(c)
    <3>1. closer[c].l \in Listeners \ OnceClose
      BY <2>1, <2>6 DEF CloseDone
    <3>2. \A d \in Closers : c = d
      BY <3>1 DEF SafeClose
    <3>3. ~done[closer[c].l]
      BY <2>1, <2>6, <3>1, <3>2 DEF CloseDone
    <3>4. QED
      BY <2>1, <2>6, <3>1, <3>2, <3>3 DEF CloseDone
  <2>7. CASE CloseSocket(c)
    <3>1. /\ done' = done /\ panicked' = panicked
          /\ closer[c].pos = "socket"
          /\ closer'[c].pos \in {"end", "check"} /\ closer'[c].l = closer[c].l + 1
          /\ \A d \in Closers \ {c} : closer'[d] = closer[d]
      BY <2>1, <2>7 DEF CloseSocket
    <3>2. \A l \in Listeners : l \in Int /\ closer[c].l \in Int
      BY <2>1
    <3>3. \A l \in Listeners : l <= closer[c].l => l < closer'[c].l
      BY <3>1, <3>2
    <3>4. (\A d \in Closers : c = d) => \A l \in Listeners : done[l] => l <= closer[c].l
      BY <3>2
    <3>5. QED
      BY <3>1, <3>3, <3>4
  <2>8. QED
    BY <1>1, <2>2, <2>3, <2>4, <2>5, <2>6, <2>7 DEF Close
<1>2. CASE UNCHANGED <<closer, done, panicked>>
  BY <1>2 DEF Unclosed
<1>3. QED
  BY <1>1, <1>2, SMTT(30) DEF Next, vars, Connect, AcceptConn, OpenStream, AcceptError,
     HandshakeOK, HandshakeFail, Offer, OfferDone, Fan, FanAccept, FanAcceptClosed,
     FanSend, FanDone, Serve, ServeTake, ServeErr, ServeStop, HandlerEnd,
     transportVars, compositeVars, serverVars

\* No channel is closed twice as long as every transport uses sync.Once or
\* only one goroutine shuts the server down (tcp/server.go:193-200,
\* ws.go:140, smuxtcp.go:164, server.go:181).
THEOREM CloseIsSafe ==
  ASSUME SafeClose
  PROVE  Spec => []NoDoubleClose
<1>1. Init => Unclosed /\ NoDoubleClose
  BY PipelineAssumption DEF Init, Unclosed, NoDoubleClose
<1>2. Typed /\ Unclosed /\ NoDoubleClose /\ [Next]_vars => (Unclosed /\ NoDoubleClose)'
  BY UnclosedStep
<1>3. QED
  BY <1>1, <1>2, AlwaysTyped, PTL DEF Spec

-----------------------------------------------------------------------------
(* SingleOwner.                                                            *)

Holds(q, s) == \E i \in 1 .. Len(q) : q[i] = s
Distinct(q) == \A i, j \in 1 .. Len(q) : q[i] \in Streams /\ q[i] = q[j] => i = j

\* A stream is on its way to Serve if and only if it is queued; it is with its
\* own listener or in cout; and no place holds what another one holds.
Owned ==
  /\ \A l \in Listeners : Distinct(out[l])
  /\ Distinct(cout)
  /\ \A l \in Listeners : fan[l] = "accept" => hand[l] = NoStream
  /\ \A s \in Streams, l \in Listeners : Holds(out[l], s) \/ hand[l] = s => Home[s] = l
  /\ \A s \in Streams :
       /\ st[s] = "queued" =>
            Holds(out[Home[s]], s) \/ hand[Home[s]] = s \/ Holds(cout, s)
       /\ Holds(out[Home[s]], s) =>
            st[s] = "queued" /\ hand[Home[s]] /= s /\ ~Holds(cout, s)
       /\ hand[Home[s]] = s => st[s] = "queued" /\ ~Holds(cout, s)
       /\ Holds(cout, s) => st[s] = "queued"

LEMMA HoldsNothing == Distinct(<<>>) /\ \A s : ~Holds(<<>>, s)
<1>1. Len(<<>>) = 0
  OBVIOUS
<1>2. QED
  BY <1>1 DEF Distinct, Holds

LEMMA HoldsTail ==
  ASSUME NEW S, NEW q \in Seq(S), q /= <<>>, Distinct(q)
  PROVE  /\ Distinct(Tail(q)) /\ Holds(q, Head(q))
         /\ \A s \in Streams : Holds(Tail(q), s) <=> Holds(q, s) /\ s /= Head(q)
<1>1. /\ Head(q) = q[1] /\ 1 \in 1 .. Len(q) /\ Len(Tail(q)) = Len(q) - 1
      /\ \A i \in 1 .. Len(Tail(q)) : Tail(q)[i] = q[i + 1] /\ i + 1 \in 1 .. Len(q)
      /\ \A i \in 1 .. Len(q) : i = 1 \/ (i - 1 \in 1 .. Len(Tail(q)) /\ q[i] = Tail(q)[i - 1])
  OBVIOUS
<1>2. Distinct(Tail(q))
  <2> SUFFICES ASSUME NEW i \in 1 .. Len(Tail(q)), NEW j \in 1 .. Len(Tail(q)),
                      Tail(q)[i] \in Streams, Tail(q)[i] = Tail(q)[j]
               PROVE  i = j
    BY DEF Distinct
  <2>1. i + 1 = j + 1
    BY <1>1 DEF Distinct
  <2>2. QED
    BY <2>1
<1>3. ASSUME NEW s \in Streams
      PROVE  Holds(Tail(q), s) <=> Holds(q, s) /\ s /= Head(q)
  <2>1. ASSUME Holds(Tail(q), s)
        PROVE  Holds(q, s) /\ s /= Head(q)
    <3>1. PICK i \in 1 .. Len(Tail(q)) : Tail(q)[i] = s
      BY <2>1 DEF Holds
    <3>2. i + 1 \in 1 .. Len(q) /\ q[i + 1] = s /\ i + 1 /= 1
      BY <1>1, <3>1
    <3>3. QED
      BY <1>1, <3>2 DEF Holds, Distinct
  <2>2. ASSUME Holds(q, s), s /= Head(q)
        PROVE  Holds(Tail(q), s)
    <3>1. PICK i \in 1 .. Len(q) : q[i] = s
      BY <2>2 DEF Holds
    <3>2. QED
      BY <1>1, <2>2, <3>1 DEF Holds
  <2>3. QED
    BY <2>1, <2>2
<1>4. QED
  BY <1>1, <1>2, <1>3 DEF Holds

LEMMA HoldsAppend ==
  ASSUME NEW S, NEW q \in Seq(S), NEW x \in S, Distinct(q), x \in Streams => ~Holds(q, x)
  PROVE  /\ Distinct(Append(q, x))
         /\ \A s : Holds(Append(q, x), s) <=> Holds(q, s) \/ s = x
<1>1. /\ Len(Append(q, x)) = Len(q) + 1 /\ Append(q, x)[Len(q) + 1] = x
      /\ Len(q) + 1 \in 1 .. Len(q) + 1
      /\ \A i \in 1 .. Len(q) : Append(q, x)[i] = q[i] /\ i \in 1 .. Len(q) + 1
      /\ \A i \in 1 .. Len(q) + 1 : i \in 1 .. Len(q) \/ i = Len(q) + 1
  OBVIOUS
<1>2. Distinct(Append(q, x))
  BY <1>1 DEF Distinct, Holds
<1>3. ASSUME NEW s
      PROVE  Holds(Append(q, x), s) <=> Holds(q, s) \/ s = x
  BY <1>1 DEF Holds
<1>4. QED
  BY <1>2, <1>3

LEMMA OwnedStart == Init => Owned
<1> SUFFICES ASSUME Init PROVE Owned
  OBVIOUS
<1>1. /\ cout = <<>> /\ \A l \in Listeners : out[l] = <<>> /\ hand[l] = NoStream
      /\ \A s \in Streams : st[s] = "absent" /\ Home[s] \in Listeners
  BY PipelineAssumption DEF Init
<1>2. QED
  BY <1>1, HoldsNothing, PipelineAssumption DEF Owned

LEMMA OwnedStep == Typed /\ Owned /\ [Next]_vars => Owned'
<1> SUFFICES ASSUME Typed, Owned, [Next]_vars PROVE Owned'
  OBVIOUS
<1>1. /\ st \in [Streams -> StreamState] /\ hand \in [Listeners -> Items \cup {NoStream}]
      /\ out \in [Listeners -> Seq(Streams)]
      /\ cout \in Seq(Items) /\ fan \in [Listeners -> {"accept", "send", "exited"}]
      /\ \A l \in Listeners : fan[l] = "send" => hand[l] \in Items
      /\ \A s \in Streams : Home[s] \in Listeners
      /\ NoStream \notin Streams /\ ErrClosed \notin Streams
  BY PipelineAssumption DEF Typed, TypeOK, Positions
\* Steps of streams that are not queued, and of everything else.
<1>2. ASSUME UNCHANGED <<out, fan, hand, cout>>,
             \A s \in Streams : st'[s] = "queued" <=> st[s] = "queued"
      PROVE  Owned'
  BY <1>2 DEF Owned
<1>3. ASSUME NEW s \in Streams,
             \/ Connect(s) \/ AcceptConn(s) \/ OpenStream(s)
             \/ HandshakeOK(s) \/ HandshakeFail(s)
             \/ OfferDone(s) \/ HandlerEnd(s)
      PROVE  Owned'
  <2>1. /\ UNCHANGED <<out, fan, hand, cout>>
        /\ \E a, b \in StreamState \ {"queued"} : Move(s, a, b)
    BY <1>3 DEF Connect, AcceptConn, OpenStream, HandshakeOK,
                HandshakeFail, OfferDone, HandlerEnd, transportVars, compositeVars,
                StreamState
  <2>2. \A r \in Streams : st'[r] = "queued" <=> st[r] = "queued"
    BY <1>1, <2>1 DEF Move
  <2>3. QED
    BY <1>2, <2>1, <2>2
<1>4. ASSUME NEW s \in Streams, Offer(s)
      PROVE  Owned'
  <2> DEFINE l == Home[s]
  <2>1. /\ st[s] = "offering" /\ st' = [st EXCEPT ![s] = "queued"] /\ l \in Listeners
        /\ out' = [out EXCEPT ![l] = Append(@, s)] /\ UNCHANGED <<fan, hand, cout>>
    BY <1>1, <1>4 DEF Offer, Move, compositeVars
  <2>2. ~Holds(out[l], s) /\ hand[l] /= s /\ ~Holds(cout, s)
    BY <1>1, <2>1 DEF Owned
  <2>3. Distinct(out'[l]) /\ \A r : Holds(out'[l], r) <=> Holds(out[l], r) \/ r = s
    <3> DEFINE q == out[l]
    <3>1. q \in Seq(Streams) /\ Distinct(q) /\ out'[l] = Append(q, s) /\ ~Holds(q, s)
      BY <1>1, <2>1, <2>2 DEF Owned
    <3> HIDE DEF q
    <3>2. Distinct(Append(q, s)) /\ \A r : Holds(Append(q, s), r) <=> Holds(q, r) \/ r = s
      BY <3>1, HoldsAppend
    <3>3. QED
      BY <3>1, <3>2 DEF q
  <2>4. /\ \A m \in Listeners \ {l} : out'[m] = out[m]
        /\ st'[s] = "queued" /\ \A r \in Streams \ {s} : st'[r] = st[r]
    BY <1>1, <2>1
  <2> HIDE DEF l
  <2>5. l = Home[s]
    BY DEF l
  <2>6. QED
    BY <1>1, <2>1, <2>2, <2>3, <2>4, <2>5 DEF Owned
<1>5. ASSUME NEW l \in Listeners, FanAccept(l)
      PROVE  Owned'
  <2> DEFINE q == out[l]
             x == Head(q)
  <2>1. /\ fan[l] = "accept" /\ q /= <<>> /\ UNCHANGED <<st, cout>>
        /\ hand' = [hand EXCEPT ![l] = x] /\ out' = [out EXCEPT ![l] = Tail(@)]
        /\ fan' = [fan EXCEPT ![l] = "send"]
    BY <1>5 DEF FanAccept
  <2>2. q \in Seq(Streams) /\ Distinct(q) /\ out'[l] = Tail(q) /\ x \in Streams /\ x = Head(q)
    BY <1>1, <2>1 DEF Owned
  <2>3. hand[l] = NoStream /\ hand'[l] = x /\ fan'[l] = "send"
    BY <1>1, <2>1 DEF Owned
  <2>4. /\ \A m \in Listeners \ {l} : out'[m] = out[m] /\ hand'[m] = hand[m] /\ fan'[m] = fan[m]
    BY <1>1, <2>1
  <2> HIDE DEF q, x
  <2>5. /\ Distinct(Tail(q)) /\ Holds(q, x)
        /\ \A s \in Streams : Holds(Tail(q), s) <=> Holds(q, s) /\ s /= x
    BY <2>1, <2>2, HoldsTail
  <2>6. /\ Distinct(out'[l]) /\ Holds(out[l], x)
        /\ \A s \in Streams : Holds(out'[l], s) <=> Holds(out[l], s) /\ s /= x
    BY <2>2, <2>5 DEF q
  <2>7. Home[x] = l
    BY <2>2, <2>6 DEF Owned
  <2>8. QED
    BY <1>1, <2>1, <2>2, <2>3, <2>4, <2>6, <2>7 DEF Owned
<1>6. ASSUME NEW l \in Listeners, FanAcceptClosed(l) \/ AcceptError(l)
      PROVE  Owned'
  <2>1. CASE FanAcceptClosed(l)
    <3>1. /\ fan[l] = "accept" /\ UNCHANGED <<st, out, cout>>
          /\ hand'[l] = ErrClosed /\ fan'[l] = "send"
          /\ \A m \in Listeners \ {l} : hand'[m] = hand[m] /\ fan'[m] = fan[m]
      BY <1>1, <2>1 DEF FanAcceptClosed, transportVars
    <3>2. hand[l] = NoStream
      BY <3>1 DEF Owned
    <3>3. \A s \in Streams, m \in Listeners : hand'[m] = s <=> hand[m] = s
      BY <1>1, <3>1, <3>2
    <3>4. \A m \in Listeners : fan'[m] = "accept" => fan[m] = "accept" /\ hand'[m] = hand[m]
      BY <3>1
    <3>5. QED
      BY <1>1, <3>1, <3>3, <3>4 DEF Owned
  <2>2. CASE AcceptError(l)
    BY <1>2, <2>2 DEF AcceptError, compositeVars
  <2>3. QED
    BY <1>6, <2>1, <2>2
<1>7. ASSUME NEW l \in Listeners, FanSend(l)
      PROVE  Owned'
  <2> DEFINE x == hand[l]
  <2>1. /\ fan[l] = "send" /\ UNCHANGED <<st, out>> /\ cout' = Append(cout, x)
        /\ hand' = [hand EXCEPT ![l] = NoStream]
        /\ fan' = [fan EXCEPT ![l] = IF hand[l] = ErrClosed THEN "exited" ELSE "accept"]
    BY <1>7 DEF FanSend, transportVars
  <2>2. /\ x \in Items /\ hand'[l] = NoStream
        /\ \A m \in Listeners \ {l} : hand'[m] = hand[m] /\ fan'[m] = fan[m]
    BY <1>1, <2>1
  <2>3. x \in Streams => ~Holds(cout, x) /\ Home[x] = l
    BY <1>1 DEF Owned
  <2> HIDE DEF x
  <2>4. Distinct(Append(cout, x)) /\ \A s : Holds(Append(cout, x), s) <=> Holds(cout, s) \/ s = x
    <3>1. Distinct(cout)
      BY DEF Owned
    <3>2. QED
      BY <1>1, <2>2, <2>3, <3>1, HoldsAppend
  <2>5. Distinct(cout') /\ \A s : Holds(cout', s) <=> Holds(cout, s) \/ s = x
    BY <2>1, <2>4
  <2>6. x = hand[l]
    BY DEF x
  <2>7. QED
    BY <1>1, <2>1, <2>2, <2>3, <2>5, <2>6 DEF Owned
<1>8. ASSUME NEW l \in Listeners, FanDone(l)
      PROVE  Owned'
  <2>1. /\ UNCHANGED <<out, cout>> /\ hand'[l] = NoStream /\ fan'[l] = "exited"
        /\ \A m \in Listeners \ {l} : hand'[m] = hand[m] /\ fan'[m] = fan[m]
        /\ \A s \in Streams : st'[s] = IF s = hand[l] THEN "stranded" ELSE st[s]
    BY <1>1, <1>8 DEF FanDone, transportVars
  <2>2. \A s \in Streams, m \in Listeners : hand'[m] = s <=> hand[m] = s /\ m /= l
    BY <1>1, <2>1
  <2>3. \A s \in Streams : st'[s] = "queued" <=> st[s] = "queued" /\ hand[l] /= s
    BY <2>1
  <2>4. \A s \in Streams : hand[l] = s => Home[s] = l
    BY DEF Owned
  <2>5. \A m \in Listeners : fan'[m] = "accept" => hand'[m] = NoStream
    BY <2>1 DEF Owned
  <2>6. ASSUME NEW s \in Streams
        PROVE  /\ st'[s] = "queued" =>
                    Holds(out'[Home[s]], s) \/ hand'[Home[s]] = s \/ Holds(cout', s)
               /\ Holds(out'[Home[s]], s) =>
                    st'[s] = "queued" /\ hand'[Home[s]] /= s /\ ~Holds(cout', s)
               /\ hand'[Home[s]] = s => st'[s] = "queued" /\ ~Holds(cout', s)
               /\ Holds(cout', s) => st'[s] = "queued"
    BY <1>1, <2>1, <2>2, <2>3, <2>4 DEF Owned
  <2>7. QED
    BY <2>1, <2>2, <2>5, <2>6 DEF Owned
<1>9. CASE Serve
  <2>1. CASE ServeStop
    BY <1>2, <2>1 DEF ServeStop, transportVars, compositeVars
  <2>2. CASE ServeTake \/ ServeErr
    <3> DEFINE x == Head(cout)
    <3>1. /\ cout /= <<>> /\ cout' = Tail(cout) /\ UNCHANGED <<out, fan, hand>>
          /\ \A s \in Streams : st'[s] = IF s = x THEN "handled" ELSE st[s]
          /\ x = Head(cout)
      BY <1>1, <2>2 DEF ServeTake, ServeErr, Move, transportVars
    <3>2. Distinct(cout)
      BY DEF Owned
    <3> HIDE DEF x
    <3>3. /\ Distinct(cout') /\ Holds(cout, x)
          /\ \A s \in Streams : Holds(cout', s) <=> Holds(cout, s) /\ s /= x
      BY <1>1, <3>1, <3>2, HoldsTail
    <3>4. QED
      BY <1>1, <3>1, <3>3 DEF Owned
  <2>3. QED
    BY <1>9, <2>1, <2>2 DEF Serve
<1>10. ASSUME NEW c \in Closers, Cancel(c) \/ Close(c)
       PROVE  Owned'
  <2>1. UNCHANGED <<out, fan, hand, cout>>
    BY <1>10 DEF Cancel, Close, CloseComposite, CloseOnce, CloseCheck, CloseDone, CloseSocket,
                 transportVars, compositeVars
  <2>2. \A s \in Streams : st'[s] = "queued" <=> st[s] = "queued"
    BY <1>10 DEF Cancel, Close, CloseComposite, CloseOnce, CloseCheck, CloseDone, CloseSocket
  <2>3. QED
    BY <1>2, <2>1, <2>2
<1>11. CASE UNCHANGED vars
  BY <1>2, <1>11 DEF vars, transportVars, compositeVars
<1>12. QED
  BY <1>3, <1>4, <1>5, <1>6, <1>7, <1>8, <1>9, <1>10, <1>11 DEF Next, Fan

\* A stream between its listener and Serve is in one channel or in one
\* goroutine's hand, and any other stream in none: it never gets two handlers
\* and is never lost on the way while it counts as queued (server.go:150-165).
THEOREM OneOwner == Spec => []SingleOwner
<1>1. ASSUME Typed, Owned
      PROVE  SingleOwner
  <2> SUFFICES ASSUME NEW s \in Streams
               PROVE  /\ st[s] = "queued" <=> Slots(s) /= {}
                      /\ \A x, y \in Slots(s) : x = y
    BY DEF SingleOwner
  <2>1. /\ Home[s] \in Listeners
        /\ \A l \in Listeners : \A i \in SlotsOf(out[l], s) : Holds(out[l], s)
        /\ \A l \in Listeners : Holds(out[l], s) => SlotsOf(out[l], s) /= {}
        /\ \A i \in SlotsOf(cout, s) : Holds(cout, s)
        /\ Holds(cout, s) => SlotsOf(cout, s) /= {}
    BY PipelineAssumption DEF SlotsOf, Holds
  <2>2. /\ \A l \in Listeners : \A i, j \in SlotsOf(out[l], s) : i = j
        /\ \A i, j \in SlotsOf(cout, s) : i = j
    BY <1>1 DEF Owned, Distinct, SlotsOf
  <2>3. ASSUME NEW x \in Slots(s)
        PROVE  \/ \E l \in Listeners : \E i \in SlotsOf(out[l], s) : x = <<"out", l, i>>
               \/ \E l \in Listeners : hand[l] = s /\ x = <<"hand", l, 1>>
               \/ \E i \in SlotsOf(cout, s) : x = <<"cout", 1, i>>
    <3>1. CASE x \in UNION {{<<"out", l, i>> : i \in SlotsOf(out[l], s)} : l \in Listeners}
      <4>1. PICK l \in Listeners : x \in {<<"out", l, i>> : i \in SlotsOf(out[l], s)}
        BY <3>1
      <4>2. QED
        BY <4>1
    <3>2. CASE x \in {<<"hand", l, 1>> : l \in {k \in Listeners : hand[k] = s}}
      BY <3>2
    <3>3. CASE x \in {<<"cout", 1, i>> : i \in SlotsOf(cout, s)}
      BY <3>3
    <3>4. QED
      BY <3>1, <3>2, <3>3, Zenon DEF Slots
  <2>4. /\ \A l \in Listeners : \A i \in SlotsOf(out[l], s) : <<"out", l, i>> \in Slots(s)
        /\ \A l \in Listeners : hand[l] = s => <<"hand", l, 1>> \in Slots(s)
        /\ \A i \in SlotsOf(cout, s) : <<"cout", 1, i>> \in Slots(s)
    <3>1. ASSUME NEW l \in Listeners, NEW i \in SlotsOf(out[l], s)
          PROVE  <<"out", l, i>> \in Slots(s)
      <4>1. <<"out", l, i>> \in {<<"out", l, j>> : j \in SlotsOf(out[l], s)}
        OBVIOUS
      <4>2. <<"out", l, i>> \in UNION {{<<"out", k, j>> : j \in SlotsOf(out[k], s)} : k \in Listeners}
        BY <4>1
      <4>3. QED
        BY <4>2, Zenon DEF Slots
    <3>2. ASSUME NEW l \in Listeners, hand[l] = s
          PROVE  <<"hand", l, 1>> \in Slots(s)
      BY <3>2, Zenon DEF Slots
    <3>3. ASSUME NEW i \in SlotsOf(cout, s)
          PROVE  <<"cout", 1, i>> \in Slots(s)
      BY Zenon DEF Slots
    <3>4. QED
      BY <3>1, <3>2, <3>3
  <2>5. st[s] = "queued" => Slots(s) /= {}
    BY <1>1, <2>1, <2>4 DEF Owned
  <2>6. ASSUME NEW x \in Slots(s)
        PROVE  \/ /\ Holds(out[Home[s]], s)
                  /\ \E i \in SlotsOf(out[Home[s]], s) : x = <<"out", Home[s], i>>
               \/ hand[Home[s]] = s /\ x = <<"hand", Home[s], 1>>
               \/ Holds(cout, s) /\ \E i \in SlotsOf(cout, s) : x = <<"cout", 1, i>>
    BY <1>1, <2>1, <2>3 DEF Owned
  <2>7. Slots(s) /= {} => st[s] = "queued"
    BY <1>1, <2>6 DEF Owned
  <2>8. ASSUME NEW x \in Slots(s), NEW y \in Slots(s)
        PROVE  x = y
    BY <1>1, <2>1, <2>2, <2>6 DEF Owned
  <2>9. QED
    BY <2>5, <2>7, <2>8
<1>2. QED
  BY <1>1, OwnedStart, OwnedStep, AlwaysTyped, PTL DEF Spec

-----------------------------------------------------------------------------
(* ImplementsFanIn.                                                        *)

\* What has been handed over is with a handler or done.
Served == \A i \in 1 .. Len(served) : st[served[i]] \in {"handled", "closed"}

LEMMA ServedStep == Typed /\ Owned /\ Served /\ [Next]_vars => Served'
<1> SUFFICES ASSUME Typed, Owned, Served, [Next]_vars PROVE Served'
  OBVIOUS
<1> DEFINE Ended == {"handled", "closed"}
<1>1. /\ st \in [Streams -> StreamState] /\ served \in Seq(Streams) /\ cout \in Seq(Items)
      /\ \A i \in 1 .. Len(served) : served[i] \in Streams /\ st[served[i]] \in Ended
      /\ \A s \in Streams : Home[s] \in Listeners
  BY PipelineAssumption DEF Typed, TypeOK, Served
<1>2. ASSUME served' = served, \A s \in Streams : st[s] \in Ended => st'[s] \in Ended
      PROVE  Served'
  BY <1>1, <1>2 DEF Served
<1>3. ASSUME NEW s \in Streams,
             \/ Connect(s) \/ AcceptConn(s) \/ OpenStream(s)
             \/ HandshakeOK(s) \/ HandshakeFail(s)
             \/ Offer(s) \/ OfferDone(s) \/ HandlerEnd(s)
      PROVE  Served'
  <2>1. /\ served' = served
        /\ \E a \in StreamState, b \in StreamState :
             /\ Move(s, a, b) /\ (a \in Ended => b \in Ended)
    BY <1>3 DEF Connect, AcceptConn, OpenStream, HandshakeOK,
                HandshakeFail, Offer, OfferDone, HandlerEnd, serverVars, StreamState
  <2>2. QED
    BY <1>1, <1>2, <2>1 DEF Move
<1>4. ASSUME NEW l \in Listeners, FanDone(l)
      PROVE  Served'
  <2>1. /\ served' = served
        /\ \A s \in Streams : st'[s] = IF s = hand[l] THEN "stranded" ELSE st[s]
    BY <1>4 DEF FanDone, serverVars
  <2>2. \A s \in Streams : s = hand[l] => st[s] = "queued"
    BY <1>1 DEF Owned
  <2>3. QED
    BY <1>2, <2>1, <2>2
<1>5. CASE ServeTake
  <2> DEFINE x == Head(cout)
  <2>1. /\ x \in Streams /\ served' = Append(served, x)
        /\ st' = [st EXCEPT ![x] = "handled"]
    BY <1>5 DEF ServeTake, Move
  <2>2. \A s \in Streams : st[s] \in Ended => st'[s] \in Ended
    BY <1>1, <2>1
  <2>3. st'[x] \in Ended
    BY <1>1, <2>1
  <2> HIDE DEF x
  <2>4. \A i \in 1 .. Len(served') :
          (i \in 1 .. Len(served) /\ served'[i] = served[i]) \/ served'[i] = x
    BY <1>1, <2>1
  <2>5. QED
    BY <1>1, <2>1, <2>2, <2>3, <2>4 DEF Served
<1>6. ASSUME NEW c \in Closers, Cancel(c) \/ Close(c)
      PROVE  Served'
  <2>1. /\ served' = served
        /\ \A s \in Streams : st'[s] = st[s] \/ st'[s] = "closed"
    BY <1>1, <1>6 DEF Cancel, Close, CloseComposite, CloseOnce, CloseCheck, CloseDone, CloseSocket,
                serverVars
  <2>2. QED
    BY <1>2, <2>1
<1>7. CASE UNCHANGED <<st, served>>
  BY <1>2, <1>7
<1>8. ASSUME NEW l \in Listeners,
             AcceptError(l) \/ FanAccept(l) \/ FanAcceptClosed(l) \/ FanSend(l)
      PROVE  Served'
  BY <1>7, <1>8 DEF AcceptError, FanAccept, FanAcceptClosed, FanSend, serverVars
<1>9. CASE ServeErr \/ ServeStop
  BY <1>7, <1>9 DEF ServeErr, ServeStop
<1>10. CASE UNCHANGED vars
  BY <1>7, <1>10 DEF vars, serverVars
<1>11. QED
  BY <1>3, <1>4, <1>5, <1>6, <1>8, <1>9, <1>10 DEF Next, Fan, Serve

\* What is on its way from listener l: the part that is in cout already, and
\* the part that is not.
From(l) == {s \in Streams : Home[s] = l}
Ahead(l) == Selected(cout, From(l))
Behind(l) ==
  CASE fan[l] = "accept" -> out[l]
    [] fan[l] = "send" /\ hand[l] /= ErrClosed -> <<hand[l]>> \o out[l]
    [] OTHER -> <<>>

LEMMA TwoParts ==
  ASSUME Typed, NEW l \in Listeners
  PROVE  /\ Undelivered(l) = Ahead(l) \o Behind(l)
         /\ Ahead(l) \in Seq(Streams) /\ Behind(l) \in Seq(Streams)
<1>1. Undelivered(l) = Ahead(l) \o Behind(l)
  BY DEF Undelivered, Ahead, Behind, From
<1>2. cout \in Seq(Items)
  BY DEF Typed, TypeOK
<1>3. Ahead(l) \in Seq(Streams)
  <2>1. Ahead(l) \in Seq(Items \cap From(l)) /\ Items \cap From(l) \subseteq Streams
    BY <1>2, SelectedTyped DEF Ahead, From
  <2>2. QED
    BY <2>1, SeqMonotonic
<1>4. out[l] \in Seq(Streams) /\ (fan[l] = "send" /\ hand[l] /= ErrClosed => hand[l] \in Streams)
  BY DEF Typed, TypeOK, Positions, Items
<1>5. Behind(l) \in Seq(Streams)
  <2>1. CASE fan[l] = "accept"
    BY <1>4, <2>1 DEF Behind
  <2>2. CASE fan[l] = "send" /\ hand[l] /= ErrClosed
    <3>1. <<hand[l]>> \in Seq(Streams)
      BY <1>4, <2>2
    <3>2. Behind(l) = <<hand[l]>> \o out[l]
      BY <2>2 DEF Behind
    <3>3. QED
      BY <1>4, <3>1, <3>2, ConcatProperties
  <2>3. CASE fan[l] /= "accept" /\ ~(fan[l] = "send" /\ hand[l] /= ErrClosed)
    BY <2>3, EmptySeq DEF Behind
  <2>4. QED
    BY <2>1, <2>2, <2>3
<1>6. QED
  BY <1>1, <1>3, <1>5

\* A step that moves no stream in or out is a step of Shut.
LEMMA QuietStep ==
  ASSUME served' = served,
         \A l \in Listeners : Undelivered(l)' = Undelivered(l),
         cdone => cdone', \A l \in Listeners : done[l] => done'[l]
  PROVE  F!Shut
BY DEF F!Shut

\* Steps that leave the channels and the fan-in goroutines alone.
LEMMA StillStep ==
  ASSUME UNCHANGED <<out, fan, hand, cout, served>>,
         cdone => cdone', \A l \in Listeners : done[l] => done'[l]
  PROVE  F!Shut
<1>1. \A l \in Listeners : Undelivered(l)' = Undelivered(l)
  BY DEF Undelivered
<1>2. QED
  BY <1>1, QuietStep

\* A stream on its way is queued.
LEMMA OnItsWay ==
  ASSUME Typed, Owned, NEW l \in Listeners, NEW s \in Streams, Contains(Undelivered(l), s)
  PROVE  st[s] = "queued"
<1>1. PICK i \in 1 .. Len(Undelivered(l)) : Undelivered(l)[i] = s
  BY DEF Contains
<1>2. Home[s] \in Listeners /\ cout \in Seq(Items) /\ out[l] \in Seq(Streams)
  BY PipelineAssumption DEF Typed, TypeOK
<1>3. /\ Undelivered(l) = Ahead(l) \o Behind(l)
      /\ Ahead(l) \in Seq(Streams) /\ Behind(l) \in Seq(Streams)
  BY TwoParts
<1>4. \/ \E j \in 1 .. Len(Ahead(l)) : Ahead(l)[j] = s
      \/ \E j \in 1 .. Len(Behind(l)) : Behind(l)[j] = s
  BY <1>1, <1>3, ConcatProperties
<1>5. CASE \E j \in 1 .. Len(Ahead(l)) : Ahead(l)[j] = s
  <2>1. Holds(cout, s)
    BY <1>2, <1>5, SelectedFrom DEF Ahead, Holds
  <2>2. QED
    BY <2>1 DEF Owned
<1>6. CASE \E j \in 1 .. Len(Behind(l)) : Behind(l)[j] = s
  <2>1. Holds(out[l], s) \/ hand[l] = s
    <3>1. PICK j \in 1 .. Len(Behind(l)) : Behind(l)[j] = s
      BY <1>6
    <3>2. CASE fan[l] = "accept"
      BY <3>1, <3>2 DEF Behind, Holds
    <3>3. CASE fan[l] = "send" /\ hand[l] /= ErrClosed
      <4>1. Behind(l) = <<hand[l]>> \o out[l]
        BY <3>3 DEF Behind
      <4>2. QED
        BY <1>2, <3>1, <4>1 DEF Holds
    <3>4. CASE fan[l] /= "accept" /\ ~(fan[l] = "send" /\ hand[l] /= ErrClosed)
      BY <3>1, <3>4 DEF Behind
    <3>5. QED
      BY <3>2, <3>3, <3>4
  <2>2. Home[s] = l
    BY <2>1 DEF Owned
  <2>3. QED
    BY <2>1, <2>2 DEF Owned
<1>7. QED
  BY <1>4, <1>5, <1>6

LEMMA OfferStep ==
  ASSUME Typed, Typed', Owned, Served, NEW s \in Streams, Offer(s)
  PROVE  F!Arrive(s, Home[s]) \/ F!Shut
<1> DEFINE l == Home[s]
<1>1. /\ l \in Listeners /\ st[s] = "offering" /\ out' = [out EXCEPT ![l] = Append(@, s)]
      /\ UNCHANGED <<done, fan, hand, cout, cdone, served>>
      /\ out \in [Listeners -> Seq(Streams)] /\ served \in Seq(Streams)
  BY PipelineAssumption DEF Offer, Move, compositeVars, serverVars, Typed, TypeOK
<1> HIDE DEF l
<1>2. \A m \in Listeners : Ahead(m)' = Ahead(m)
  BY <1>1 DEF Ahead, From
<1>3. \A m \in Listeners \ {l} : out'[m] = out[m]
  BY <1>1
<1>4. \A m \in Listeners \ {l} : Behind(m)' = Behind(m)
  BY <1>1, <1>3 DEF Behind
<1>5. \A m \in Listeners :
        /\ Undelivered(m) = Ahead(m) \o Behind(m)
        /\ Undelivered(m)' = Ahead(m) \o Behind(m)'
        /\ Ahead(m) \in Seq(Streams) /\ Behind(m) \in Seq(Streams)
  <2>1. \A m \in Listeners : /\ Undelivered(m) = Ahead(m) \o Behind(m)
                             /\ Ahead(m) \in Seq(Streams) /\ Behind(m) \in Seq(Streams)
    BY TwoParts
  <2>2. \A m \in Listeners : Undelivered(m)' = Ahead(m)' \o Behind(m)'
    BY DEF Undelivered, Ahead, Behind, From
  <2>3. QED
    BY <1>2, <2>1, <2>2
<1>6. CASE fan[l] = "accept" \/ (fan[l] = "send" /\ hand[l] /= ErrClosed)
  <2>1. Behind(l)' = Append(Behind(l), s)
    <3>1. out[l] \in Seq(Streams) /\ out'[l] = Append(out[l], s)
      BY <1>1
    <3>2. CASE fan[l] = "accept"
      BY <1>1, <3>1, <3>2 DEF Behind
    <3>3. CASE fan[l] = "send" /\ hand[l] /= ErrClosed
      <4>1. Behind(l) = <<hand[l]>> \o out[l] /\ Behind(l)' = <<hand[l]>> \o Append(out[l], s)
        BY <1>1, <3>1, <3>3 DEF Behind
      <4>2. hand[l] \in Streams
        BY <1>1, <3>3 DEF Typed, Positions, Items
      <4>3. <<hand[l]>> \o Append(out[l], s) = Append(<<hand[l]>> \o out[l], s)
        BY <3>1, <4>2, AppendConcat
      <4>4. QED
        BY <4>1, <4>3
    <3>4. QED
      BY <1>6, <3>2, <3>3
  <2>2. Undelivered(l)' = Append(Undelivered(l), s)
    <3> DEFINE a == Ahead(l)
               b == Behind(l)
    <3>1. /\ a \in Seq(Streams) /\ b \in Seq(Streams)
          /\ Undelivered(l) = a \o b /\ Undelivered(l)' = a \o Append(b, s)
      BY <1>1, <1>5, <2>1
    <3> HIDE DEF a, b
    <3>2. a \o Append(b, s) = Append(a \o b, s)
      BY <3>1, AppendConcat
    <3>3. QED
      BY <3>1, <3>2
  <2>3. \A m \in Listeners \ {l} : Undelivered(m)' = Undelivered(m)
    BY <1>4, <1>5
  <2>4. \A m \in Listeners : ~Contains(Undelivered(m), s)
    BY <1>1, OnItsWay
  <2>5. ~Contains(served, s)
    BY <1>1 DEF Served, Contains
  <2>6. F!Arrive(s, l)
    <3> DEFINE P == [m \in Listeners |-> Undelivered(m)]
    <3>1. P' = [P EXCEPT ![l] = Append(@, s)]
      BY <1>1, <2>2, <2>3
    <3>2. {m \in Listeners : cdone' \/ done'[m]} = {m \in Listeners : cdone \/ done[m]}
      BY <1>1
    <3>3. \A m \in Listeners : ~F!Contains(P[m], s)
      BY <2>4 DEF Contains, F!Contains
    <3>4. ~F!Contains(served, s)
      BY <2>5 DEF Contains, F!Contains
    <3>5. QED
      BY <1>1, <3>1, <3>2, <3>3, <3>4 DEF F!Arrive
  <2>7. QED
    BY <2>6 DEF l
<1>7. CASE ~(fan[l] = "accept" \/ (fan[l] = "send" /\ hand[l] /= ErrClosed))
  <2>1. Behind(l)' = Behind(l)
    BY <1>1, <1>7 DEF Behind
  <2>2. \A m \in Listeners : Undelivered(m)' = Undelivered(m)
    BY <1>4, <1>5, <2>1
  <2>3. QED
    BY <1>1, <2>2, QuietStep
<1>8. QED
  BY <1>6, <1>7

\* The two parts before and after a step.
LEMMA PartsAfter ==
  ASSUME NEW l \in Listeners
  PROVE  Typed' => (/\ Undelivered(l) = Ahead(l) \o Behind(l)
                    /\ Ahead(l) \in Seq(Streams) /\ Behind(l) \in Seq(Streams))'
<1>1. Typed => /\ Undelivered(l) = Ahead(l) \o Behind(l)
               /\ Ahead(l) \in Seq(Streams) /\ Behind(l) \in Seq(Streams)
  BY TwoParts
<1>2. QED
  BY <1>1, PTL

LEMMA PartsStep ==
  ASSUME Typed, Typed', NEW l \in Listeners
  PROVE  /\ Undelivered(l) = Ahead(l) \o Behind(l)
         /\ Undelivered(l)' = Ahead(l)' \o Behind(l)'
         /\ Ahead(l) \in Seq(Streams) /\ Behind(l) \in Seq(Streams)
         /\ Ahead(l)' \in Seq(Streams) /\ Behind(l)' \in Seq(Streams)
BY TwoParts, PartsAfter

LEMMA FanAcceptStep ==
  ASSUME Typed, Owned, NEW l \in Listeners, FanAccept(l)
  PROVE  F!Shut
<1>1. /\ fan[l] = "accept" /\ out[l] /= <<>>
      /\ hand' = [hand EXCEPT ![l] = Head(out[l])] /\ out' = [out EXCEPT ![l] = Tail(@)]
      /\ fan' = [fan EXCEPT ![l] = "send"]
      /\ UNCHANGED <<done, cout, cdone, served>>
      /\ out \in [Listeners -> Seq(Streams)] /\ fan \in [Listeners -> {"accept", "send", "exited"}]
      /\ hand \in [Listeners -> Items \cup {NoStream}]
      /\ ErrClosed \notin Streams
  BY PipelineAssumption DEF FanAccept, serverVars, Typed, TypeOK
<1>2. \A m \in Listeners : Ahead(m)' = Ahead(m)
  BY <1>1 DEF Ahead, From
<1>3. ASSUME NEW m \in Listeners \ {l}
      PROVE  Behind(m)' = Behind(m)
  <2>1. out'[m] = out[m] /\ hand'[m] = hand[m] /\ fan'[m] = fan[m]
    BY <1>1
  <2>2. QED
    BY <2>1 DEF Behind
<1>4. Behind(l)' = Behind(l)
  <2> DEFINE q == out[l]
  <2>1. q \in Seq(Streams) /\ q /= <<>> /\ Head(q) /= ErrClosed
    BY <1>1
  <2>2. /\ hand'[l] = Head(q) /\ out'[l] = Tail(q)
        /\ fan'[l] = "send"
    BY <1>1
  <2>3. Behind(l)' = <<Head(q)>> \o Tail(q)
    BY <2>1, <2>2 DEF Behind
  <2>4. Behind(l) = q
    BY <1>1 DEF Behind
  <2> HIDE DEF q
  <2>5. <<Head(q)>> \o Tail(q) = q
    BY <2>1, HeadTailConcat
  <2>6. QED
    BY <2>3, <2>4, <2>5
<1>5. ASSUME NEW m \in Listeners
      PROVE  Undelivered(m)' = Undelivered(m)
  <2>1. Undelivered(m) = Ahead(m) \o Behind(m) /\ Undelivered(m)' = Ahead(m)' \o Behind(m)'
    BY DEF Undelivered, Ahead, Behind, From
  <2>2. QED
    BY <1>2, <1>3, <1>4, <2>1
<1>6. QED
  BY <1>1, <1>5, QuietStep

LEMMA FanSendStep ==
  ASSUME Typed, Typed', Owned, NEW l \in Listeners, FanSend(l)
  PROVE  F!Shut
<1> DEFINE x == hand[l]
<1>1. /\ fan[l] = "send" /\ cout' = Append(cout, x)
      /\ hand' = [hand EXCEPT ![l] = NoStream]
      /\ fan' = [fan EXCEPT ![l] = IF x = ErrClosed THEN "exited" ELSE "accept"]
      /\ UNCHANGED <<done, out, cdone, served>>
      /\ cout \in Seq(Items) /\ x \in Items /\ out[l] \in Seq(Streams)
      /\ fan \in [Listeners -> {"accept", "send", "exited"}]
      /\ hand \in [Listeners -> Items \cup {NoStream}]
  BY DEF FanSend, transportVars, serverVars, Typed, TypeOK, Positions
<1>2. x = ErrClosed \/ (x \in Streams /\ x /= ErrClosed /\ Home[x] = l)
  BY <1>1, PipelineAssumption DEF Items, Owned
<1>3. x = hand[l]
  OBVIOUS
<1> HIDE DEF x
<1>4. \A m \in Listeners : Ahead(m)' = Ahead(m) \o One(x, From(m))
  BY <1>1, SelectedAppend DEF Ahead, From
<1>5. ASSUME NEW m \in Listeners \ {l}
      PROVE  Undelivered(m)' = Undelivered(m)
  <2>1. out'[m] = out[m] /\ hand'[m] = hand[m] /\ fan'[m] = fan[m]
    BY <1>1
  <2>2. Behind(m)' = Behind(m)
    BY <2>1 DEF Behind
  <2>3. x \notin From(m)
    BY <1>2, PipelineAssumption DEF From
  <2>4. One(x, From(m)) = <<>>
    BY <2>3 DEF One
  <2>5. Ahead(m) \in Seq(Streams)
    BY TwoParts
  <2>6. Ahead(m)' = Ahead(m)
    BY <1>4, <2>4, <2>5, ConcatEmptySeq
  <2>7. QED
    BY <2>2, <2>6, PartsStep
<1>6. CASE x = ErrClosed
  <2>1. Behind(l) = <<>> /\ Behind(l)' = <<>>
    BY <1>1, <1>3, <1>6 DEF Behind
  <2>2. x \notin From(l)
    BY <1>6, PipelineAssumption DEF From
  <2>3. One(x, From(l)) = <<>>
    BY <2>2 DEF One
  <2>4. Ahead(l) \in Seq(Streams)
    BY TwoParts
  <2>5. Ahead(l)' = Ahead(l)
    BY <1>4, <2>3, <2>4, ConcatEmptySeq
  <2>6. Undelivered(l)' = Undelivered(l)
    BY <2>1, <2>5, PartsStep
  <2>7. QED
    BY <1>1, <1>5, <2>6, QuietStep
<1>7. CASE x \in Streams /\ x /= ErrClosed /\ Home[x] = l
  <2>1. Behind(l) = <<x>> \o out[l] /\ Behind(l)' = out[l]
    BY <1>1, <1>3, <1>7 DEF Behind
  <2>2. x \in From(l)
    BY <1>7 DEF From
  <2>3. Ahead(l)' = Ahead(l) \o <<x>>
    BY <1>4, <2>2 DEF One
  <2>4. Undelivered(l) = Ahead(l) \o (<<x>> \o out[l])
    BY <2>1, PartsStep
  <2>5. Undelivered(l)' = (Ahead(l) \o <<x>>) \o out[l]
    BY <2>1, <2>3, PartsStep
  <2>6. Undelivered(l)' = Undelivered(l)
    <3> DEFINE a == Ahead(l)
               o == out[l]
    <3>1. a \in Seq(Streams) /\ <<x>> \in Seq(Streams) /\ o \in Seq(Streams)
      BY <1>1, <1>7, TwoParts
    <3> HIDE DEF a, o
    <3>2. a \o (<<x>> \o o) = (a \o <<x>>) \o o
      BY <3>1, ConcatAssociative
    <3>3. QED
      BY <2>4, <2>5, <3>2 DEF a, o
  <2>7. QED
    BY <1>1, <1>5, <2>6, QuietStep
<1>8. QED
  BY <1>2, <1>6, <1>7

\* A goroutine that ends abandons what it has not handed over, and only when
\* its listener or the composite is closed.
LEMMA FanEndStep ==
  ASSUME Typed, Typed', NEW l \in Listeners, FanAcceptClosed(l) \/ FanDone(l)
  PROVE  F!Abandon(l)
<1>1. /\ cdone \/ done[l]
      /\ UNCHANGED <<done, out, cout, cdone, served>>
      /\ \A m \in Listeners \ {l} : hand'[m] = hand[m] /\ fan'[m] = fan[m]
      /\ (hand'[l] = ErrClosed /\ fan'[l] = "send") \/ fan'[l] = "exited"
  BY DEF FanAcceptClosed, FanDone, transportVars, serverVars, Typed, TypeOK
<1>2. \A m \in Listeners : Ahead(m)' = Ahead(m)
  BY <1>1 DEF Ahead, From
<1>3. \A m \in Listeners \ {l} : Behind(m)' = Behind(m)
  BY <1>1 DEF Behind
<1>4. Behind(l)' = <<>>
  BY <1>1 DEF Behind
<1>5. \A m \in Listeners \ {l} : Undelivered(m)' = Undelivered(m)
  BY <1>2, <1>3, PartsStep
<1>6. Undelivered(l)' = Ahead(l)
  <2>1. Ahead(l) \in Seq(Streams)
    BY TwoParts
  <2>2. QED
    BY <1>2, <1>4, <2>1, ConcatEmptySeq, PartsStep
<1>7. \E n \in 0 .. Len(Undelivered(l)) : Undelivered(l)' = SubSeq(Undelivered(l), 1, n)
  <2> DEFINE a == Ahead(l)
             b == Behind(l)
  <2>1. a \in Seq(Streams) /\ b \in Seq(Streams) /\ Undelivered(l) = a \o b
    BY TwoParts
  <2> HIDE DEF a, b
  <2>2. \E n \in 0 .. Len(a \o b) : a = SubSeq(a \o b, 1, n)
    BY <2>1, PrefixOfConcat
  <2>3. QED
    BY <1>6, <2>1, <2>2 DEF a
<1>8. QED
  <2> DEFINE P == [m \in Listeners |-> Undelivered(m)]
  <2>1. PICK n \in 0 .. Len(Undelivered(l)) : Undelivered(l)' = SubSeq(Undelivered(l), 1, n)
    BY <1>7
  <2>2. P' = [P EXCEPT ![l] = SubSeq(@, 1, n)] /\ n \in 0 .. Len(P[l])
    BY <1>5, <2>1
  <2>3. l \in {m \in Listeners : cdone \/ done[m]}
    BY <1>1
  <2>4. {m \in Listeners : cdone' \/ done'[m]} = {m \in Listeners : cdone \/ done[m]}
    BY <1>1
  <2>5. QED
    BY <1>1, <2>2, <2>3, <2>4 DEF F!Abandon

LEMMA ServeTakeStep ==
  ASSUME Typed, Typed', NEW l \in Listeners, l = Home[Head(cout)], ServeTake
  PROVE  F!Deliver(l)
<1> DEFINE x == Head(cout)
<1>1. /\ cout /= <<>> /\ x \in Streams /\ cout' = Tail(cout) /\ served' = Append(served, x)
      /\ UNCHANGED <<done, out, fan, hand, cdone>> /\ cout \in Seq(Items)
      /\ l = Home[x]
  BY DEF ServeTake, transportVars, Typed, TypeOK
<1>2. x = Head(cout)
  OBVIOUS
<1> HIDE DEF x
<1>3. \A m \in Listeners : Ahead(m) = One(x, From(m)) \o Ahead(m)'
  BY <1>1, <1>2, SelectedHead DEF Ahead, From
<1>4. \A m \in Listeners : Behind(m)' = Behind(m)
  BY <1>1 DEF Behind
<1>5. ASSUME NEW m \in Listeners \ {l}
      PROVE  Undelivered(m)' = Undelivered(m)
  <2>1. x \notin From(m)
    BY <1>1 DEF From
  <2>2. One(x, From(m)) = <<>>
    BY <2>1 DEF One
  <2>3. Ahead(m)' \in Seq(Streams)
    BY PartsStep
  <2>4. Ahead(m)' = Ahead(m)
    BY <1>3, <2>2, <2>3, ConcatEmptySeq
  <2>5. QED
    BY <1>4, <2>4, PartsStep
<1>6. Undelivered(l) = <<x>> \o Undelivered(l)'
  <2> DEFINE a == Ahead(l)'
             b == Behind(l)
  <2>1. One(x, From(l)) = <<x>>
    BY <1>1 DEF From, One
  <2>2. Undelivered(l) = (<<x>> \o a) \o b
    BY <1>3, <2>1, PartsStep
  <2>3. Undelivered(l)' = a \o b
    BY <1>4, PartsStep
  <2>4. <<x>> \in Seq(Streams) /\ a \in Seq(Streams) /\ b \in Seq(Streams)
    BY <1>1, PartsStep
  <2> HIDE DEF a, b
  <2>5. <<x>> \o (a \o b) = (<<x>> \o a) \o b
    BY <2>4, ConcatAssociative
  <2>6. QED
    BY <2>2, <2>3, <2>5
<1>7. /\ Undelivered(l) /= <<>> /\ Head(Undelivered(l)) = x
      /\ Tail(Undelivered(l)) = Undelivered(l)'
  <2> DEFINE u == Undelivered(l)'
  <2>1. u \in Seq(Streams)
    <3>1. u = Ahead(l)' \o Behind(l)'
      BY PartsStep
    <3>2. Ahead(l)' \in Seq(Streams) /\ Behind(l)' \in Seq(Streams)
      BY PartsStep
    <3> HIDE DEF u
    <3>3. QED
      BY <3>1, <3>2, ConcatProperties
  <2> HIDE DEF u
  <2>2. <<x>> \o u /= <<>> /\ Head(<<x>> \o u) = x /\ Tail(<<x>> \o u) = u
    BY <1>1, <2>1, HeadTailOfConcat
  <2>3. QED
    BY <1>6, <2>2 DEF u
<1>8. QED
  <2> DEFINE P == [m \in Listeners |-> Undelivered(m)]
  <2>1. P[l] /= <<>> /\ P' = [P EXCEPT ![l] = Tail(@)]
    BY <1>5, <1>7
  <2>2. served' = Append(served, Head(P[l]))
    BY <1>1, <1>7
  <2>3. {m \in Listeners : cdone' \/ done'[m]} = {m \in Listeners : cdone \/ done[m]}
    BY <1>1
  <2>4. QED
    BY <2>1, <2>2, <2>3 DEF F!Deliver

LEMMA ServeErrStep ==
  ASSUME Typed, Typed', ServeErr
  PROVE  F!Shut
<1>1. /\ cout /= <<>> /\ Head(cout) \notin Streams /\ cout' = Tail(cout) /\ served' = served
      /\ UNCHANGED <<done, out, fan, hand, cdone>> /\ cout \in Seq(Items)
  BY PipelineAssumption DEF ServeErr, transportVars, Typed, TypeOK
<1>2. ASSUME NEW m \in Listeners
      PROVE  Undelivered(m)' = Undelivered(m)
  <2>1. Ahead(m) = One(Head(cout), From(m)) \o Ahead(m)'
    BY <1>1, SelectedHead DEF Ahead, From
  <2>2. Head(cout) \notin From(m)
    BY <1>1 DEF From
  <2>3. One(Head(cout), From(m)) = <<>>
    BY <2>2 DEF One
  <2>4. Ahead(m)' \in Seq(Streams)
    BY PartsStep
  <2>5. Ahead(m)' = Ahead(m)
    BY <2>1, <2>3, <2>4, ConcatEmptySeq
  <2>6. Behind(m)' = Behind(m)
    BY <1>1 DEF Behind
  <2>7. QED
    BY <2>5, <2>6, PartsStep
<1>3. QED
  BY <1>1, <1>2, QuietStep

\* The closing goroutines close done channels and never open one.
LEMMA CloserStep ==
  ASSUME Typed, NEW c \in Closers, Cancel(c) \/ Close(c)
  PROVE  F!Shut
<1>1. UNCHANGED <<out, fan, hand, cout, served>>
  BY DEF Cancel, Close, CloseComposite, CloseOnce, CloseCheck, CloseDone, CloseSocket,
         transportVars, compositeVars, serverVars
<1>2. (cdone => cdone') /\ \A l \in Listeners : done[l] => done'[l]
  <2>1. done \in [Listeners -> BOOLEAN]
    BY DEF Typed, TypeOK
  <2>2. CASE CloseOnce(c) \/ CloseDone(c)
    BY <2>1, <2>2 DEF CloseOnce, CloseDone, compositeVars
  <2>3. CASE CloseComposite(c)
    BY <2>3 DEF CloseComposite, transportVars
  <2>4. CASE Cancel(c) \/ CloseCheck(c) \/ CloseSocket(c)
    BY <2>4 DEF Cancel, CloseCheck, CloseSocket, transportVars, compositeVars
  <2>5. QED
    BY <2>2, <2>3, <2>4 DEF Close
<1>3. QED
  BY <1>1, <1>2, StillStep

LEMMA FanInStart == Init => F!Init
<1> SUFFICES ASSUME Init PROVE F!Init
  OBVIOUS
<1>1. ASSUME NEW l \in Listeners
      PROVE  Undelivered(l) = <<>>
  <2>1. cout = <<>> /\ Behind(l) = <<>>
    BY DEF Init, Behind
  <2>2. Undelivered(l) = Selected(<<>>, From(l)) \o <<>>
    BY <2>1 DEF Undelivered, Behind, From
  <2>3. Selected(<<>>, From(l)) = <<>>
    BY SelectedEmpty
  <2>4. <<>> \o <<>> = <<>>
    OBVIOUS
  <2>5. QED
    BY <2>2, <2>3, <2>4
<1>2. served = <<>> /\ \A l \in Listeners : ~cdone /\ ~done[l]
  BY DEF Init
<1>3. QED
  BY <1>1, <1>2 DEF F!Init

LEMMA FanInStep ==
  Typed /\ Typed' /\ Owned /\ Served /\ [Next]_vars => [F!Next]_(F!vars)
<1> SUFFICES ASSUME Typed, Typed', Owned, Served, [Next]_vars PROVE F!Next
  OBVIOUS
<1>1. F!Shut => F!Next
  BY DEF F!Next
<1>2. ASSUME UNCHANGED <<out, fan, hand, cout, served, cdone, done>>
      PROVE  F!Shut
  BY <1>2, StillStep
<1>3. ASSUME NEW s \in Streams,
             \/ Connect(s) \/ AcceptConn(s) \/ OpenStream(s)
             \/ HandshakeOK(s) \/ HandshakeFail(s)
             \/ OfferDone(s) \/ HandlerEnd(s)
      PROVE  F!Next
  BY <1>1, <1>2, <1>3 DEF Connect, AcceptConn, OpenStream, HandshakeOK,
     HandshakeFail, OfferDone, HandlerEnd, transportVars, compositeVars, serverVars
<1>4. ASSUME NEW s \in Streams, Offer(s)
      PROVE  F!Next
  <2>1. F!Arrive(s, Home[s]) \/ F!Shut
    BY <1>4, OfferStep
  <2>2. Home[s] \in Listeners
    BY PipelineAssumption
  <2>3. QED
    BY <2>1, <2>2 DEF F!Next
<1>5. ASSUME NEW l \in Listeners, AcceptError(l) \/ Fan(l)
      PROVE  F!Next
  <2>1. CASE AcceptError(l)
    BY <1>1, <1>2, <2>1 DEF AcceptError, compositeVars, serverVars
  <2>2. CASE FanAccept(l) \/ FanSend(l)
    BY <1>1, <2>2, FanAcceptStep, FanSendStep
  <2>3. CASE FanAcceptClosed(l) \/ FanDone(l)
    <3>1. F!Abandon(l)
      BY <2>3, FanEndStep
    <3>2. QED
      BY <3>1 DEF F!Next
  <2>4. QED
    BY <1>5, <2>1, <2>2, <2>3 DEF Fan
<1>6. CASE Serve
  <2>1. CASE ServeTake
    <3>1. Home[Head(cout)] \in Listeners
      BY <2>1, PipelineAssumption DEF ServeTake
    <3>2. F!Deliver(Home[Head(cout)])
      BY <2>1, <3>1, ServeTakeStep
    <3>3. QED
      BY <3>1, <3>2 DEF F!Next
  <2>2. CASE ServeErr
    BY <1>1, <2>2, ServeErrStep
  <2>3. CASE ServeStop
    BY <1>1, <1>2, <2>3 DEF ServeStop, transportVars, compositeVars
  <2>4. QED
    BY <1>6, <2>1, <2>2, <2>3 DEF Serve
<1>7. ASSUME NEW c \in Closers, Cancel(c) \/ Close(c)
      PROVE  F!Next
  BY <1>1, <1>7, CloserStep
<1>8. CASE UNCHANGED vars
  BY <1>1, <1>2, <1>8 DEF vars, transportVars, compositeVars, serverVars
<1>9. QED
  BY <1>3, <1>4, <1>5, <1>6, <1>7, <1>8 DEF Next

\* The streams of every listener reach Serve in the order in which the
\* listener queued them, each at most once, and one is lost only when its
\* listener or the composite has been closed (NewComposite, server.go:144).
THEOREM FanInImplemented == Spec => ImplementsFanIn
<1>1. Init => Served
  BY DEF Init, Served
<1>2. Spec => []Owned
  BY OwnedStart, OwnedStep, AlwaysTyped, PTL DEF Spec
<1>3. Spec => []Served
  BY <1>1, <1>2, ServedStep, AlwaysTyped, PTL DEF Spec
<1>4. QED
  BY <1>2, <1>3, AlwaysTyped, FanInStart, FanInStep, PTL DEF Spec, ImplementsFanIn, F!Spec
=============================================================================
