-------------------------- MODULE SmuxSessionProofs --------------------------
(***************************************************************************)
(* Proofs about the multiplexed transport, for any number of calls, outer  *)
(* connections and places in the channel.                                  *)
(***************************************************************************)
EXTENDS SmuxSession, QueueLemmas

Dialling == {"outer", "shake", "outer2", "shake2"}
Holding == Dialling \cup {"open", "open2"}

\* A call is past Lock exactly while it holds the mutex, and what it is about
\* to use is there.
Locking ==
  /\ \A d \in Dials : pc[d] \in Holding <=> mu = d
  /\ \A x \in Closes : pc[x] \in {"idle", "wait", "done"}
  /\ \A d \in Dials : pc[d] \in {"shake", "shake2"} => conn[d] \in 1 .. used
  /\ \A d \in Dials : pc[d] \in {"open", "open2"} => session \in Conns
  /\ \A i \in Conns : loop[i] = "send" => hand[i] \in Dials

\* The client's session, raw connection and hash are of one age; a session is
\* replaced only when it is closed or has been dropped.
Ages ==
  /\ session /= 0 => ident = session
  /\ session <= used /\ ident <= used
  /\ \A d \in Dials : pc[d] \in {"outer", "shake"} /\ session /= 0 => isClosed[session]
  /\ \A d \in Dials : pc[d] \in {"outer2", "shake2"} => session = 0

\* The connections that are dialled are the first ones, and a session that
\* knows it is closed has no connection.
Links ==
  /\ \A i \in Conns : link[i] /= "none" <=> i <= used
  /\ \A i \in Conns : isClosed[i] => link[i] \in Down
  /\ session /= 0 => link[session] /= "shaking"

\* A connection that is up or coming up is the session's, a dropped one's, or
\* the one a call of Dial is making.
Known ==
  \A i \in Conns : link[i] \in {"shaking", "up"} =>
    \/ i = session \/ i \in dropped
    \/ \E d \in Dials : pc[d] \in {"shake", "shake2"} /\ conn[d] = i

Typed == TypeOK /\ Locking
Sessions == Ages /\ Links /\ Known /\ BoundToSession /\ NoCollateral

LEMMA TypedStart == Init => Typed
<1> SUFFICES ASSUME Init PROVE Typed
  OBVIOUS
<1> USE SmuxAssumption DEF Init, Conns
<1>1. wire \in [Conns -> Seq(Dials)] /\ out \in Seq(Dials) /\ served \in Seq(Dials)
  OBVIOUS
<1>2. Len(out) <= OutCap
  OBVIOUS
<1>3. Locking
  BY DEF Locking, Holding, Dialling
<1>4. /\ mu \in Dials \cup {None}
      /\ session \in 0 .. MaxConns /\ ident \in 0 .. MaxConns
      /\ used \in 0 .. MaxConns /\ dropped \subseteq Conns
  OBVIOUS
<1>5. done \in BOOLEAN /\ taking \in BOOLEAN
  OBVIOUS
<1>6. conn \in [Dials -> 0 .. MaxConns] /\ tag \in [Dials -> 0 .. MaxConns]
  <2>1. 0 \in 0 .. MaxConns
    OBVIOUS
  <2>2. QED
    BY <2>1
<1>7. /\ link \in [Conns -> {"none", "shaking", "up"} \cup Down]
      /\ isClosed \in [Conns -> BOOLEAN]
      /\ loop \in [Conns -> {"idle", "accept", "send", "exited"}]
      /\ hand \in [Conns -> Dials \cup {None}]
  OBVIOUS
<1>8. pc \in [Dials \cup Closes -> {"idle", "wait", "outer", "shake", "open",
               "outer2", "shake2", "open2", "done", "failed"}]
  OBVIOUS
<1>9. QED
  BY <1>1, <1>2, <1>3, <1>4, <1>5, <1>6, <1>7, <1>8 DEF Typed, TypeOK

-----------------------------------------------------------------------------
(* Types and the mutex.                                                    *)

LEMMA TypedLinks ==
  ASSUME Typed, NEW i \in Conns,
         Fault(i) \/ KeepAliveFails(i) \/ HandleOuter(i) \/ HandleOuterFail(i)
  PROVE  Typed'
<1> USE SmuxAssumption DEF Typed, TypeOK, Locking, Down, SetLink, clientVars,
        linkVars, serverVars, Conns
<1>1. CASE Fault(i)
  BY <1>1 DEF Fault
<1>2. CASE KeepAliveFails(i)
  BY <1>2 DEF KeepAliveFails
<1>3. CASE HandleOuter(i)
  BY <1>3 DEF HandleOuter
<1>4. CASE HandleOuterFail(i)
  BY <1>4 DEF HandleOuterFail
<1>5. QED
  BY <1>1, <1>2, <1>3, <1>4

LEMMA TypedCall ==
  ASSUME Typed, NEW x \in Dials \cup Closes, Call(x)
  PROVE  Typed'
BY SmuxAssumption DEF Typed, TypeOK, Locking, Holding, Dialling, Call, Goto, Conns,
   clientVars, linkVars, serverVars

LEMMA TypedDial ==
  ASSUME Typed, NEW d \in Dials, Lock(d) \/ DialStep(d)
  PROVE  Typed'
<1> USE SmuxAssumption DEF Typed, TypeOK, Locking, Holding, Dialling, Down, SetLink,
        Goto, Return, Closed, clientVars, linkVars, serverVars, Conns
<1>1. CASE Lock(d)
  BY <1>1 DEF Lock, NeedsOuter
<1>2. CASE DialContextFail(d)
  BY <1>2 DEF DialContextFail
<1>3. CASE DialContext(d)
  <2>1. used + 1 \in Conns /\ used' = used + 1 /\ mu = d
    BY <1>3 DEF DialContext
  <2>2. TypeOK'
    <3>1. /\ conn' \in [Dials -> 0 .. MaxConns] /\ used' \in 0 .. MaxConns
          /\ link' \in [Conns -> {"none", "shaking", "up"} \cup Down]
      BY <1>3, <2>1 DEF DialContext
    <3>2. pc' \in [Dials \cup Closes -> {"idle", "wait", "outer", "shake", "open",
                   "outer2", "shake2", "open2", "done", "failed"}]
      BY <1>3 DEF DialContext
    <3>3. QED
      BY <1>3, <3>1, <3>2 DEF DialContext
  <2>3. \A c \in Dials : c /= d => pc[c] \notin Holding
    BY <2>1
  <2>4. Locking'
    <3>1. \A c \in Dials : pc'[c] \in {"shake", "shake2"} => conn'[c] \in 1 .. used'
      BY <1>3, <2>1, <2>3 DEF DialContext
    <3>2. \A c \in Dials : pc'[c] \in Holding <=> mu' = c
      BY <1>3, <2>1, <2>3 DEF DialContext
    <3>3. QED
      BY <1>3, <2>1, <2>3, <3>1, <3>2 DEF DialContext
  <2>5. QED
    BY <2>2, <2>4
<1>4. CASE Handshake(d)
  <2>1. conn[d] \in Conns /\ pc[d] \in Holding
    BY <1>4 DEF Handshake, HandshakeAnswered
  <2>2. TypeOK'
    BY <1>4, <2>1 DEF Handshake
  <2>3. \A c \in Dials : c /= d => pc[c] \notin Holding
    BY <2>1
  <2>4. Locking'
    BY <1>4, <2>1, <2>3 DEF Handshake, HandshakeAnswered
  <2>5. QED
    BY <2>2, <2>4
<1>5. CASE HandshakeFail(d)
  BY <1>5 DEF HandshakeFail
<1>6. CASE OpenStream(d)
  <2>1. wire' \in [Conns -> Seq(Dials)]
    BY <1>6 DEF OpenStream
  <2>2. QED
    BY <1>6, <2>1 DEF OpenStream
<1>7. CASE OpenStreamFail(d)
  BY <1>7 DEF OpenStreamFail
<1>8. CASE OpenStreamFailAgain(d)
  BY <1>8 DEF OpenStreamFailAgain
<1>9. QED
  BY <1>1, <1>2, <1>3, <1>4, <1>5, <1>6, <1>7, <1>8 DEF DialStep

LEMMA TypedClose ==
  ASSUME Typed, NEW x \in Closes, Close(x)
  PROVE  Typed'
BY SmuxAssumption DEF Typed, TypeOK, Locking, Holding, Dialling, Down, Goto, Closed,
   Conns, Close, clientVars, serverVars

LEMMA TypedLoop ==
  ASSUME Typed, NEW i \in Conns,
         AcceptStream(i) \/ AcceptStreamFail(i) \/ Offer(i) \/ OfferDone(i)
  PROVE  Typed'
<1> USE SmuxAssumption DEF Typed, TypeOK, Locking, Down, SetLink, Closed,
        clientVars, linkVars, serverVars, Conns
<1>1. CASE AcceptStream(i)
  <2>1. Head(wire[i]) \in Dials /\ wire' \in [Conns -> Seq(Dials)]
    BY <1>1 DEF AcceptStream
  <2>2. QED
    BY <1>1, <2>1 DEF AcceptStream
<1>2. CASE AcceptStreamFail(i) \/ OfferDone(i)
  <2>1. LoopEnds(i)
    BY <1>2 DEF AcceptStreamFail, OfferDone
  <2>2. wire' \in [Conns -> Seq(Dials)]
    BY <2>1 DEF LoopEnds
  <2>3. QED
    BY <2>1, <2>2 DEF LoopEnds
<1>3. CASE Offer(i)
  <2>1. out' \in Seq(Dials) /\ Len(out') <= OutCap
    BY <1>3 DEF Offer
  <2>2. QED
    BY <1>3, <2>1 DEF Offer
<1>4. QED
  BY <1>1, <1>2, <1>3

LEMMA TypedAccept ==
  ASSUME Typed, Accept \/ AcceptClosed \/ CloseServer
  PROVE  Typed'
<1> USE SmuxAssumption DEF Typed, TypeOK, Locking, clientVars, linkVars, Conns
<1>1. CASE Accept
  <2>1. /\ out' \in Seq(Dials) /\ Len(out') <= OutCap
        /\ served' \in Seq(Dials)
    BY <1>1 DEF Accept
  <2>2. QED
    BY <1>1, <2>1 DEF Accept
<1>2. CASE AcceptClosed \/ CloseServer
  BY <1>2 DEF AcceptClosed, CloseServer
<1>3. QED
  BY <1>1, <1>2

LEMMA TypedStep == Typed /\ [Next]_vars => Typed'
<1> SUFFICES ASSUME Typed, [Next]_vars PROVE Typed'
  OBVIOUS
<1>1. CASE UNCHANGED vars
  BY <1>1 DEF Typed, TypeOK, Locking, vars, clientVars, linkVars, serverVars, Conns
<1>2. CASE Next
  BY <1>2, TypedLinks, TypedCall, TypedDial, TypedClose, TypedLoop, TypedAccept
     DEF Next
<1>3. QED
  BY <1>1, <1>2

LEMMA AlwaysTyped == Spec => []Typed
BY TypedStart, TypedStep, PTL DEF Spec

\* Every variable keeps its type, the out channel its capacity, and one call
\* at a time is past c.mu.Lock (smuxtcp.go:81, 200, 257).
THEOREM TypeCorrect == Spec => []TypeOK
<1>1. Typed => TypeOK
  BY DEF Typed
<1>2. QED
  BY <1>1, AlwaysTyped, PTL

-----------------------------------------------------------------------------
(* Sessions and their connections.                                         *)

LEMMA SessionsDial ==
  ASSUME Typed, Sessions, NEW d \in Dials, Lock(d) \/ DialStep(d)
  PROVE  Sessions'
<1> USE SmuxAssumption DEF Typed, TypeOK, Locking, Holding, Dialling, Down, SetLink,
        Goto, Return, Closed, clientVars, linkVars, serverVars, Conns,
        Sessions, Ages, Links, Known, BoundToSession, NoCollateral
<1>0. \A c \in Dials : c /= d /\ pc[d] \in Holding => pc[c] \notin Holding
  OBVIOUS
<1>1. CASE Lock(d)
  <2>1. Ages'
    BY <1>1 DEF Lock, NeedsOuter
  <2>2. Links' /\ BoundToSession' /\ NoCollateral'
    BY <1>1 DEF Lock
  <2>3. \A c \in Dials : pc[c] \in {"shake", "shake2"} => pc'[c] = pc[c]
    BY <1>1 DEF Lock
  <2>4. Known'
    BY <1>1, <2>3 DEF Lock
  <2>5. QED
    BY <2>1, <2>2, <2>4
<1>2. CASE DialContextFail(d)
  <2>1. Ages'
    BY <1>2 DEF DialContextFail
  <2>2. Links' /\ BoundToSession' /\ NoCollateral'
    BY <1>2 DEF DialContextFail
  <2>3. \A c \in Dials : pc[c] \in {"shake", "shake2"} => pc'[c] = pc[c]
    BY <1>2 DEF DialContextFail
  <2>4. Known'
    BY <1>2, <2>3 DEF DialContextFail
  <2>5. QED
    BY <2>1, <2>2, <2>4
<1>3. CASE DialContext(d)
  <2>1. Ages'
    BY <1>0, <1>3 DEF DialContext
  <2>2. Links'
    BY <1>3 DEF DialContext
  <2>3. BoundToSession' /\ NoCollateral'
    BY <1>3 DEF DialContext
  <2>4. ASSUME NEW i \in Conns, link'[i] \in {"shaking", "up"}
        PROVE  \/ i = session' \/ i \in dropped'
               \/ \E c \in Dials : pc'[c] \in {"shake", "shake2"} /\ conn'[c] = i
    <3>1. CASE i = used + 1
      <4>1. pc'[d] \in {"shake", "shake2"} /\ conn'[d] = i
        BY <1>3, <3>1 DEF DialContext
      <4>2. QED
        BY <4>1
    <3>2. CASE i /= used + 1
      <4>1. link[i] \in {"shaking", "up"} /\ UNCHANGED <<session, dropped>>
        BY <1>3, <2>4, <3>2 DEF DialContext
      <4>2. \A c \in Dials : pc[c] \notin {"shake", "shake2"}
        BY <1>0, <1>3 DEF DialContext
      <4>3. QED
        BY <4>1, <4>2
    <3>3. QED
      BY <3>1, <3>2
  <2>5. QED
    BY <2>1, <2>2, <2>3, <2>4 DEF Known
<1>4. CASE Handshake(d)
  <2>1. conn[d] \in 1 .. used /\ conn[d] \in Conns /\ link[conn[d]] /= "shaking"
    BY <1>4 DEF Handshake, HandshakeAnswered
  <2>2. Ages'
    BY <1>0, <1>4, <2>1 DEF Handshake, HandshakeAnswered
  <2>3. Links' /\ BoundToSession' /\ NoCollateral'
    BY <1>4, <2>1 DEF Handshake, HandshakeAnswered
  <2>4. ASSUME NEW i \in Conns, link'[i] \in {"shaking", "up"}, i /= conn[d]
        PROVE  i \in dropped
    <3>1. link[i] \in {"shaking", "up"}
      BY <1>4, <2>4 DEF Handshake
    <3>2. i /= session
      <4>1. session = 0 \/ isClosed[session]
        BY <1>4 DEF Handshake, HandshakeAnswered
      <4>2. \A k \in Conns : isClosed[k] => link[k] \notin {"shaking", "up"}
        OBVIOUS
      <4>3. QED
        BY <3>1, <4>1, <4>2
    <3>3. \A c \in Dials : pc[c] \in {"shake", "shake2"} => c = d
      BY <1>0, <1>4 DEF Handshake, HandshakeAnswered
    <3>4. QED
      BY <2>4, <3>1, <3>2, <3>3
  <2>5. Known'
    BY <1>4, <2>4 DEF Handshake
  <2>6. QED
    BY <2>2, <2>3, <2>5
<1>5. CASE HandshakeFail(d)
  BY <1>5 DEF HandshakeFail
<1>6. CASE OpenStream(d)
  BY <1>6 DEF OpenStream
<1>7. CASE OpenStreamFail(d)
  BY <1>7 DEF OpenStreamFail
<1>8. CASE OpenStreamFailAgain(d)
  BY <1>8 DEF OpenStreamFailAgain
<1>9. QED
  BY <1>1, <1>2, <1>3, <1>4, <1>5, <1>6, <1>7, <1>8 DEF DialStep

LEMMA SessionsClose ==
  ASSUME Typed, Sessions, NEW x \in Closes, Close(x)
  PROVE  Sessions'
BY SmuxAssumption DEF Typed, TypeOK, Locking, Down, Goto, Closed, Conns, Close,
   clientVars, serverVars, Sessions, Ages, Links, Known, BoundToSession, NoCollateral

LEMMA SessionsLinks ==
  ASSUME Typed, Sessions, NEW i \in Conns,
         \/ Fault(i) \/ KeepAliveFails(i) \/ HandleOuter(i) \/ HandleOuterFail(i)
         \/ AcceptStreamFail(i) \/ OfferDone(i)
  PROVE  Sessions'
<1> USE SmuxAssumption DEF Typed, TypeOK, Locking, Down, SetLink, Closed, Conns,
        clientVars, linkVars, serverVars,
        Sessions, Ages, Links, Known, BoundToSession, NoCollateral
<1>1. CASE Fault(i)
  BY <1>1 DEF Fault
<1>2. CASE KeepAliveFails(i)
  BY <1>2 DEF KeepAliveFails
<1>3. CASE HandleOuter(i)
  <2>1. \A j \in Conns : link'[j] = IF j = i THEN "up" ELSE link[j]
    BY <1>3 DEF HandleOuter
  <2>2. ~isClosed[i]
    BY <1>3 DEF HandleOuter
  <2>3. Links'
    BY <1>3, <2>1, <2>2 DEF HandleOuter
  <2>4. Known'
    BY <1>3, <2>1 DEF HandleOuter
  <2>5. QED
    BY <1>3, <2>1, <2>3, <2>4 DEF HandleOuter
<1>4. CASE HandleOuterFail(i) \/ AcceptStreamFail(i) \/ OfferDone(i)
  <2>1. UNCHANGED <<pc, clientVars, isClosed>> /\ (done => done')
    BY <1>4 DEF HandleOuterFail, AcceptStreamFail, OfferDone, LoopEnds
  <2>2. \A j \in Conns :
          \/ link'[j] = link[j]
          \/ j = i /\ link[i] /= "none" /\ link'[i] = "refused"
          \/ j = i /\ link[i] /= "none" /\ link'[i] = "closed" /\ done'
    <3>1. CASE HandleOuterFail(i)
      BY <3>1 DEF HandleOuterFail
    <3>2. CASE AcceptStreamFail(i)
      BY <3>2 DEF AcceptStreamFail, LoopEnds
    <3>3. CASE OfferDone(i)
      BY <3>3 DEF OfferDone, LoopEnds
    <3>4. QED
      BY <1>4, <3>1, <3>2, <3>3
  <2>3. Ages' /\ BoundToSession'
    BY <2>1
  <2>4. NoCollateral'
    BY <2>1, <2>2
  <2>5. Links'
    <3>1. \A j \in Conns : link'[j] /= "none" <=> j <= used'
      BY <2>1, <2>2
    <3>2. ASSUME NEW j \in Conns, isClosed'[j] PROVE link'[j] \in Down
      <4>1. link[j] \in Down
        BY <2>1, <3>2
      <4> HIDE DEF Typed, Sessions
      <4>2. QED
        BY <2>2, <4>1
    <3>3. session' /= 0 => link'[session'] /= "shaking"
      BY <2>1, <2>2
    <3>4. QED
      BY <3>1, <3>2, <3>3
  <2>6. ASSUME NEW j \in Conns, link'[j] \in {"shaking", "up"}
        PROVE  \/ j = session' \/ j \in dropped'
               \/ \E d \in Dials : pc'[d] \in {"shake", "shake2"} /\ conn'[d] = j
    <3>1. link[j] \in {"shaking", "up"}
      BY <2>2, <2>6
    <3>2. QED
      BY <2>1, <3>1
  <2>7. Known'
    BY <2>6
  <2> HIDE DEF Ages, Links, Known, BoundToSession, NoCollateral
  <2>8. QED
    BY <2>3, <2>4, <2>5, <2>7
<1>5. QED
  BY <1>1, <1>2, <1>3, <1>4

LEMMA SessionsStep == Typed /\ Sessions /\ [Next]_vars => Sessions'
<1> SUFFICES ASSUME Typed, Sessions, [Next]_vars PROVE Sessions'
  OBVIOUS
<1>1. ASSUME NEW x \in Dials \cup Closes, Call(x)
      PROVE  Sessions'
  <2>1. /\ UNCHANGED <<clientVars, linkVars, done>>
        /\ \A d \in Dials : \/ pc'[d] = pc[d]
                            \/ pc[d] = "idle" /\ pc'[d] = "wait"
        /\ \A c \in Closes : pc[c] = "done" => pc'[c] = "done"
    <3>1. /\ pc[x] = "idle" /\ pc' = [pc EXCEPT ![x] = "wait"]
          /\ UNCHANGED <<clientVars, linkVars, done>>
      BY <1>1 DEF Call, Goto, serverVars
    <3>2. \A y \in Dials \cup Closes : pc'[y] = IF y = x THEN "wait" ELSE pc[y]
      BY <3>1 DEF Typed, TypeOK
    <3> HIDE DEF Typed
    <3>3. QED
      BY <3>1, <3>2
  <2>2. Ages' /\ BoundToSession'
    BY <2>1 DEF clientVars, linkVars, Sessions, Ages, BoundToSession
  <2>3. Links' /\ NoCollateral'
    BY <2>1 DEF clientVars, linkVars, Sessions, Links, NoCollateral
  <2>4. \A d \in Dials : pc[d] \in {"shake", "shake2"} => pc'[d] = pc[d]
    BY <2>1
  <2>5. Known'
    BY <2>1, <2>4 DEF clientVars, linkVars, Sessions, Known
  <2>6. QED
    BY <2>2, <2>3, <2>5 DEF Sessions
<1>2. CASE UNCHANGED <<pc, clientVars, linkVars, done>>
  BY <1>2 DEF clientVars, linkVars, Sessions, Ages, Links, Known, BoundToSession,
     NoCollateral
<1>3. CASE CloseServer
  BY <1>3 DEF CloseServer, clientVars, linkVars, Sessions, Ages, Links, Known,
     BoundToSession, NoCollateral
<1>4. QED
  BY <1>1, <1>2, <1>3, SessionsDial, SessionsClose, SessionsLinks
     DEF Next, vars, AcceptStream, Offer, Accept, AcceptClosed, serverVars

LEMMA AlwaysSessions == Spec => [](Typed /\ Sessions)
<1>1. Init => Sessions
  BY SmuxAssumption DEF Init, Sessions, Ages, Links, Known, BoundToSession,
     NoCollateral, Conns, Down
<1>2. QED
  BY <1>1, SessionsStep, AlwaysTyped, PTL DEF Spec

\* A stream carries the raw connection and the hash of its own session, over
\* any number of reconnects and concurrent calls (smuxtcp.go:199-220).
THEOREM StreamBoundToSession == Spec => []BoundToSession
<1>1. Sessions => BoundToSession
  BY DEF Sessions
<1>2. QED
  BY <1>1, AlwaysSessions, PTL

\* Dial loses no connection that works, except one on which OpenStream has
\* failed (smuxtcp.go:202-213).
THEOREM NoConnectionLost == Spec => []NoStrayConnection
<1>1. Typed /\ Sessions => NoStrayConnection
  <2> SUFFICES ASSUME Typed, Sessions, mu = None, NEW i \in Conns, link[i] = "up"
               PROVE  i = session \/ i \in dropped
    BY DEF NoStrayConnection
  <2>1. \A d \in Dials : pc[d] \notin Holding
    BY SmuxAssumption DEF Typed, Locking
  <2>2. QED
    BY <2>1 DEF Sessions, Known, Holding, Dialling
<1>2. QED
  BY <1>1, AlwaysSessions, PTL

\* Only Client.Close and a shutdown of the server close a connection that
\* works, whatever calls of Dial come and go (smuxtcp.go:129-147, 207-213).
THEOREM NoCollateralDamage == Spec => []NoCollateral
<1>1. Sessions => NoCollateral
  BY DEF Sessions
<1>2. QED
  BY <1>1, AlwaysSessions, PTL

-----------------------------------------------------------------------------
(* ImplementsFanIn.                                                        *)

Holds(q, d) == \E k \in 1 .. Len(q) : q[k] = d

\* A stream is opened before it is anywhere on the way, and up to the channel
\* it is with the connection it was opened on.
Opened ==
  /\ \A d \in Dials : pc[d] = "done" => conn[d] \in Conns
  /\ \A d \in Dials : Holds(out, d) \/ Holds(served, d) => pc[d] = "done"
  /\ \A d \in Dials, i \in Conns : Holds(wire[i], d) => pc[d] = "done" /\ conn[d] = i
  /\ \A d \in Dials, i \in Conns :
       loop[i] = "send" /\ hand[i] = d => pc[d] = "done" /\ conn[d] = i
  /\ \A i \in Conns : link[i] \in {"none", "shaking"} => loop[i] = "idle"

LEMMA HoldsAppend ==
  ASSUME NEW S, NEW q \in Seq(S), NEW x \in S
  PROVE  \A d : Holds(Append(q, x), d) <=> Holds(q, d) \/ d = x
<1>1. /\ Len(Append(q, x)) = Len(q) + 1 /\ Append(q, x)[Len(q) + 1] = x
      /\ Len(q) + 1 \in 1 .. Len(q) + 1
      /\ \A k \in 1 .. Len(q) : Append(q, x)[k] = q[k] /\ k \in 1 .. Len(q) + 1
      /\ \A k \in 1 .. Len(q) + 1 : k \in 1 .. Len(q) \/ k = Len(q) + 1
  OBVIOUS
<1>2. QED
  BY <1>1 DEF Holds

LEMMA HoldsTail ==
  ASSUME NEW S, NEW q \in Seq(S), q /= <<>>
  PROVE  Holds(q, Head(q)) /\ \A d : Holds(Tail(q), d) => Holds(q, d)
<1>1. /\ Head(q) = q[1] /\ 1 \in 1 .. Len(q)
      /\ \A k \in 1 .. Len(Tail(q)) : Tail(q)[k] = q[k + 1] /\ k + 1 \in 1 .. Len(q)
  OBVIOUS
<1>2. QED
  BY <1>1 DEF Holds

LEMMA HoldsNothing == \A d : ~Holds(<<>>, d)
<1>1. Len(<<>>) = 0
  OBVIOUS
<1>2. QED
  BY <1>1 DEF Holds

LEMMA OpenedStart == Init => Opened
<1> SUFFICES ASSUME Init PROVE Opened
  OBVIOUS
<1>1. /\ out = <<>> /\ served = <<>> /\ \A i \in Conns : wire[i] = <<>> /\ loop[i] = "idle"
      /\ \A d \in Dials : pc[d] = "idle"
  BY DEF Init
<1>2. QED
  BY <1>1, HoldsNothing DEF Opened

\* What the steps below need of the types.
Basics ==
  /\ pc \in [Dials \cup Closes -> {"idle", "wait", "outer", "shake", "open",
               "outer2", "shake2", "open2", "done", "failed"}]
  /\ conn \in [Dials -> 0 .. MaxConns]
  /\ link \in [Conns -> {"none", "shaking", "up"} \cup Down]
  /\ loop \in [Conns -> {"idle", "accept", "send", "exited"}]
  /\ hand \in [Conns -> Dials \cup {None}] /\ None \notin Dials
  /\ \A i \in Conns : loop[i] = "send" => hand[i] \in Dials
  /\ wire \in [Conns -> Seq(Dials)] /\ out \in Seq(Dials) /\ served \in Seq(Dials)
  /\ done \in BOOLEAN /\ Dials \cap Closes = {}

LEMMA TypedBasics == Typed => Basics
BY SmuxAssumption DEF Typed, TypeOK, Locking, Basics

\* A step that moves no stream keeps Opened when the calls that have opened
\* theirs stay where they are.
LEMMA OpenedQuiet ==
  ASSUME Opened, UNCHANGED <<out, served, wire>>,
         \A d \in Dials : pc[d] = "done" => pc'[d] = "done" /\ conn'[d] = conn[d],
         \A d \in Dials : pc'[d] = "done" => pc[d] = "done",
         \A i \in Conns : loop'[i] = "send" => loop[i] = "send" /\ hand'[i] = hand[i],
         \A i \in Conns : link'[i] \in {"none", "shaking"} => loop'[i] = "idle"
  PROVE  Opened'
BY DEF Opened

LEMMA OpenedDial ==
  ASSUME Typed, Sessions, Opened, NEW d \in Dials, Lock(d) \/ DialStep(d)
  PROVE  Opened'
<1> USE TypedBasics DEF Basics, Goto, Return, SetLink, linkVars, serverVars
<1>1. CASE Lock(d) \/ DialContextFail(d) \/ Handshake(d) \/ OpenStreamFail(d)
             \/ OpenStreamFailAgain(d)
  <2>1. /\ UNCHANGED <<out, served, wire, loop, hand, link, conn>>
        /\ pc[d] /= "done" /\ pc'[d] /= "done"
        /\ \A c \in Dials \ {d} : pc'[c] = pc[c]
    BY <1>1 DEF Lock, DialContextFail, Handshake, HandshakeAnswered, OpenStreamFail,
       OpenStreamFailAgain
  <2>2. QED
    BY <2>1, OpenedQuiet DEF Opened
<1>2. CASE DialContext(d)
  <2>1. /\ UNCHANGED <<out, served, wire, loop, hand>>
        /\ pc[d] /= "done" /\ pc'[d] /= "done"
        /\ \A c \in Dials \ {d} : pc'[c] = pc[c] /\ conn'[c] = conn[c]
        /\ used + 1 \in Conns /\ link' = [link EXCEPT ![used + 1] = "shaking"]
    BY <1>2, SmuxAssumption DEF DialContext, Typed, TypeOK, Conns
  <2>2. link[used + 1] = "none"
    BY <2>1 DEF Sessions, Links, Conns, Typed, TypeOK
  <2>3. loop[used + 1] = "idle"
    BY <2>1, <2>2 DEF Opened
  <2>4. \A i \in Conns : link'[i] \in {"none", "shaking"} => loop'[i] = "idle"
    BY <2>1, <2>3 DEF Opened
  <2>5. QED
    BY <2>1, <2>4, OpenedQuiet
<1>3. CASE HandshakeFail(d)
  <2>1. /\ UNCHANGED <<out, served, wire, loop, hand, conn>>
        /\ pc[d] /= "done" /\ pc'[d] /= "done"
        /\ \A c \in Dials \ {d} : pc'[c] = pc[c]
        /\ \A i \in Conns : link'[i] = link[i] \/ link'[i] = "refused"
    BY <1>3 DEF HandshakeFail, Closed
  <2>2. QED
    BY <2>1, OpenedQuiet DEF Opened
<1>4. CASE OpenStream(d)
  <2>1. session \in Conns
    BY <1>4 DEF OpenStream, Typed, Locking
  <2>2. /\ pc[d] /= "done" /\ pc'[d] = "done" /\ conn'[d] = session
        /\ \A c \in Dials \ {d} : pc'[c] = pc[c] /\ conn'[c] = conn[c]
        /\ UNCHANGED <<out, served, loop, hand, link>>
    BY <1>4 DEF OpenStream
  <2>3. \A c \in Dials, i \in Conns :
          Holds(wire'[i], c) => Holds(wire[i], c) \/ (c = d /\ i = session)
    <3>1. \A i \in Conns : \/ wire'[i] = wire[i]
                           \/ i = session /\ wire'[i] = Append(wire[i], d)
      BY <1>4 DEF OpenStream
    <3>2. \A i \in Conns, c \in Dials :
            Holds(Append(wire[i], d), c) => Holds(wire[i], c) \/ c = d
      <4>1. \A i \in Conns : wire[i] \in Seq(Dials)
        OBVIOUS
      <4> HIDE DEF Basics
      <4>2. QED
        BY <4>1, HoldsAppend
    <3>3. ASSUME NEW c \in Dials, NEW i \in Conns, Holds(wire'[i], c)
          PROVE  Holds(wire[i], c) \/ (c = d /\ i = session)
      <4> HIDE DEF Basics
      <4>1. CASE wire'[i] = wire[i]
        BY <3>3, <4>1
      <4>2. CASE i = session /\ wire'[i] = Append(wire[i], d)
        <5>1. Holds(Append(wire[i], d), c)
          BY <3>3, <4>2
        <5>2. QED
          BY <3>2, <4>2, <5>1
      <4>3. QED
        BY <3>1, <4>1, <4>2
    <3>4. QED
      BY <3>3
  <2> HIDE DEF Basics
  <2>4. QED
    BY <2>1, <2>2, <2>3 DEF Opened
<1>5. QED
  BY <1>1, <1>2, <1>3, <1>4 DEF DialStep

LEMMA OpenedLinks ==
  ASSUME Typed, Opened, NEW i \in Conns,
         Fault(i) \/ KeepAliveFails(i) \/ HandleOuter(i) \/ HandleOuterFail(i)
  PROVE  Opened'
<1>1. /\ UNCHANGED <<out, served, wire, hand, pc, conn>>
      /\ \A k \in Conns : \/ loop'[k] = loop[k] /\ link'[k] = link[k]
                          \/ loop'[k] = loop[k] /\ link'[k] \in Down
                          \/ loop'[k] = "accept" /\ link'[k] = "up"
  BY TypedBasics DEF Basics, Fault, KeepAliveFails, HandleOuter, HandleOuterFail, SetLink,
     clientVars, linkVars, serverVars, Down
<1>2. \A k \in Conns : loop'[k] = "send" => loop[k] = "send"
  BY <1>1
<1>3. \A k \in Conns : link'[k] \in {"none", "shaking"} => loop'[k] = "idle"
  BY <1>1 DEF Opened, Down
<1>4. QED
  BY <1>1, <1>2, <1>3, OpenedQuiet

LEMMA OpenedCalls ==
  ASSUME Typed, Opened,
         \/ \E x \in Dials \cup Closes : Call(x)
         \/ \E x \in Closes : Close(x)
         \/ AcceptClosed \/ CloseServer
  PROVE  Opened'
<1> USE TypedBasics DEF Basics, Goto, clientVars, linkVars, serverVars
<1>1. CASE \E x \in Dials \cup Closes : Call(x)
  <2>1. /\ UNCHANGED <<out, served, wire, loop, hand, link, conn>>
        /\ \A d \in Dials : pc'[d] = "done" <=> pc[d] = "done"
    BY <1>1 DEF Call
  <2>2. QED
    BY <2>1, OpenedQuiet DEF Opened
<1>2. CASE \E x \in Closes : Close(x)
  <2>1. /\ UNCHANGED <<out, served, wire, loop, hand, conn>>
        /\ \A d \in Dials : pc'[d] = pc[d]
        /\ \A i \in Conns : link'[i] = link[i] \/ link'[i] = "closed"
    BY <1>2 DEF Close, Closed
  <2>2. QED
    BY <2>1, OpenedQuiet DEF Opened
<1>3. CASE AcceptClosed \/ CloseServer
  BY <1>3, OpenedQuiet DEF AcceptClosed, CloseServer, Opened
<1>4. QED
  BY <1>1, <1>2, <1>3

LEMMA OpenedLoop ==
  ASSUME Typed, Opened, NEW i \in Conns,
         AcceptStream(i) \/ AcceptStreamFail(i) \/ Offer(i) \/ OfferDone(i)
  PROVE  Opened'
<1>0. Basics
  BY TypedBasics
<1>1. CASE AcceptStream(i)
  <2> DEFINE q == wire[i]
             x == Head(q)
  <2>1. /\ UNCHANGED <<pc, conn, link, out, served>> /\ q \in Seq(Dials) /\ q /= <<>>
        /\ hand'[i] = x /\ wire'[i] = Tail(q) /\ loop'[i] = "send" /\ loop[i] = "accept"
        /\ \A k \in Conns \ {i} :
             hand'[k] = hand[k] /\ wire'[k] = wire[k] /\ loop'[k] = loop[k]
    BY <1>0, <1>1 DEF Basics, AcceptStream, clientVars, linkVars
  <2>2. Holds(q, x) /\ \A d : Holds(Tail(q), d) => Holds(q, d)
    BY <2>1, HoldsTail
  <2>3. x \in Dials
    BY <2>1
  <2>4. Holds(wire[i], x)
    BY <2>2
  <2>5. \A d \in Dials : Holds(wire'[i], d) => Holds(wire[i], d)
    BY <2>1, <2>2
  <2> HIDE DEF q, x
  <2>6. pc[x] = "done" /\ conn[x] = i
    BY <2>3, <2>4 DEF Opened
  <2>7. \A d \in Dials, k \in Conns : Holds(wire'[k], d) => Holds(wire[k], d)
    BY <2>1, <2>5
  <2>8. QED
    BY <2>1, <2>6, <2>7 DEF Opened
<1>2. CASE Offer(i)
  <2> DEFINE x == hand[i]
  <2>1. /\ UNCHANGED <<pc, conn, link, served, wire>> /\ out' = Append(out, x)
        /\ x \in Dials /\ loop[i] = "send"
        /\ \A k \in Conns : \/ k = i /\ loop'[k] = "accept"
                            \/ k /= i /\ hand'[k] = hand[k] /\ loop'[k] = loop[k]
    BY <1>0, <1>2 DEF Basics, Offer, clientVars, linkVars
  <2>2. pc[x] = "done" /\ link[i] \notin {"none", "shaking"}
    BY <2>1 DEF Opened
  <2> HIDE DEF x
  <2>3. \A d : Holds(out', d) <=> Holds(out, d) \/ d = x
    BY <1>0, <2>1, HoldsAppend DEF Basics
  <2>4. QED
    BY <2>1, <2>2, <2>3 DEF Opened
<1>3. CASE AcceptStreamFail(i) \/ OfferDone(i)
  <2>1. /\ UNCHANGED <<pc, conn, out, served>> /\ wire'[i] = <<>> /\ loop'[i] = "exited"
        /\ \A k \in Conns \ {i} : /\ hand'[k] = hand[k] /\ wire'[k] = wire[k]
                                  /\ loop'[k] = loop[k] /\ link'[k] = link[k]
    BY <1>0, <1>3 DEF Basics, AcceptStreamFail, OfferDone, LoopEnds, SetLink, clientVars, linkVars
  <2>2. loop[i] \in {"accept", "send"} /\ link[i] \notin {"none", "shaking"}
    BY <1>3 DEF AcceptStreamFail, OfferDone, Opened
  <2>3. link'[i] \notin {"none", "shaking"}
    BY <1>0, <1>3, <2>2 DEF Basics, AcceptStreamFail, OfferDone, LoopEnds, SetLink, Closed
  <2>4. \A d \in Dials, k \in Conns : Holds(wire'[k], d) => Holds(wire[k], d)
    BY <2>1, HoldsNothing
  <2>5. QED
    BY <2>1, <2>3, <2>4 DEF Opened
<1>4. QED
  BY <1>1, <1>2, <1>3

LEMMA OpenedAccept ==
  ASSUME Typed, Opened, Accept
  PROVE  Opened'
<1> DEFINE x == Head(out)
<1>1. /\ UNCHANGED <<pc, conn, link, loop, hand, wire>> /\ out /= <<>>
      /\ out' = Tail(out) /\ served' = Append(served, x) /\ x \in Dials
      /\ out \in Seq(Dials) /\ served \in Seq(Dials)
  BY TypedBasics DEF Basics, Accept, clientVars, linkVars
<1>2. Holds(out, x) /\ \A d : Holds(out', d) => Holds(out, d)
  BY <1>1, HoldsTail
<1> HIDE DEF x
<1>3. \A d : Holds(served', d) <=> Holds(served, d) \/ d = x
  BY <1>1, HoldsAppend
<1>4. QED
  BY <1>1, <1>2, <1>3 DEF Opened

LEMMA OpenedStep == Typed /\ Sessions /\ Opened /\ [Next]_vars => Opened'
<1> SUFFICES ASSUME Typed, Sessions, Opened, [Next]_vars PROVE Opened'
  OBVIOUS
<1>1. CASE UNCHANGED vars
  BY <1>1, OpenedQuiet DEF vars, clientVars, linkVars, serverVars, Opened
<1>2. CASE Next
  BY <1>2, OpenedDial, OpenedLinks, OpenedCalls, OpenedLoop, OpenedAccept DEF Next
<1>3. QED
  BY <1>1, <1>2

\* What is on its way from session i: in the channel, and not yet in it.
Of(i) == {d \in Dials : conn[d] = i}
Ahead(i) == Selected(out, Of(i))
Behind(i) == IF loop[i] = "send" THEN <<hand[i]>> \o wire[i] ELSE wire[i]

LEMMA TwoParts ==
  ASSUME NEW i \in Conns
  PROVE  Typed => /\ Undelivered(i) = Ahead(i) \o Behind(i)
                  /\ Ahead(i) \in Seq(Dials) /\ Behind(i) \in Seq(Dials)
<1> SUFFICES ASSUME Typed
             PROVE  /\ Undelivered(i) = Ahead(i) \o Behind(i)
                    /\ Ahead(i) \in Seq(Dials) /\ Behind(i) \in Seq(Dials)
  OBVIOUS
<1>1. Undelivered(i) = Ahead(i) \o Behind(i)
  BY DEF Undelivered, Ahead, Behind, Of
<1>2. /\ out \in Seq(Dials) /\ wire[i] \in Seq(Dials)
      /\ loop[i] = "send" => hand[i] \in Dials
  BY TypedBasics DEF Basics
<1>3. Ahead(i) \in Seq(Dials)
  BY <1>2, SelectedTyped DEF Ahead
<1>4. Behind(i) \in Seq(Dials)
  <2>1. CASE loop[i] = "send"
    <3>1. <<hand[i]>> \in Seq(Dials)
      BY <1>2, <2>1
    <3>2. Behind(i) = <<hand[i]>> \o wire[i]
      BY <2>1 DEF Behind
    <3>3. QED
      BY <1>2, <3>1, <3>2, ConcatProperties
  <2>2. CASE loop[i] /= "send"
    BY <1>2, <2>2 DEF Behind
  <2>3. QED
    BY <2>1, <2>2
<1>5. QED
  BY <1>1, <1>3, <1>4

LEMMA PartsAfter ==
  ASSUME NEW i \in Conns
  PROVE  Typed' => (/\ Undelivered(i) = Ahead(i) \o Behind(i)
                    /\ Ahead(i) \in Seq(Dials) /\ Behind(i) \in Seq(Dials))'
<1>1. Typed => /\ Undelivered(i) = Ahead(i) \o Behind(i)
               /\ Ahead(i) \in Seq(Dials) /\ Behind(i) \in Seq(Dials)
  BY TwoParts
<1>2. QED
  BY <1>1, PTL

LEMMA PartsStep ==
  ASSUME Typed, Typed', NEW i \in Conns
  PROVE  /\ Undelivered(i) = Ahead(i) \o Behind(i)
         /\ Undelivered(i)' = Ahead(i)' \o Behind(i)'
         /\ Ahead(i) \in Seq(Dials) /\ Behind(i) \in Seq(Dials)
         /\ Ahead(i)' \in Seq(Dials) /\ Behind(i)' \in Seq(Dials)
BY TwoParts, PartsAfter

\* A connection that is going down stays down.
Falls == \A i \in Conns : link[i] \in Down => link'[i] \in Down

\* A step that moves no stream in or out is a step of Shut.
LEMMA QuietStep ==
  ASSUME served' = served, done => done', Falls,
         \A i \in Conns : Undelivered(i)' = Undelivered(i)
  PROVE  F!Shut
BY DEF F!Shut, Falls

\* Steps that leave the channel and the loops alone; the connection of a call
\* may change as long as its stream is not in the channel.
LEMMA StillStep ==
  ASSUME Typed, Opened, UNCHANGED <<out, served, wire, loop, hand>>, done => done', Falls,
         \A d \in Dials : pc[d] = "done" => conn'[d] = conn[d]
  PROVE  F!Shut
<1>1. ASSUME NEW i \in Conns
      PROVE  Undelivered(i)' = Undelivered(i)
  <2>1. Behind(i)' = Behind(i)
    BY DEF Behind
  <2>2. Ahead(i)' = Selected(out, Of(i)')
    BY DEF Ahead
  <2>3. \A k \in 1 .. Len(out) : out[k] \in Of(i) <=> out[k] \in Of(i)'
    <3>1. \A k \in 1 .. Len(out) : out[k] \in Dials /\ Holds(out, out[k])
      BY TypedBasics DEF Basics, Holds
    <3>2. \A k \in 1 .. Len(out) : conn'[out[k]] = conn[out[k]]
      BY <3>1 DEF Opened
    <3>3. QED
      BY <3>1, <3>2 DEF Of
  <2>4. Selected(out, Of(i)) = Selected(out, Of(i)')
    BY <2>3, TypedBasics, SelectedSame DEF Basics
  <2>5. Undelivered(i) = Ahead(i) \o Behind(i) /\ Undelivered(i)' = Ahead(i)' \o Behind(i)'
    BY DEF Undelivered, Ahead, Behind, Of
  <2>6. QED
    BY <2>1, <2>2, <2>4, <2>5 DEF Ahead
<1>2. QED
  BY <1>1, QuietStep

\* A stream on its way has been opened.
LEMMA OnItsWay ==
  ASSUME Typed, Opened, NEW i \in Conns, NEW d \in Dials, Contains(Undelivered(i), d)
  PROVE  pc[d] = "done"
<1>1. PICK k \in 1 .. Len(Undelivered(i)) : Undelivered(i)[k] = d
  BY DEF Contains
<1>2. /\ out \in Seq(Dials) /\ wire[i] \in Seq(Dials)
      /\ Undelivered(i) = Ahead(i) \o Behind(i)
      /\ Ahead(i) \in Seq(Dials) /\ Behind(i) \in Seq(Dials)
  BY TwoParts, TypedBasics DEF Basics
<1>3. Holds(Ahead(i), d) \/ Holds(Behind(i), d)
  BY <1>1, <1>2, ConcatProperties DEF Holds
<1>4. CASE Holds(Ahead(i), d)
  <2>1. Holds(out, d)
    <3>1. PICK n \in 1 .. Len(Ahead(i)) : Ahead(i)[n] = d
      BY <1>4 DEF Holds
    <3>2. \E j \in 1 .. Len(out) : out[j] \in Of(i) /\ Ahead(i)[n] = out[j]
      BY <1>2, SelectedFrom DEF Ahead
    <3>3. QED
      BY <3>1, <3>2 DEF Holds
  <2>2. QED
    BY <2>1 DEF Opened
<1>5. CASE Holds(Behind(i), d)
  <2>1. Holds(wire[i], d) \/ (loop[i] = "send" /\ hand[i] = d)
    <3>1. CASE loop[i] = "send"
      <4>1. Behind(i) = <<hand[i]>> \o wire[i]
        BY <3>1 DEF Behind
      <4>2. QED
        BY <1>2, <1>5, <3>1, <4>1 DEF Holds
    <3>2. CASE loop[i] /= "send"
      BY <1>5, <3>2 DEF Behind
    <3>3. QED
      BY <3>1, <3>2
  <2>2. QED
    BY <2>1 DEF Opened
<1>6. QED
  BY <1>3, <1>4, <1>5

LEMMA OpenStreamStep ==
  ASSUME Typed, Typed', Opened, NEW d \in Dials, OpenStream(d), NEW i \in Conns, i = session
  PROVE  F!Arrive(d, i) \/ F!Shut
<1>1. /\ i \in Conns /\ pc[d] /= "done" /\ conn' = [conn EXCEPT ![d] = i]
      /\ UNCHANGED <<out, served, loop, hand, link, done>>
      /\ conn \in [Dials -> 0 .. MaxConns] /\ wire \in [Conns -> Seq(Dials)]
      /\ \A k \in Conns : loop[k] = "send" => hand[k] \in Dials
      /\ out \in Seq(Dials)
  BY TypedBasics DEF Basics, OpenStream, Typed, Locking, linkVars, serverVars
<1>2. Falls
  BY <1>1 DEF Falls
<1>3. CASE link[session] /= "up"
  <2>1. wire' = wire
    BY <1>3 DEF OpenStream
  <2>2. QED
    BY <1>1, <1>2, <2>1, StillStep
<1>4. CASE link[session] = "up"
  <2>1. wire' = [wire EXCEPT ![i] = Append(@, d)]
    BY <1>4 DEF OpenStream
  <2>2. \A k \in Conns : Ahead(k)' = Ahead(k)
    <3>1. \A n \in 1 .. Len(out) : out[n] \in Dials /\ Holds(out, out[n])
      BY <1>1 DEF Holds
    <3>2. \A n \in 1 .. Len(out) : out[n] /= d
      BY <1>1, <3>1 DEF Opened
    <3>3. ASSUME NEW k \in Conns
          PROVE  \A n \in 1 .. Len(out) : out[n] \in Of(k) <=> out[n] \in Of(k)'
      BY <1>1, <3>1, <3>2 DEF Of
    <3>4. \A k \in Conns : Ahead(k)' = Selected(out, Of(k)')
      BY <1>1 DEF Ahead
    <3>5. QED
      BY <1>1, <3>3, <3>4, SelectedSame DEF Ahead
  <2>3. \A k \in Conns \ {i} : Behind(k)' = Behind(k)
    BY <1>1, <2>1 DEF Behind
  <2>4. Behind(i)' = Append(Behind(i), d)
    <3> DEFINE w == wire[i]
    <3>1. w \in Seq(Dials) /\ wire'[i] = Append(w, d)
      BY <1>1, <2>1
    <3>2. CASE loop[i] = "send"
      <4> DEFINE h == <<hand[i]>>
      <4>1. Behind(i) = h \o w /\ Behind(i)' = h \o Append(w, d)
        BY <1>1, <3>1, <3>2 DEF Behind
      <4>2. h \in Seq(Dials)
        BY <1>1, <3>2
      <4> HIDE DEF h, w
      <4>3. h \o Append(w, d) = Append(h \o w, d)
        BY <3>1, <4>2, AppendConcat
      <4>4. QED
        BY <4>1, <4>3
    <3>3. CASE loop[i] /= "send"
      BY <1>1, <3>1, <3>3 DEF Behind
    <3>4. QED
      BY <3>2, <3>3
  <2>5. \A k \in Conns \ {i} : Undelivered(k)' = Undelivered(k)
    BY <2>2, <2>3, PartsStep
  <2>6. Undelivered(i)' = Append(Undelivered(i), d)
    <3> DEFINE a == Ahead(i)
               b == Behind(i)
    <3>1. /\ a \in Seq(Dials) /\ b \in Seq(Dials)
          /\ Undelivered(i) = a \o b /\ Undelivered(i)' = a \o Append(b, d)
      BY <1>1, <2>2, <2>4, PartsStep
    <3> HIDE DEF a, b
    <3>2. a \o Append(b, d) = Append(a \o b, d)
      BY <3>1, AppendConcat
    <3>3. QED
      BY <3>1, <3>2
  <2> DEFINE P == [k \in Conns |-> Undelivered(k)]
  <2>7. P' = [P EXCEPT ![i] = Append(@, d)]
    BY <1>1, <2>5, <2>6
  <2>8. \A k \in Conns : ~F!Contains(P[k], d)
    <3>1. \A k \in Conns : ~Contains(Undelivered(k), d)
      BY <1>1, OnItsWay
    <3>2. QED
      BY <3>1 DEF Contains, F!Contains
  <2>9. ~F!Contains(served, d)
    BY <1>1 DEF Opened, Holds, F!Contains
  <2>10. {k \in Conns : done' \/ link'[k] \in Down} = {k \in Conns : done \/ link[k] \in Down}
    BY <1>1
  <2>11. F!Arrive(d, i)
    BY <1>1, <2>7, <2>8, <2>9, <2>10 DEF F!Arrive
  <2>12. QED
    BY <2>11
<1>5. QED
  BY <1>3, <1>4

LEMMA AcceptStreamStep ==
  ASSUME Typed, NEW i \in Conns, AcceptStream(i)
  PROVE  F!Shut
<1> DEFINE q == wire[i]
<1>1. /\ UNCHANGED <<conn, link, done, out, served>> /\ q \in Seq(Dials) /\ q /= <<>>
      /\ hand'[i] = Head(q) /\ wire'[i] = Tail(q) /\ loop'[i] = "send" /\ loop[i] = "accept"
      /\ \A k \in Conns \ {i} : hand'[k] = hand[k] /\ wire'[k] = wire[k] /\ loop'[k] = loop[k]
  BY TypedBasics DEF Basics, AcceptStream, clientVars, linkVars
<1>2. \A k \in Conns : Ahead(k)' = Ahead(k)
  BY <1>1 DEF Ahead, Of
<1>3. \A k \in Conns \ {i} : Behind(k)' = Behind(k)
  BY <1>1 DEF Behind
<1>4. Behind(i)' = Behind(i)
  <2>1. Behind(i)' = <<Head(q)>> \o Tail(q) /\ Behind(i) = q
    BY <1>1 DEF Behind
  <2> HIDE DEF q
  <2>2. <<Head(q)>> \o Tail(q) = q
    BY <1>1, HeadTailConcat
  <2>3. QED
    BY <2>1, <2>2
<1>5. \A k \in Conns : Undelivered(k) = Ahead(k) \o Behind(k)
                       /\ Undelivered(k)' = Ahead(k)' \o Behind(k)'
  BY DEF Undelivered, Ahead, Behind, Of
<1>6. \A k \in Conns : Undelivered(k)' = Undelivered(k)
  BY <1>2, <1>3, <1>4, <1>5
<1>7. QED
  BY <1>1, <1>6, QuietStep DEF Falls

LEMMA OfferStep ==
  ASSUME Typed, Typed', Opened, NEW i \in Conns, Offer(i)
  PROVE  F!Shut
<1> DEFINE x == hand[i]
<1>1. /\ UNCHANGED <<conn, link, done, served, wire>> /\ out' = Append(out, x)
      /\ x \in Dials /\ loop[i] = "send" /\ loop'[i] = "accept" /\ out \in Seq(Dials)
      /\ \A k \in Conns \ {i} : hand'[k] = hand[k] /\ loop'[k] = loop[k]
      /\ wire[i] \in Seq(Dials)
  BY TypedBasics DEF Basics, Offer, clientVars, linkVars
<1>2. x = hand[i] /\ conn[x] = i
  BY <1>1 DEF Opened
<1> HIDE DEF x
<1>3. \A k \in Conns : Ahead(k)' = Ahead(k) \o One(x, Of(k))
  BY <1>1, SelectedAppend DEF Ahead, Of
<1>4. ASSUME NEW k \in Conns \ {i}
      PROVE  Undelivered(k)' = Undelivered(k)
  <2>1. Behind(k)' = Behind(k)
    BY <1>1 DEF Behind
  <2>2. One(x, Of(k)) = <<>>
    BY <1>2 DEF Of, One
  <2>3. Ahead(k) \in Seq(Dials)
    BY TwoParts
  <2>4. Ahead(k)' = Ahead(k)
    BY <1>3, <2>2, <2>3, ConcatEmptySeq
  <2>5. QED
    BY <2>1, <2>4, PartsStep
<1>5. Undelivered(i)' = Undelivered(i)
  <2> DEFINE a == Ahead(i)
             w == wire[i]
             h == <<x>>
  <2>1. One(x, Of(i)) = h
    BY <1>1, <1>2 DEF Of, One
  <2>2. Behind(i) = h \o w /\ Behind(i)' = w
    BY <1>1, <1>2 DEF Behind
  <2>3. Undelivered(i) = a \o (h \o w) /\ Undelivered(i)' = (a \o h) \o w
    BY <1>3, <2>1, <2>2, PartsStep
  <2>4. a \in Seq(Dials) /\ h \in Seq(Dials) /\ w \in Seq(Dials)
    BY <1>1, TwoParts
  <2> HIDE DEF a, w, h
  <2>5. a \o (h \o w) = (a \o h) \o w
    BY <2>4, ConcatAssociative
  <2>6. QED
    BY <2>3, <2>5
<1>6. QED
  BY <1>1, <1>4, <1>5, QuietStep DEF Falls

\* A loop that ends abandons what it has not put in the channel, and only when
\* its connection is down or the server is closed.
LEMMA LoopEndStep ==
  ASSUME Typed, Typed', Opened, NEW i \in Conns, AcceptStreamFail(i) \/ OfferDone(i)
  PROVE  F!Abandon(i)
<1>1. /\ UNCHANGED <<conn, out, served, done>> /\ wire'[i] = <<>> /\ loop'[i] = "exited"
      /\ done \/ link[i] \in Down
      /\ \A k \in Conns \ {i} : /\ hand'[k] = hand[k] /\ wire'[k] = wire[k]
                                /\ loop'[k] = loop[k] /\ link'[k] = link[k]
      /\ link[i] \in Down => link'[i] = link[i]
  BY TypedBasics DEF Basics, AcceptStreamFail, OfferDone, LoopEnds, SetLink, Closed, Down,
     clientVars, linkVars
<1>2. \A k \in Conns : Ahead(k)' = Ahead(k)
  BY <1>1 DEF Ahead, Of
<1>3. \A k \in Conns \ {i} : Behind(k)' = Behind(k)
  BY <1>1 DEF Behind
<1>4. Behind(i)' = <<>>
  BY <1>1 DEF Behind
<1>5. \A k \in Conns \ {i} : Undelivered(k)' = Undelivered(k)
  BY <1>2, <1>3, PartsStep
<1>6. Undelivered(i)' = Ahead(i)
  <2>1. Ahead(i) \in Seq(Dials)
    BY TwoParts
  <2>2. QED
    BY <1>2, <1>4, <2>1, ConcatEmptySeq, PartsStep
<1>7. \E n \in 0 .. Len(Undelivered(i)) : Undelivered(i)' = SubSeq(Undelivered(i), 1, n)
  <2> DEFINE a == Ahead(i)
             b == Behind(i)
  <2>1. a \in Seq(Dials) /\ b \in Seq(Dials) /\ Undelivered(i) = a \o b
    BY TwoParts
  <2> HIDE DEF a, b
  <2>2. \E n \in 0 .. Len(a \o b) : a = SubSeq(a \o b, 1, n)
    BY <2>1, PrefixOfConcat
  <2>3. QED
    BY <1>6, <2>1, <2>2 DEF a
<1>8. QED
  <2> DEFINE P == [k \in Conns |-> Undelivered(k)]
  <2>1. PICK n \in 0 .. Len(Undelivered(i)) : Undelivered(i)' = SubSeq(Undelivered(i), 1, n)
    BY <1>7
  <2>2. P' = [P EXCEPT ![i] = SubSeq(@, 1, n)] /\ n \in 0 .. Len(P[i])
    BY <1>5, <2>1
  <2>3. i \in {k \in Conns : done \/ link[k] \in Down}
    BY <1>1
  <2>4. {k \in Conns : done' \/ link'[k] \in Down} = {k \in Conns : done \/ link[k] \in Down}
    BY <1>1
  <2>5. QED
    BY <1>1, <2>2, <2>3, <2>4 DEF F!Abandon

LEMMA AcceptStep ==
  ASSUME Typed, Typed', Opened, NEW i \in Conns, i = conn[Head(out)], Accept
  PROVE  F!Deliver(i)
<1> DEFINE x == Head(out)
<1>1. /\ out /= <<>> /\ x \in Dials /\ out' = Tail(out) /\ served' = Append(served, x)
      /\ UNCHANGED <<conn, link, loop, hand, done, wire>> /\ out \in Seq(Dials)
      /\ i = conn[x] /\ x = Head(out)
  BY TypedBasics DEF Basics, Accept, clientVars, linkVars
<1> HIDE DEF x
<1>2. \A k \in Conns : Ahead(k) = One(x, Of(k)) \o Ahead(k)'
  BY <1>1, SelectedHead DEF Ahead, Of
<1>3. \A k \in Conns : Behind(k)' = Behind(k)
  BY <1>1 DEF Behind
<1>4. ASSUME NEW k \in Conns \ {i}
      PROVE  Undelivered(k)' = Undelivered(k)
  <2>1. One(x, Of(k)) = <<>>
    BY <1>1 DEF Of, One
  <2>2. Ahead(k)' \in Seq(Dials)
    BY PartsStep
  <2>3. Ahead(k)' = Ahead(k)
    BY <1>2, <2>1, <2>2, ConcatEmptySeq
  <2>4. QED
    BY <1>3, <2>3, PartsStep
<1>5. Undelivered(i) = <<x>> \o Undelivered(i)'
  <2> DEFINE a == Ahead(i)'
             b == Behind(i)
             h == <<x>>
  <2>1. One(x, Of(i)) = h
    BY <1>1 DEF Of, One
  <2>2. Undelivered(i) = (h \o a) \o b
    BY <1>2, <2>1, PartsStep
  <2>3. Undelivered(i)' = a \o b
    BY <1>3, PartsStep
  <2>4. h \in Seq(Dials) /\ a \in Seq(Dials) /\ b \in Seq(Dials)
    BY <1>1, PartsStep
  <2>5. h = <<x>>
    OBVIOUS
  <2> HIDE DEF a, b, h
  <2>6. h \o (a \o b) = (h \o a) \o b
    BY <2>4, ConcatAssociative
  <2>7. QED
    BY <2>2, <2>3, <2>5, <2>6
<1>6. /\ Undelivered(i) /= <<>> /\ Head(Undelivered(i)) = x
      /\ Tail(Undelivered(i)) = Undelivered(i)'
  <2> DEFINE u == Undelivered(i)'
  <2>1. u \in Seq(Dials)
    <3>1. u = Ahead(i)' \o Behind(i)'
      BY PartsStep
    <3>2. Ahead(i)' \in Seq(Dials) /\ Behind(i)' \in Seq(Dials)
      BY PartsStep
    <3> HIDE DEF u
    <3>3. QED
      BY <3>1, <3>2, ConcatProperties
  <2> HIDE DEF u
  <2>2. <<x>> \o u /= <<>> /\ Head(<<x>> \o u) = x /\ Tail(<<x>> \o u) = u
    BY <1>1, <2>1, HeadTailOfConcat
  <2>3. QED
    BY <1>5, <2>2 DEF u
<1>7. QED
  <2> DEFINE P == [k \in Conns |-> Undelivered(k)]
  <2>1. P[i] /= <<>> /\ P' = [P EXCEPT ![i] = Tail(@)]
    BY <1>4, <1>6
  <2>2. served' = Append(served, Head(P[i]))
    BY <1>1, <1>6
  <2>3. {k \in Conns : done' \/ link'[k] \in Down} = {k \in Conns : done \/ link[k] \in Down}
    BY <1>1
  <2>4. QED
    BY <2>1, <2>2, <2>3 DEF F!Deliver

LEMMA FanInStart == Init => F!Init
<1> SUFFICES ASSUME Init PROVE F!Init
  OBVIOUS
<1>1. ASSUME NEW i \in Conns
      PROVE  Undelivered(i) = <<>>
  <2>1. out = <<>> /\ Behind(i) = <<>>
    BY DEF Init, Behind
  <2>2. Undelivered(i) = Selected(<<>>, Of(i)) \o <<>>
    BY <2>1 DEF Undelivered, Behind, Of
  <2>3. Selected(<<>>, Of(i)) = <<>>
    BY SelectedEmpty
  <2>4. <<>> \o <<>> = <<>>
    OBVIOUS
  <2>5. QED
    BY <2>2, <2>3, <2>4
<1>2. served = <<>> /\ ~done /\ \A i \in Conns : link[i] \notin Down
  BY DEF Init, Down
<1>3. QED
  BY <1>1, <1>2 DEF F!Init

LEMMA FanInDial ==
  ASSUME Typed, Typed', Sessions, Opened, NEW d \in Dials, Lock(d) \/ DialStep(d)
  PROVE  F!Next
<1> USE TypedBasics DEF Basics, Goto, Return, SetLink, linkVars, serverVars
<1>1. F!Shut => F!Next
  BY DEF F!Next
<1>2. CASE Lock(d) \/ DialContextFail(d) \/ Handshake(d) \/ HandshakeFail(d)
             \/ OpenStreamFail(d) \/ OpenStreamFailAgain(d)
  <2>1. UNCHANGED <<out, served, wire, loop, hand, conn, done>>
    BY <1>2 DEF Lock, DialContextFail, Handshake, HandshakeFail, OpenStreamFail,
       OpenStreamFailAgain
  <2>2. Falls
    BY <1>2 DEF Falls, Lock, DialContextFail, Handshake, HandshakeFail, OpenStreamFail,
       OpenStreamFailAgain, Closed, Down
  <2>3. QED
    BY <1>1, <2>1, <2>2, StillStep
<1>3. CASE DialContext(d)
  <2>1. /\ UNCHANGED <<out, served, wire, loop, hand, done>> /\ pc[d] /= "done"
        /\ \A c \in Dials \ {d} : conn'[c] = conn[c]
        /\ used + 1 \in Conns /\ link' = [link EXCEPT ![used + 1] = "shaking"]
    BY <1>3, SmuxAssumption DEF DialContext, Typed, TypeOK, Conns
  <2>2. link[used + 1] = "none"
    BY <2>1 DEF Sessions, Links, Conns, Typed, TypeOK
  <2>3. Falls
    BY <2>1, <2>2 DEF Falls, Down
  <2>4. QED
    BY <1>1, <2>1, <2>3, StillStep
<1>4. CASE OpenStream(d)
  <2>1. session \in Conns
    BY <1>4 DEF OpenStream, Typed, Locking
  <2>2. PICK i \in Conns : i = session
    BY <2>1
  <2>3. F!Arrive(d, i) \/ F!Shut
    BY <1>4, <2>2, OpenStreamStep
  <2>4. QED
    BY <2>3 DEF F!Next
<1>5. QED
  BY <1>2, <1>3, <1>4 DEF DialStep

LEMMA FanInCalls ==
  ASSUME Typed, Opened,
         \/ \E x \in Dials \cup Closes : Call(x)
         \/ \E x \in Closes : Close(x)
         \/ \E i \in Conns :
              Fault(i) \/ KeepAliveFails(i) \/ HandleOuterFail(i)
         \/ AcceptClosed \/ CloseServer
         \/ UNCHANGED vars
  PROVE  F!Shut
<1>1. UNCHANGED <<out, served, wire, loop, hand, conn>> /\ (done => done')
  BY DEF Call, Close, Fault, KeepAliveFails, HandleOuterFail, AcceptClosed, CloseServer,
     vars, clientVars, linkVars, serverVars
<1>2. Falls
  BY TypedBasics DEF Basics, Falls, Down, SetLink, Closed, Call, Close, Fault, KeepAliveFails,
     HandleOuterFail, AcceptClosed, CloseServer, vars, linkVars
<1>3. QED
  BY <1>1, <1>2, StillStep

LEMMA HandleOuterStep ==
  ASSUME Typed, Opened, NEW i \in Conns, HandleOuter(i)
  PROVE  F!Shut
<1>1. /\ UNCHANGED <<out, served, wire, hand, conn, done>>
      /\ loop[i] = "idle" /\ loop' = [loop EXCEPT ![i] = "accept"]
      /\ link[i] = "shaking" /\ link' = [link EXCEPT ![i] = "up"]
  BY DEF HandleOuter, SetLink, clientVars, Opened
<1>2. \A k \in Conns : loop'[k] = "send" <=> loop[k] = "send"
  BY <1>1, TypedBasics DEF Basics
<1>3. \A k \in Conns : Undelivered(k)' = Undelivered(k)
  BY <1>1, <1>2 DEF Undelivered
<1>4. Falls
  BY <1>1, TypedBasics DEF Basics, Falls, Down
<1>5. QED
  BY <1>1, <1>3, <1>4, QuietStep

LEMMA FanInStep ==
  Typed /\ Typed' /\ Sessions /\ Opened /\ [Next]_vars => [F!Next]_(F!vars)
<1> SUFFICES ASSUME Typed, Typed', Sessions, Opened, [Next]_vars PROVE F!Next
  OBVIOUS
<1>1. F!Shut => F!Next
  BY DEF F!Next
<1>2. ASSUME NEW d \in Dials, Lock(d) \/ DialStep(d)
      PROVE  F!Next
  BY <1>2, FanInDial
<1>3. ASSUME NEW i \in Conns, HandleOuter(i) \/ AcceptStream(i) \/ Offer(i)
      PROVE  F!Next
  BY <1>1, <1>3, HandleOuterStep, AcceptStreamStep, OfferStep
<1>4. ASSUME NEW i \in Conns, AcceptStreamFail(i) \/ OfferDone(i)
      PROVE  F!Next
  <2>1. F!Abandon(i)
    BY <1>4, LoopEndStep
  <2>2. QED
    BY <2>1 DEF F!Next
<1>5. CASE Accept
  <2>1. conn[Head(out)] \in Conns
    <3>1. Head(out) \in Dials /\ Holds(out, Head(out))
      BY <1>5, HoldsTail, TypedBasics DEF Basics, Accept
    <3>2. QED
      BY <3>1 DEF Opened
  <2>2. PICK i \in Conns : i = conn[Head(out)]
    BY <2>1
  <2>3. F!Deliver(i)
    BY <1>5, <2>2, AcceptStep
  <2>4. QED
    BY <2>3 DEF F!Next
<1>6. QED
  BY <1>1, <1>2, <1>3, <1>4, <1>5, FanInCalls DEF Next

\* The streams of every session reach the caller of Accept in the order in
\* which they were opened, each at most once, and one is lost only when its
\* connection is down or the server closed (smuxtcp.go:129-160).
THEOREM FanInImplemented == Spec => ImplementsFanIn
<1>1. Spec => []Opened
  BY OpenedStart, OpenedStep, AlwaysSessions, PTL DEF Spec
<1>2. QED
  BY <1>1, AlwaysSessions, FanInStart, FanInStep, PTL DEF Spec, ImplementsFanIn, F!Spec
=============================================================================
