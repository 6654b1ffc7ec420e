------------------------------ MODULE TcpFront ------------------------------
(***************************************************************************)
(* One connection at the front door of the TCP transport: handleConn peeks *)
(* the first TLS record (peekClientHelloSNI), then terminates TLS itself   *)
(* or relays the raw bytes to the decoy site (forwardDecoy)                *)
(* (pkg/transport/tcp/server.go, sni.go).                                  *)
(*                                                                         *)
(* The peer's bytes are chunks 1, 2, ...: chunk 1 is the header of the     *)
(* first record and chunks 2 .. RecLen are its body.                       *)
(***************************************************************************)
EXTENDS Integers, Sequences, SequencesExt

CONSTANTS
  RecLen,         \* chunks of the first record
  MaxUp, MaxDown  \* bounds of the model: chunks the peer and the decoy send

ASSUME FrontAssumption == /\ RecLen \in Nat \ {0, 1}
                          /\ MaxUp \in Nat /\ MaxDown \in Nat

Pad == 0  \* zero bytes, which no chunk of the peer is

VARIABLES
  conf,      \* magic SNIs are configured (gated), a decoy is (decoy)
  hello,     \* the peer's first record
  pc,        \* phase of handleConn
  sent,      \* chunks the peer has sent
  taken,     \* chunks read from the peer's connection
  replay,    \* peekConn.replay
  seen,      \* chunks that TLS has read or the decoy was sent, in order
  peer,      \* the peer's end of its connection
  decoy,     \* the decoy's end of its connection
  dsent,     \* chunks the decoy has sent
  back,      \* chunks of the decoy the peer was sent
  copyUp, copyDown  \* the two copies of forwardDecoy

peerVars == <<sent, peer>>
decoyVars == <<dsent, decoy>>
readVars == <<taken, replay, seen>>
relayVars == <<back, copyUp, copyDown>>
given == <<conf, hello>>
vars == <<given, pc, peerVars, decoyVars, readVars, relayVars>>

\* An end has ended its sending half, is closed in order, so that everything
\* it sent can still be read, or has sent a reset, which it also does when
\* something is written to it after its close.
Conn == {"open", "ended", "closed", "reset"}
After == [open |-> {"ended", "closed", "reset"}, ended |-> {"closed", "reset"},
          closed |-> {"reset"}, reset |-> {}]
CopyPos == {"idle", "running", "done"}

TypeOK ==
  /\ conf \in [gated : BOOLEAN, decoy : BOOLEAN]
  /\ hello \in {"magic", "plain", "opaque"}
  /\ pc \in {"peek", "route", "tls", "dial", "relay", "tunnel", "closed"}
  /\ sent \in 0 .. MaxUp /\ taken \in 0 .. sent
  /\ replay \in Seq(0 .. RecLen) /\ Len(replay) <= RecLen
  /\ seen \in Seq(0 .. MaxUp)
  /\ peer \in Conn /\ decoy \in Conn
  /\ dsent \in 0 .. MaxDown /\ back \in 0 .. dsent
  /\ copyUp \in CopyPos /\ copyDown \in CopyPos

Init ==
  /\ conf \in [gated : BOOLEAN, decoy : BOOLEAN]
  /\ hello \in {"magic", "plain", "opaque"}
  /\ pc = "peek"
  /\ sent = 0 /\ taken = 0 /\ replay = <<>> /\ seen = <<>>
  /\ peer = "open" /\ decoy = "open"
  /\ dsent = 0 /\ back = 0 /\ copyUp = "idle" /\ copyDown = "idle"

Numbered(n) == [i \in 1 .. n |-> i]

-----------------------------------------------------------------------------
(* The peer and the decoy site.                                            *)

PeerSend ==
  /\ peer = "open" /\ sent < MaxUp
  /\ sent' = sent + 1
  /\ UNCHANGED <<given, pc, peer, decoyVars, readVars, relayVars>>

PeerEnds ==
  /\ peer' \in After[peer]
  /\ UNCHANGED <<given, pc, sent, decoyVars, readVars, relayVars>>

DecoySend ==
  /\ pc = "relay" /\ decoy = "open" /\ dsent < MaxDown
  /\ dsent' = dsent + 1
  /\ UNCHANGED <<given, pc, peerVars, decoy, readVars, relayVars>>

DecoyEnds ==
  /\ pc = "relay"
  /\ decoy' \in After[decoy]
  /\ UNCHANGED <<given, pc, peerVars, dsent, readVars, relayVars>>

-----------------------------------------------------------------------------
(* peekClientHelloSNI.                                                     *)

Peeked(raw) == replay' = raw /\ pc' = "route"

\* A header that is not one of a handshake record is all that is read.
PeekHeader ==
  /\ pc = "peek" /\ taken = 0 /\ sent >= 1
  /\ taken' = 1
  /\ IF hello = "opaque" THEN Peeked(<<1>>) ELSE UNCHANGED <<replay, pc>>
  /\ UNCHANGED <<given, seen, peerVars, decoyVars, relayVars>>

\* Variant: one Read of the body instead of io.ReadFull.
PeekBodyOnce ==
  /\ pc = "peek" /\ taken >= 1 /\ taken < sent
  /\ taken' = taken + 1
  /\ Peeked(Numbered(taken + 1))
  /\ UNCHANGED <<given, seen, peerVars, decoyVars, relayVars>>

PeekBody ==
  /\ pc = "peek" /\ taken >= 1 /\ taken < sent
  /\ taken' = taken + 1
  /\ IF taken + 1 = RecLen THEN Peeked(Numbered(RecLen)) ELSE UNCHANGED <<replay, pc>>
  /\ UNCHANGED <<given, seen, peerVars, decoyVars, relayVars>>

\* A body that is cut off is returned in its full length, the rest zero.
CutOff == [i \in 1 .. RecLen |-> IF i <= taken THEN i ELSE Pad]

\* Variant: no deadline, only the end of the input is noticed.
PeekFailOnEOF ==
  /\ pc = "peek" /\ taken = sent /\ peer /= "open"
  /\ IF taken = 0 THEN pc' = "closed" /\ UNCHANGED replay ELSE Peeked(CutOff)
  /\ UNCHANGED <<given, taken, seen, peerVars, decoyVars, relayVars>>

\* The 10 s deadline passes, or the input ends.
PeekFail ==
  /\ pc = "peek"
  /\ IF taken = 0 THEN pc' = "closed" /\ UNCHANGED replay ELSE Peeked(CutOff)
  /\ UNCHANGED <<given, taken, seen, peerVars, decoyVars, relayVars>>

-----------------------------------------------------------------------------
(* handleConn.                                                             *)

IsMagic == ~conf.gated \/ (hello = "magic" /\ replay = Numbered(RecLen))

Route ==
  /\ pc = "route"
  /\ pc' = CASE IsMagic -> "tls"
             [] ~IsMagic /\ conf.decoy -> "dial"
             [] OTHER -> "closed"
  /\ UNCHANGED <<given, peerVars, decoyVars, readVars, relayVars>>

\* Variant: what was peeked is forgotten.
ReadWithoutReplay ==
  /\ taken < sent
  /\ seen' = Append(seen, taken + 1) /\ taken' = taken + 1
  /\ UNCHANGED replay

\* peekConn.Read: first what was peeked, then the connection.
Read ==
  \/ /\ replay /= <<>>
     /\ seen' = Append(seen, Head(replay)) /\ replay' = Tail(replay)
     /\ UNCHANGED taken
  \/ /\ replay = <<>> /\ taken < sent
     /\ seen' = Append(seen, taken + 1) /\ taken' = taken + 1
     /\ UNCHANGED replay

\* The TLS and Noise handshakes, with the rest of their flights.
Handshake ==
  /\ pc = "tls" /\ Read
  /\ UNCHANGED <<given, pc, peerVars, decoyVars, relayVars>>

HandshakeOK ==
  /\ pc = "tls" /\ hello /= "opaque"
  /\ Len(seen) > RecLen /\ ~Contains(seen, Pad)
  /\ pc' = "tunnel"
  /\ UNCHANGED <<given, peerVars, decoyVars, readVars, relayVars>>

\* A handshake error or the 15 s deadline.
HandshakeFail ==
  /\ pc = "tls"
  /\ pc' = "closed"
  /\ UNCHANGED <<given, peerVars, decoyVars, readVars, relayVars>>

-----------------------------------------------------------------------------
(* forwardDecoy.                                                           *)

DialDecoy ==
  /\ pc = "dial"
  /\ pc' = "relay" /\ copyUp' = "running" /\ copyDown' = "running"
  /\ UNCHANGED <<given, peerVars, decoyVars, readVars, back>>

DialDecoyFail ==
  /\ pc = "dial"
  /\ pc' = "closed"
  /\ UNCHANGED <<given, peerVars, decoyVars, readVars, relayVars>>

CopyUp ==
  /\ pc = "relay" /\ copyUp = "running" /\ Read
  /\ UNCHANGED <<given, pc, peerVars, decoyVars, relayVars>>

\* Variant: a pause of the source is taken for its end.
CopyUpEndOnPause ==
  /\ pc = "relay" /\ copyUp = "running"
  /\ \/ replay = <<>> /\ taken = sent
     \/ decoy = "reset" /\ (replay /= <<>> \/ taken < sent)
  /\ copyUp' = "done"
  /\ UNCHANGED <<given, pc, peerVars, decoyVars, readVars, back, copyDown>>

\* The source has been read to its end or was reset, or there is something to
\* write and the destination was reset: a copy that waits for data does not
\* notice the latter.  A reset may be on its way while data still pass.
CopyUpEnd ==
  /\ pc = "relay" /\ copyUp = "running"
  /\ \/ replay = <<>> /\ (peer = "reset" \/ (peer /= "open" /\ taken = sent))
     \/ decoy = "reset" /\ (replay /= <<>> \/ taken < sent)
  /\ copyUp' = "done"
  /\ UNCHANGED <<given, pc, peerVars, decoyVars, readVars, back, copyDown>>

\* Variant: the answer is passed on without waiting for it.
CopyDownBlind ==
  /\ pc = "relay" /\ copyDown = "running" /\ back < MaxDown
  /\ back' = back + 1
  /\ UNCHANGED <<given, pc, peerVars, decoyVars, readVars, copyUp, copyDown>>

CopyDown ==
  /\ pc = "relay" /\ copyDown = "running" /\ back < dsent
  /\ back' = back + 1
  /\ UNCHANGED <<given, pc, peerVars, decoyVars, readVars, copyUp, copyDown>>

CopyDownEnd ==
  /\ pc = "relay" /\ copyDown = "running"
  /\ \/ decoy = "reset" \/ (decoy /= "open" /\ back = dsent)
     \/ peer = "reset" /\ back < dsent
  /\ copyDown' = "done"
  /\ UNCHANGED <<given, pc, peerVars, decoyVars, readVars, back, copyUp>>

\* Variant: the relay waits for both copies.
RelayEndOnBoth ==
  /\ pc = "relay" /\ copyUp = "done" /\ copyDown = "done"
  /\ pc' = "closed"
  /\ UNCHANGED <<given, peerVars, decoyVars, readVars, relayVars>>

\* The first copy that ends closes both connections.
RelayEnd ==
  /\ pc = "relay" /\ (copyUp = "done" \/ copyDown = "done")
  /\ pc' = "closed"
  /\ UNCHANGED <<given, peerVars, decoyVars, readVars, relayVars>>

-----------------------------------------------------------------------------
Peek == PeekHeader \/ PeekBody
Decoy == \/ DialDecoy \/ DialDecoyFail
         \/ CopyUp \/ CopyUpEnd \/ CopyDown \/ CopyDownEnd \/ RelayEnd

Next == \/ PeerSend \/ PeerEnds \/ DecoySend \/ DecoyEnds
        \/ Peek \/ PeekFail \/ Route
        \/ Handshake \/ HandshakeOK \/ HandshakeFail \/ Decoy

Spec == Init /\ [][Next]_vars

\* The goroutines run and the deadlines pass; the dial of the decoy has a
\* timeout.  The peer and the decoy owe nothing.
FairSpec ==
  /\ Spec
  /\ WF_vars(PeekFail) /\ WF_vars(Route) /\ WF_vars(HandshakeFail)
  /\ WF_vars(DialDecoy \/ DialDecoyFail)
  /\ WF_vars(CopyUp) /\ WF_vars(CopyUpEnd)
  /\ WF_vars(CopyDown) /\ WF_vars(CopyDownEnd) /\ WF_vars(RelayEnd)

-----------------------------------------------------------------------------
(* Properties.                                                             *)

\* The chunks of q are 1, 2, ... in this order, with padding anywhere between.
Consecutive(q) ==
  /\ \A i, j \in 1 .. Len(q) : i < j /\ q[j] /= Pad => q[i] < q[j]
  /\ \A j \in 1 .. Len(q) : q[j] > 1 => \E i \in 1 .. Len(q) : i < j /\ q[i] = q[j] - 1

\* Peeking loses, repeats and reorders nothing: what TLS or the decoy reads
\* is, padding aside, what the peer sent from its first byte on, wherever the
\* segments of the connection end (peekConn, server.go:205-219).
InOrder == Consecutive(seen) /\ \A i \in 1 .. Len(seen) : seen[i] <= sent

\* A peer whose first record holds a whole ClientHello with a magic SNI never
\* reaches the decoy, however TCP splits that record (decoy_test.go:138), unless
\* the record itself was cut off.
MagicBypassesDecoy ==
  conf.gated /\ hello = "magic" /\ pc \in {"dial", "relay"} =>
    Contains(seen \o replay, Pad)

\* A peer that stalls in the middle of its ClientHello or its handshake does
\* not hold the connection forever (the deadlines of server.go:102, 121, 157).
FrontDecides == pc \in {"peek", "route", "tls", "dial"} ~>
                  pc \in {"relay", "tunnel", "closed"}

\* A relay ends once the peer or the decoy has closed its connection, although
\* the other one stays and is silent (server.go:165-169).
Gone == {"closed", "reset"}
RelayReleases ==
  (pc = "relay" /\ (peer \in Gone \/ decoy \in Gone)) ~> pc = "closed"

\* "raw bytes are bidirectionally proxied" (server.go:7): the decoy is sent
\* what the peer sent and nothing else.
Transparent == copyUp /= "idle" => IsPrefix(seen, Numbered(sent))

\* What the decoy sent until its end of stream has been passed on.
Answered == decoy /= "open" /\ back = dsent
Relayed == pc = "closed" /\ copyUp /= "idle"

\* A peer that keeps its own side open gets the whole answer of a decoy that
\* ends or closes its connection in order: neither a pause of the peer nor data
\* that cross the answer make the relay close before (server.go:165-169).
AnswerPassedOn == Relayed /\ peer = "open" => decoy = "reset" \/ Answered

\* "active probers see exactly what the real decoy site would return"
\* (server.go:8): so does one that ends its sending half after its request.
AnswerComplete ==
  Relayed /\ peer \in {"open", "ended"} => decoy = "reset" \/ Answered
=============================================================================
