--------------------------- MODULE TcpFrontProofs ---------------------------
(***************************************************************************)
(* Proofs about the front door, for a first record of any length and any   *)
(* amount of data.                                                         *)
(***************************************************************************)
EXTENDS TcpFront, SequenceTheorems, TLAPS

Steps == {"peek", "route", "tls", "dial", "relay", "tunnel", "closed"}

\* Chunks that were handed on have been taken from the connection.
Taken ==
  /\ replay \in Seq(0 .. taken) /\ replay \in Seq(0 .. RecLen)
  /\ Len(replay) <= RecLen
  /\ seen \in Seq(0 .. taken)
  /\ pc = "peek" => replay = <<>> /\ seen = <<>> /\ taken < RecLen
  /\ pc = "route" => seen = <<>>

Plain ==
  /\ conf \in [gated : BOOLEAN, decoy : BOOLEAN]
  /\ hello \in {"magic", "plain", "opaque"}
  /\ pc \in Steps
  /\ sent \in 0 .. MaxUp /\ taken \in 0 .. sent
  /\ peer \in Conn /\ decoy \in Conn
  /\ dsent \in 0 .. MaxDown /\ back \in 0 .. dsent
  /\ copyUp \in CopyPos /\ copyDown \in CopyPos

Typed == Plain /\ Taken

LEMMA TypedStart == Init => Typed
BY FrontAssumption DEF Init, Typed, Plain, Taken, Steps, Conn, CopyPos

LEMMA ReadTyped ==
  ASSUME Typed, pc \in {"tls", "relay"}, Read
  PROVE  /\ taken' \in 0 .. sent
         /\ replay' \in Seq(0 .. taken') /\ replay' \in Seq(0 .. RecLen)
         /\ Len(replay') <= RecLen
         /\ seen' \in Seq(0 .. taken')
<1> USE FrontAssumption DEF Typed, Plain, Taken
<1>1. CASE replay /= <<>> /\ UNCHANGED taken
  <2>1. seen' = Append(seen, Head(replay)) /\ replay' = Tail(replay)
    BY <1>1 DEF Read
  <2>2. Head(replay) \in 0 .. taken
    BY <1>1
  <2>3. QED
    BY <1>1, <2>1, <2>2
<1>2. CASE replay = <<>> /\ taken < sent
  <2>1. /\ seen' = Append(seen, taken + 1) /\ taken' = taken + 1
        /\ replay' = replay
    BY <1>2 DEF Read
  <2>2. seen \in Seq(0 .. taken') /\ replay \in Seq(0 .. taken')
    <3>1. 0 .. taken \subseteq 0 .. taken'
      BY <2>1
    <3>2. QED
      BY <3>1, SeqMonotonic
  <2>3. QED
    BY <1>2, <2>1, <2>2
<1>3. QED
  BY <1>1, <1>2 DEF Read

LEMMA TypedPeek ==
  ASSUME Typed, Peek \/ PeekFail
  PROVE  Typed'
<1> USE FrontAssumption DEF Typed, Plain, Taken, Steps, Peeked
<1>1. CASE PeekHeader
  <2>1. taken' = 1 /\ 1 \in 0 .. sent /\ seen' = <<>> /\ RecLen > 1
    BY <1>1 DEF PeekHeader
  <2>2. UNCHANGED <<given, peerVars, decoyVars, relayVars>>
    BY <1>1 DEF PeekHeader
  <2>3. CASE hello = "opaque"
    <3>1. replay' = <<1>> /\ pc' = "route"
      BY <1>1, <2>3 DEF PeekHeader
    <3>2. QED
      BY <2>1, <2>2, <3>1 DEF given, peerVars, decoyVars, relayVars
  <2>4. CASE hello /= "opaque"
    <3>1. replay' = <<>> /\ pc' = "peek"
      BY <1>1, <2>4 DEF PeekHeader
    <3>2. QED
      BY <2>1, <2>2, <3>1 DEF given, peerVars, decoyVars, relayVars
  <2>5. QED
    BY <2>3, <2>4
<1>2. CASE PeekBody
  <2>1. Numbered(RecLen) \in Seq(0 .. RecLen) /\ Len(Numbered(RecLen)) = RecLen
    BY DEF Numbered
  <2>2. CASE taken + 1 = RecLen
    BY <1>2, <2>1, <2>2 DEF PeekBody, given, peerVars, decoyVars, relayVars
  <2>3. CASE taken + 1 /= RecLen
    BY <1>2, <2>3 DEF PeekBody, given, peerVars, decoyVars, relayVars
  <2>4. QED
    BY <2>2, <2>3
<1>3. CASE PeekFail
  <2>1. /\ CutOff \in Seq(0 .. taken) /\ CutOff \in Seq(0 .. RecLen)
        /\ Len(CutOff) = RecLen
    <3>1. \A i \in 1 .. RecLen : (IF i <= taken THEN i ELSE 0) \in 0 .. taken
      BY <1>3 DEF PeekFail
    <3>2. taken \in 0 .. RecLen
      BY <1>3 DEF PeekFail
    <3>3. CutOff \in Seq(0 .. taken) /\ Len(CutOff) = RecLen
      BY <3>1 DEF CutOff, Pad
    <3>4. QED
      BY <3>2, <3>3, SeqMonotonic
  <2>2. CASE taken = 0
    BY <1>3, <2>2 DEF PeekFail, given, peerVars, decoyVars, relayVars
  <2>3. CASE taken /= 0
    BY <1>3, <2>1, <2>3 DEF PeekFail, given, peerVars, decoyVars, relayVars
  <2>4. QED
    BY <2>2, <2>3
<1>4. QED
  BY <1>1, <1>2, <1>3 DEF Peek

LEMMA TypedRead ==
  ASSUME Typed, Handshake \/ CopyUp
  PROVE  Typed'
BY ReadTyped DEF Handshake, CopyUp, Typed, Plain, Taken, given, peerVars, decoyVars,
   relayVars

LEMMA TypedPeer ==
  ASSUME Typed, PeerSend \/ PeerEnds \/ DecoySend \/ DecoyEnds
  PROVE  Typed'
<1> USE FrontAssumption DEF Typed, given, peerVars, decoyVars, readVars, relayVars
<1>1. CASE PeerSend
  <2>1. sent' \in 0 .. MaxUp /\ taken' \in 0 .. sent'
    BY <1>1 DEF PeerSend, Plain
  <2>2. Plain'
    BY <1>1, <2>1 DEF PeerSend, Plain
  <2>3. Taken'
    BY <1>1 DEF PeerSend, Taken
  <2>4. QED
    BY <2>2, <2>3
<1>2. CASE PeerEnds
  <2>1. Plain'
    BY <1>2 DEF PeerEnds, Plain, Conn, After
  <2>2. Taken'
    BY <1>2 DEF PeerEnds, Taken
  <2>3. QED
    BY <2>1, <2>2
<1>3. CASE DecoySend
  <2>1. dsent' \in 0 .. MaxDown /\ back' \in 0 .. dsent'
    BY <1>3 DEF DecoySend, Plain
  <2>2. Plain'
    BY <1>3, <2>1 DEF DecoySend, Plain
  <2>3. Taken'
    BY <1>3 DEF DecoySend, Taken
  <2>4. QED
    BY <2>2, <2>3
<1>4. CASE DecoyEnds
  <2>1. Plain'
    BY <1>4 DEF DecoyEnds, Plain, Conn, After
  <2>2. Taken'
    BY <1>4 DEF DecoyEnds, Taken
  <2>3. QED
    BY <2>1, <2>2
<1>5. QED
  BY <1>1, <1>2, <1>3, <1>4

LEMMA TypedRest ==
  ASSUME Typed,
         \/ Route \/ HandshakeOK \/ HandshakeFail
         \/ DialDecoy \/ DialDecoyFail \/ CopyUpEnd \/ CopyDown \/ CopyDownEnd \/ RelayEnd
  PROVE  Typed'
<1> USE FrontAssumption DEF Typed, Plain, Taken, Steps, CopyPos, given, peerVars,
        decoyVars, readVars, relayVars
<1>1. CASE Route
  BY <1>1 DEF Route
<1>2. CASE HandshakeOK \/ HandshakeFail \/ DialDecoy \/ DialDecoyFail
  BY <1>2 DEF HandshakeOK, HandshakeFail, DialDecoy, DialDecoyFail
<1>3. CASE CopyUpEnd
  BY <1>3 DEF CopyUpEnd
<1>4. CASE CopyDown
  <2>1. back' \in 0 .. dsent' /\ dsent' = dsent
    BY <1>4 DEF CopyDown
  <2>2. QED
    BY <1>4, <2>1 DEF CopyDown
<1>5. CASE CopyDownEnd
  BY <1>5 DEF CopyDownEnd
<1>6. CASE RelayEnd
  BY <1>6 DEF RelayEnd
<1>7. QED
  BY <1>1, <1>2, <1>3, <1>4, <1>5, <1>6

LEMMA TypedStep == Typed /\ [Next]_vars => Typed'
<1> SUFFICES ASSUME Typed, [Next]_vars PROVE Typed'
  OBVIOUS
<1>1. CASE UNCHANGED vars
  BY <1>1 DEF vars, Typed, Plain, Taken, given, peerVars, decoyVars, readVars, relayVars
<1>2. CASE Next
  BY <1>2, TypedPeek, TypedRead, TypedPeer, TypedRest DEF Next, Decoy
<1>3. QED
  BY <1>1, <1>2

LEMMA AlwaysTyped == Spec => []Typed
BY TypedStart, TypedStep, PTL DEF Spec

\* Every variable keeps its type: what is replayed or handed on has been read
\* from the peer before (server.go:205-219).
THEOREM TypeCorrect == Spec => []TypeOK
<1>1. Typed => TypeOK
  <2> SUFFICES ASSUME Typed PROVE TypeOK
    OBVIOUS
  <2>1. 0 .. taken \subseteq 0 .. MaxUp
    BY FrontAssumption DEF Typed, Plain
  <2>2. seen \in Seq(0 .. MaxUp)
    BY <2>1, SeqMonotonic DEF Typed, Taken
  <2>3. QED
    BY <2>2 DEF Typed, Plain, Taken, TypeOK, Steps
<1>2. QED
  BY <1>1, AlwaysTyped, PTL

-----------------------------------------------------------------------------
(* Routing.                                                                *)

HasPad == Contains(seen, Pad) \/ Contains(replay, Pad)

\* What was peeked of a magic record is all of it, or was cut off and padded;
\* padding does not get lost on its way to the decoy.
Routing ==
  conf.gated /\ hello = "magic" =>
    /\ pc = "route" => replay = Numbered(RecLen) \/ HasPad
    /\ pc \in {"dial", "relay"} => HasPad

LEMMA ReadKeepsPad ==
  ASSUME Typed, pc \in {"tls", "relay"}, Read, HasPad
  PROVE  HasPad'
<1> USE DEF Typed, Plain, Taken, HasPad, Contains
<1>1. CASE /\ replay /= <<>>
           /\ seen' = Append(seen, Head(replay)) /\ replay' = Tail(replay)
  <2>1. ASSUME NEW i \in 1 .. Len(seen), seen[i] = Pad
        PROVE  HasPad'
    BY <1>1, <2>1
  <2>2. ASSUME NEW i \in 1 .. Len(replay), replay[i] = Pad
        PROVE  HasPad'
    <3>1. CASE i = 1
      <4>1. /\ Len(seen) + 1 \in 1 .. Len(seen')
            /\ seen'[Len(seen) + 1] = Pad
        BY <1>1, <2>2, <3>1
      <4>2. \E j \in 1 .. Len(seen') : seen'[j] = Pad
        BY <4>1
      <4>3. QED
        BY <4>2
    <3>2. CASE i > 1
      <4>1. i - 1 \in 1 .. Len(replay') /\ replay'[i - 1] = Pad
        BY <1>1, <2>2, <3>2
      <4>2. \E j \in 1 .. Len(replay') : replay'[j] = Pad
        BY <4>1
      <4>3. QED
        BY <4>2
    <3>3. QED
      BY <3>1, <3>2
  <2>3. QED
    BY <2>1, <2>2
<1>2. CASE replay = <<>> /\ seen' = Append(seen, taken + 1)
  <2>1. PICK i \in 1 .. Len(seen) : seen[i] = Pad
    BY <1>2
  <2>2. QED
    BY <1>2, <2>1
<1>3. QED
  BY <1>1, <1>2 DEF Read

LEMMA RoutingStep == Typed /\ Routing /\ [Next]_vars => Routing'
<1> SUFFICES ASSUME Typed, Routing, [Next]_vars PROVE Routing'
  OBVIOUS
<1> USE DEF Routing, HasPad
<1>1. CASE PeekHeader
  BY <1>1 DEF PeekHeader, Peeked, given
<1>2. CASE PeekBody
  BY <1>2 DEF PeekBody, Peeked, given, Typed, Taken
<1>3. CASE PeekFail
  <2>1. CASE taken = 0
    BY <1>3, <2>1 DEF PeekFail, given
  <2>2. CASE taken /= 0
    <3>1. RecLen \in 1 .. RecLen /\ taken < RecLen
      BY <1>3, FrontAssumption DEF PeekFail, Typed, Plain, Taken
    <3>2. Len(CutOff) = RecLen /\ CutOff[RecLen] = Pad
      BY <3>1, FrontAssumption DEF CutOff, Typed, Plain
    <3>3. Contains(CutOff, Pad)
      BY <3>1, <3>2 DEF Contains
    <3>4. QED
      BY <1>3, <2>2, <3>3 DEF PeekFail, Peeked, given
  <2>3. QED
    BY <2>1, <2>2
<1>4. CASE Route
  BY <1>4 DEF Route, IsMagic, given, readVars
<1>5. CASE Handshake \/ CopyUp
  BY <1>5, ReadKeepsPad DEF Handshake, CopyUp, given
<1>6. CASE \/ PeerSend \/ PeerEnds \/ DecoySend \/ DecoyEnds
           \/ HandshakeOK \/ HandshakeFail \/ DialDecoy \/ DialDecoyFail
           \/ CopyUpEnd \/ CopyDown \/ CopyDownEnd \/ RelayEnd
  BY <1>6 DEF PeerSend, PeerEnds, DecoySend, DecoyEnds, HandshakeOK, HandshakeFail,
     DialDecoy, DialDecoyFail, CopyUpEnd, CopyDown, CopyDownEnd, RelayEnd, given,
     readVars
<1>7. CASE UNCHANGED vars
  BY <1>7 DEF vars, given, readVars
<1>8. QED
  BY <1>1, <1>2, <1>3, <1>4, <1>5, <1>6, <1>7 DEF Next, Peek, Decoy

\* A peer whose ClientHello names a magic SNI is never relayed to the decoy,
\* for any length of the record and any way the peer's bytes arrive, unless
\* the record was cut off (server.go:102-118).
THEOREM MagicNeverDecoyed == Spec => []MagicBypassesDecoy
<1>1. Init => Routing
  BY DEF Init, Routing
<1>2. Typed /\ Routing => MagicBypassesDecoy
  <2> SUFFICES ASSUME Typed, HasPad PROVE Contains(seen \o replay, Pad)
    BY DEF Routing, MagicBypassesDecoy
  <2> DEFINE S == 0 .. taken
  <2>1. /\ seen \in Seq(S) /\ replay \in Seq(S)
        /\ Len(seen) \in Nat /\ Len(replay) \in Nat
    BY DEF Typed, Taken
  <2> HIDE DEF S
  <2>2. /\ Len(seen \o replay) = Len(seen) + Len(replay)
        /\ \A i \in 1 .. Len(seen) + Len(replay) :
             (seen \o replay)[i] = IF i <= Len(seen) THEN seen[i] ELSE replay[i - Len(seen)]
    BY <2>1, ConcatProperties
  <2>3. CASE Contains(seen, Pad)
    <3>1. PICK i \in 1 .. Len(seen) : seen[i] = Pad
      BY <2>3 DEF Contains
    <3>2. i \in 1 .. Len(seen) + Len(replay) /\ (seen \o replay)[i] = Pad
      BY <2>1, <2>2, <3>1
    <3>3. QED
      BY <2>2, <3>2 DEF Contains
  <2>4. CASE Contains(replay, Pad)
    <3>1. PICK i \in 1 .. Len(replay) : replay[i] = Pad
      BY <2>4 DEF Contains
    <3>2. /\ Len(seen) + i \in 1 .. Len(seen) + Len(replay)
          /\ (seen \o replay)[Len(seen) + i] = Pad
      BY <2>1, <2>2, <3>1
    <3>3. QED
      BY <2>2, <3>2 DEF Contains
  <2>5. QED
    BY <2>3, <2>4 DEF HasPad
<1>3. QED
  BY <1>1, <1>2, AlwaysTyped, RoutingStep, PTL DEF Spec

-----------------------------------------------------------------------------
(* The relay to the decoy.                                                 *)

\* Why a copy of the relay has ended.
Relaying ==
  /\ pc \notin {"relay", "closed"} => copyUp = "idle" /\ copyDown = "idle"
  /\ pc = "relay" /\ copyUp = "done" => peer /= "open" \/ decoy = "reset"
  /\ pc = "relay" /\ copyDown = "done" => peer = "reset" \/ decoy = "reset" \/ Answered

LEMMA RelayingStep ==
  Typed /\ Relaying /\ AnswerPassedOn /\ [Next]_vars => Relaying' /\ AnswerPassedOn'
<1> SUFFICES ASSUME Typed, Relaying, AnswerPassedOn, [Next]_vars
             PROVE  Relaying' /\ AnswerPassedOn'
  OBVIOUS
<1> USE DEF Typed, Plain, Relaying, AnswerPassedOn, Relayed, Answered, Conn, After,
        CopyPos, given, peerVars, decoyVars, relayVars
<1>1. CASE PeerSend \/ PeerEnds
  BY <1>1 DEF PeerSend, PeerEnds
<1>2. CASE DecoySend \/ DecoyEnds
  BY <1>2 DEF DecoySend, DecoyEnds
<1>3. CASE Peek \/ PeekFail
  BY <1>3 DEF Peek, PeekHeader, PeekBody, PeekFail, Peeked
<1>4. CASE Route \/ Handshake \/ HandshakeOK \/ HandshakeFail
  BY <1>4 DEF Route, Handshake, HandshakeOK, HandshakeFail
<1>5. CASE DialDecoy \/ DialDecoyFail
  BY <1>5 DEF DialDecoy, DialDecoyFail
<1>6. CASE CopyUp \/ CopyUpEnd
  BY <1>6 DEF CopyUp, CopyUpEnd
<1>7. CASE CopyDown \/ CopyDownEnd
  BY <1>7 DEF CopyDown, CopyDownEnd
<1>8. CASE RelayEnd
  BY <1>8 DEF RelayEnd
<1>9. CASE UNCHANGED vars
  BY <1>9 DEF vars
<1>10. QED
  BY <1>1, <1>2, <1>3, <1>4, <1>5, <1>6, <1>7, <1>8, <1>9 DEF Next, Decoy

\* A peer that keeps its side open gets all that a decoy sent before it ended or
\* closed its connection, unless that was reset (server.go:163-169).
THEOREM OpenPeerAnswered == Spec => []AnswerPassedOn
<1>1. Init => Relaying /\ AnswerPassedOn
  BY DEF Init, Relaying, AnswerPassedOn, Relayed
<1>2. QED
  BY <1>1, AlwaysTyped, RelayingStep, PTL DEF Spec

-----------------------------------------------------------------------------
(* InOrder.                                                                *)

\* What was read and what is kept to be read again are, one after the other,
\* the chunks taken from the connection, the last of them included.
Has(q, n) == n > 0 => \E i \in 1 .. Len(q) : q[i] = n
Arranged ==
  pc /= "peek" => Consecutive(seen \o replay) /\ Has(seen \o replay, taken)

LEMMA ConsecutiveAppend ==
  ASSUME NEW n \in Nat, NEW q \in Seq(0 .. n), Consecutive(q), Has(q, n)
  PROVE  Consecutive(Append(q, n + 1)) /\ Has(Append(q, n + 1), n + 1)
<1> DEFINE r == Append(q, n + 1)
<1>1. /\ Len(r) = Len(q) + 1 /\ r[Len(q) + 1] = n + 1 /\ Len(q) \in Nat
      /\ \A i \in 1 .. Len(q) : r[i] = q[i] /\ i \in 1 .. Len(r) /\ q[i] \in 0 .. n
      /\ \A i \in 1 .. Len(r) : i \in 1 .. Len(q) \/ i = Len(q) + 1
  OBVIOUS
<1> HIDE DEF r
<1>2. ASSUME NEW i \in 1 .. Len(r), NEW j \in 1 .. Len(r), i < j, r[j] /= Pad
      PROVE  r[i] < r[j]
  <2>1. i \in 1 .. Len(q) /\ r[i] = q[i] /\ q[i] \in 0 .. n
    BY <1>1, <1>2
  <2>2. CASE j \in 1 .. Len(q)
    BY <1>1, <1>2, <2>1, <2>2 DEF Consecutive
  <2>3. CASE j = Len(q) + 1
    BY <1>1, <2>1, <2>3
  <2>4. QED
    BY <1>1, <2>2, <2>3
<1>3. ASSUME NEW j \in 1 .. Len(r), r[j] > 1
      PROVE  \E i \in 1 .. Len(r) : i < j /\ r[i] = r[j] - 1
  <2>1. CASE j \in 1 .. Len(q)
    <3>1. PICK i \in 1 .. Len(q) : i < j /\ q[i] = q[j] - 1
      BY <1>1, <1>3, <2>1 DEF Consecutive
    <3>2. QED
      BY <1>1, <2>1, <3>1
  <2>2. CASE j = Len(q) + 1
    <3>1. r[j] = n + 1 /\ n > 0
      BY <1>1, <1>3, <2>2
    <3>2. PICK i \in 1 .. Len(q) : q[i] = n
      BY <3>1 DEF Has
    <3>3. i \in 1 .. Len(r) /\ i < j /\ r[i] = r[j] - 1
      BY <1>1, <2>2, <3>1, <3>2
    <3>4. QED
      BY <3>3
  <2>3. QED
    BY <1>1, <2>1, <2>2
<1>4. Has(r, n + 1)
  BY <1>1 DEF Has
<1>5. QED
  BY <1>2, <1>3, <1>4 DEF Consecutive, r

LEMMA MoveOne ==
  ASSUME NEW S, NEW s \in Seq(S), NEW t \in Seq(S), t /= <<>>
  PROVE  Append(s, Head(t)) \o Tail(t) = s \o t
<1> DEFINE a == Append(s, Head(t))
           b == Tail(t)
<1>1. /\ Head(t) \in S /\ Head(t) = t[1] /\ b \in Seq(S) /\ Len(b) = Len(t) - 1
      /\ Len(t) \in Nat \ {0} /\ Len(s) \in Nat
      /\ \A i \in 1 .. Len(b) : b[i] = t[i + 1]
  OBVIOUS
<1>2. /\ a \in Seq(S) /\ Len(a) = Len(s) + 1 /\ a[Len(s) + 1] = t[1]
      /\ \A i \in 1 .. Len(s) : a[i] = s[i]
  BY <1>1
<1> HIDE DEF a, b
<1>3. /\ a \o b \in Seq(S) /\ Len(a \o b) = Len(a) + Len(b)
      /\ \A i \in 1 .. Len(a) + Len(b) :
           (a \o b)[i] = IF i <= Len(a) THEN a[i] ELSE b[i - Len(a)]
  BY <1>1, <1>2, ConcatProperties
<1>4. /\ s \o t \in Seq(S) /\ Len(s \o t) = Len(s) + Len(t)
      /\ \A i \in 1 .. Len(s) + Len(t) :
           (s \o t)[i] = IF i <= Len(s) THEN s[i] ELSE t[i - Len(s)]
  BY ConcatProperties
<1> DEFINE m == Len(s)
           n == Len(t)
           la == Len(a)
           lb == Len(b)
<1>5. m \in Nat /\ n \in Nat \ {0} /\ la = m + 1 /\ lb = n - 1
  BY <1>1, <1>2
<1>6. Len(a \o b) = Len(s \o t)
  <2> HIDE DEF m, n, la, lb
  <2>1. la + lb = m + n
    BY <1>5
  <2>2. QED
    BY <1>3, <1>4, <2>1 DEF m, n, la, lb
<1>7. ASSUME NEW i \in 1 .. Len(a \o b)
      PROVE  (a \o b)[i] = (s \o t)[i]
  <2> HIDE DEF m, n, la, lb
  <2>1. i \in 1 .. la + lb /\ i \in 1 .. m + n
    BY <1>3, <1>4, <1>6 DEF m, n, la, lb
  <2>2. /\ (a \o b)[i] = IF i <= la THEN a[i] ELSE b[i - la]
        /\ (s \o t)[i] = IF i <= m THEN s[i] ELSE t[i - m]
    BY <1>3, <1>4, <2>1 DEF m, n, la, lb
  <2>3. CASE i <= m
    <3>1. i \in 1 .. m /\ i <= la
      BY <1>5, <2>1, <2>3
    <3>2. QED
      BY <1>2, <2>2, <2>3, <3>1 DEF m
  <2>4. CASE i = m + 1
    <3>1. i <= la /\ ~(i <= m) /\ i - m = 1
      BY <1>5, <2>4
    <3>2. QED
      BY <1>2, <2>2, <2>4, <3>1 DEF m
  <2>5. CASE i > m + 1
    <3>1. /\ ~(i <= la) /\ ~(i <= m) /\ i - la \in 1 .. lb /\ (i - la) + 1 = i - m
      BY <1>5, <2>1, <2>5
    <3>2. b[i - la] = t[(i - la) + 1]
      BY <1>1, <3>1 DEF lb
    <3>3. QED
      BY <2>2, <3>1, <3>2
  <2>6. i <= m \/ i = m + 1 \/ i > m + 1
    BY <1>5, <2>1
  <2>7. QED
    BY <2>3, <2>4, <2>5, <2>6
<1>8. a \o b = s \o t
  BY <1>3, <1>4, <1>6, <1>7, SeqEqual
<1>9. QED
  BY <1>8 DEF a, b

LEMMA ArrangedRead ==
  ASSUME Typed, Arranged, Handshake \/ CopyUp
  PROVE  Arranged'
<1>1. /\ pc' = pc /\ pc /= "peek" /\ Read
      /\ seen \in Seq(0 .. taken) /\ replay \in Seq(0 .. taken) /\ taken \in Nat
  BY FrontAssumption DEF Handshake, CopyUp, Typed, Plain, Taken
<1>2. Consecutive(seen \o replay) /\ Has(seen \o replay, taken)
  BY <1>1 DEF Arranged
<1>3. CASE replay /= <<>> /\ taken' = taken
  <2>1. seen' = Append(seen, Head(replay)) /\ replay' = Tail(replay)
    BY <1>1, <1>3 DEF Read
  <2>2. seen' \o replay' = seen \o replay
    BY <1>1, <1>3, <2>1, MoveOne
  <2>3. QED
    BY <1>2, <1>3, <2>2 DEF Arranged
<1>4. CASE replay = <<>>
  <2>1. seen' = Append(seen, taken + 1) /\ replay' = <<>> /\ taken' = taken + 1
    BY <1>1, <1>4 DEF Read
  <2>2. seen \o replay = seen /\ seen' \in Seq(Nat)
    BY <1>1, <1>4, <2>1, ConcatEmptySeq, FrontAssumption
  <2>3. seen' \o replay' = seen'
    BY <2>1, <2>2, ConcatEmptySeq
  <2>4. Consecutive(seen') /\ Has(seen', taken + 1)
    BY <1>1, <1>2, <2>1, <2>2, ConsecutiveAppend
  <2>5. QED
    BY <2>1, <2>3, <2>4 DEF Arranged
<1>5. QED
  BY <1>1, <1>3, <1>4 DEF Read

\* The three results of the peek.
LEMMA ArrangedPeek ==
  ASSUME Typed, Typed', Arranged, Peek \/ PeekFail
  PROVE  Arranged'
<1>1. ASSUME NEW raw \in Seq(Nat), Peeked(raw), Consecutive(raw), Has(raw, taken'), seen' = <<>>
      PROVE  Arranged'
  <2>1. seen' \o replay' = raw
    BY <1>1, ConcatEmptySeq DEF Peeked
  <2>2. QED
    BY <1>1, <2>1 DEF Arranged
<1>2. /\ pc = "peek" /\ seen' = <<>> /\ taken \in Nat /\ taken < RecLen /\ RecLen \in Nat
  <2>1. pc = "peek"
    BY DEF Peek, PeekHeader, PeekBody, PeekFail
  <2>2. QED
    BY <2>1, FrontAssumption DEF Peek, PeekHeader, PeekBody, PeekFail, Typed, Plain, Taken
<1>3. CASE PeekHeader
  <2>1. CASE hello = "opaque"
    <3> DEFINE r == <<1>>
    <3>1. r \in Seq(Nat) /\ Len(r) = 1 /\ r[1] = 1
      OBVIOUS
    <3>2. taken' = 1 /\ Peeked(r)
      BY <1>3, <2>1 DEF PeekHeader
    <3> HIDE DEF r
    <3>3. Consecutive(r) /\ Has(r, 1)
      BY <3>1 DEF Consecutive, Has
    <3>4. QED
      BY <1>1, <1>2, <3>1, <3>2, <3>3
  <2>2. CASE hello /= "opaque"
    BY <1>2, <1>3, <2>2 DEF PeekHeader, Arranged
  <2>3. QED
    BY <2>1, <2>2
<1>4. CASE PeekBody
  <2>1. CASE taken + 1 = RecLen
    <3> DEFINE r == Numbered(RecLen)
    <3>1. r \in Seq(Nat) /\ Len(r) = RecLen /\ \A i \in 1 .. RecLen : r[i] = i
      BY <1>2 DEF Numbered
    <3>2. taken' = RecLen /\ Peeked(r)
      BY <1>4, <2>1 DEF PeekBody
    <3> HIDE DEF r
    <3>3. Has(r, RecLen)
      BY <1>2, <3>1 DEF Has
    <3>4. Consecutive(r)
      <4>1. ASSUME NEW j \in 1 .. Len(r), r[j] > 1
            PROVE  \E i \in 1 .. Len(r) : i < j /\ r[i] = r[j] - 1
        <5>1. j - 1 \in 1 .. Len(r) /\ r[j - 1] = r[j] - 1 /\ j - 1 < j
          BY <1>2, <3>1, <4>1
        <5>2. QED
          BY <5>1
      <4>2. QED
        BY <1>2, <3>1, <4>1 DEF Consecutive
    <3>5. QED
      BY <1>1, <1>2, <3>1, <3>2, <3>3, <3>4
  <2>2. CASE taken + 1 /= RecLen
    BY <1>2, <1>4, <2>2 DEF PeekBody, Arranged
  <2>3. QED
    BY <2>1, <2>2
<1>5. CASE PeekFail
  <2>1. CASE taken = 0
    <3> DEFINE e == <<>>
    <3>1. /\ e \in Seq(Nat) /\ Len(e) = 0 /\ seen' = e /\ replay' = e /\ taken' = 0
      BY <1>2, <1>5, <2>1 DEF PeekFail, Typed, Taken
    <3>2. seen' \o replay' = e
      BY <3>1, ConcatEmptySeq
    <3> HIDE DEF e
    <3>3. QED
      BY <3>1, <3>2 DEF Arranged, Consecutive, Has
  <2>2. CASE taken /= 0
    <3> DEFINE r == CutOff
    <3>1. /\ r \in Seq(Nat) /\ Len(r) = RecLen
          /\ \A i \in 1 .. RecLen : r[i] = IF i <= taken THEN i ELSE Pad
      BY <1>2 DEF CutOff, Pad
    <3>2. taken' = taken /\ Peeked(r)
      BY <1>5, <2>2 DEF PeekFail
    <3> HIDE DEF r
    <3>3. Has(r, taken)
      <4>1. taken \in 1 .. RecLen
        BY <1>2, <2>2
      <4>2. r[taken] = taken
        BY <1>2, <3>1, <4>1
      <4>3. QED
        BY <3>1, <4>1, <4>2 DEF Has
    <3>4. Consecutive(r)
      <4>1. ASSUME NEW j \in 1 .. Len(r), r[j] > 1
            PROVE  \E i \in 1 .. Len(r) : i < j /\ r[i] = r[j] - 1
        <5>1. j <= taken /\ r[j] = j
          BY <1>2, <3>1, <4>1 DEF Pad
        <5>2. j - 1 \in 1 .. Len(r) /\ r[j - 1] = r[j] - 1 /\ j - 1 < j
          BY <1>2, <3>1, <4>1, <5>1
        <5>3. QED
          BY <5>2
      <4>2. ASSUME NEW i \in 1 .. Len(r), NEW j \in 1 .. Len(r), i < j, r[j] /= Pad
            PROVE  r[i] < r[j]
        BY <1>2, <3>1, <4>2
      <4>3. QED
        BY <4>1, <4>2 DEF Consecutive
    <3>5. QED
      BY <1>1, <1>2, <3>1, <3>2, <3>3, <3>4
  <2>3. QED
    BY <2>1, <2>2
<1>6. QED
  BY <1>3, <1>4, <1>5 DEF Peek

LEMMA ArrangedStep == Typed /\ Arranged /\ [Next]_vars => Arranged'
<1> SUFFICES ASSUME Typed, Arranged, [Next]_vars PROVE Arranged'
  OBVIOUS
<1>1. CASE Route \/ HandshakeOK \/ HandshakeFail \/ DialDecoy \/ DialDecoyFail \/ RelayEnd
  <2>1. UNCHANGED readVars /\ pc /= "peek"
    BY <1>1 DEF Route, HandshakeOK, HandshakeFail, DialDecoy, DialDecoyFail, RelayEnd
  <2>2. QED
    BY <2>1 DEF Arranged, readVars
<1>2. CASE \/ PeerSend \/ PeerEnds \/ DecoySend \/ DecoyEnds
           \/ CopyUpEnd \/ CopyDown \/ CopyDownEnd \/ UNCHANGED vars
  <2>1. UNCHANGED <<pc, readVars>>
    BY <1>2 DEF PeerSend, PeerEnds, DecoySend, DecoyEnds, CopyUpEnd, CopyDown, CopyDownEnd,
                vars
  <2>2. QED
    BY <2>1 DEF Arranged, readVars
<1>3. QED
  BY <1>1, <1>2, ArrangedPeek, ArrangedRead, TypedStep DEF Next, Decoy

\* What TLS or the decoy reads is, apart from padding, what the peer sent in
\* its order and from its first byte on, for a record of any length and any
\* way it is split or cut off (peekClientHelloSNI, peekConn.Read).
THEOREM PeekKeepsOrder == Spec => []InOrder
<1>1. Init => Arranged
  BY DEF Init, Arranged
<1>2. ASSUME Typed, Arranged
      PROVE  InOrder
  <2>1. /\ seen \in Seq(0 .. taken) /\ replay \in Seq(0 .. taken) /\ taken \in 0 .. sent
        /\ sent \in Nat
    BY <1>2, FrontAssumption DEF Typed, Plain, Taken
  <2>2. \A i \in 1 .. Len(seen) : seen[i] <= sent
    BY <2>1
  <2>3. CASE pc = "peek"
    <3>1. Len(seen) = 0
      BY <1>2, <2>3 DEF Typed, Taken
    <3>2. QED
      BY <3>1 DEF InOrder, Consecutive
  <2>4. CASE pc /= "peek"
    <3> DEFINE q == seen \o replay
               m == Len(seen)
               n == Len(replay)
    <3>1. Consecutive(q)
      BY <1>2, <2>4 DEF Arranged
    <3>2. /\ Len(q) = m + n /\ m \in Nat /\ n \in Nat
          /\ \A i \in 1 .. m + n : q[i] = IF i <= Len(seen) THEN seen[i] ELSE replay[i - Len(seen)]
      BY <2>1, ConcatProperties
    <3> HIDE DEF q, n
    <3>3. \A i \in 1 .. m : i \in 1 .. Len(q) /\ q[i] = seen[i]
      BY <3>2
    <3>4. ASSUME NEW j \in 1 .. m, seen[j] > 1
          PROVE  \E i \in 1 .. m : i < j /\ seen[i] = seen[j] - 1
      <4>1. PICK i \in 1 .. Len(q) : i < j /\ q[i] = q[j] - 1
        BY <3>1, <3>3, <3>4 DEF Consecutive
      <4>2. i \in 1 .. m
        BY <3>2, <4>1
      <4>3. QED
        BY <3>3, <4>1, <4>2
    <3>5. \A i, j \in 1 .. m : i < j /\ seen[j] /= Pad => seen[i] < seen[j]
      BY <3>1, <3>3 DEF Consecutive
    <3>6. Consecutive(seen)
      BY <3>4, <3>5 DEF Consecutive
    <3>7. QED
      BY <2>2, <3>6 DEF InOrder
  <2>5. QED
    BY <2>3, <2>4
<1>3. QED
  BY <1>1, <1>2, AlwaysTyped, ArrangedStep, PTL DEF Spec
=============================================================================
