---------------------------- MODULE TunnelProofs ----------------------------
(***************************************************************************)
(* Proofs about one proxied connection, for every capacity of the pipes    *)
(* and every number of chunks the application and the destination send.    *)
(***************************************************************************)
EXTENDS Tunnel, SequenceTheorems, TLAPS

\* What the client has not started, no pipe and no goroutine shows: nothing is
\* in the tunnel before DialTunnel or on its way to the application before
\* Reply, and the server knows no destination before it has read a header.
Sequenced ==
  /\ copy["cf"] = "idle" => copy["cb"] = "idle" /\ buf["b0"] = <<>>
  /\ copy["cf"] = "idle" /\ client /= "reply" =>
       /\ copy["sf"] = "idle" /\ copy["sb"] = "idle" /\ buf["f1"] = <<>>
       /\ server \in {"idle", "header", "closed"}
  /\ client \in {"request", "dial", "opened", "reply"} => copy["cf"] = "idle"
  /\ client \in {"request", "dial"} => server = "idle"
  /\ server \in {"idle", "header", "dial"} => copy["sf"] = "idle" /\ copy["sb"] = "idle"
  /\ client = "copy" => copy["cf"] /= "idle"
  /\ copy["cb"] = "idle" => copy["cf"] = "idle"
  /\ copy["sb"] = "idle" => copy["sf"] = "idle"
  /\ decoder = "reading" => server \in {"header", "closed"} /\ copy["sf"] = "idle"

Typed == TypeOK /\ Sequenced

LEMMA TypedStart == Init => Typed
<1> SUFFICES ASSUME Init PROVE Typed
  OBVIOUS
<1> USE TunnelAssumption DEF Init
<1>1. buf \in [Pipes -> Seq(Items)] /\ \A p \in Pipes : Len(buf[p]) <= Cap
  <2>1. <<Request>> \in Seq(Items) /\ Len(<<Request>>) = 1
    BY DEF Items
  <2>2. QED
    BY <2>1
<1>2. got \in [f : Seq(Items), b : Seq(Items)]
  OBVIOUS
<1>3. Sequenced
  BY DEF Sequenced, Copies, ClientCopies, ServerCopies, Pipes
<1>4. /\ copy \in [Copies -> {"idle", "read", "write", "done"}]
      /\ held \in [Copies -> Items \cup {0}]
      /\ \A c \in Copies : (held[c] /= 0) <=> (copy[c] = "write")
  OBVIOUS
<1>5. fin \in [Pipes -> BOOLEAN] /\ shut \in [Pipes -> BOOLEAN] /\ broken \in BOOLEAN
  OBVIOUS
<1>6. sent \in [f : 0 .. MaxFwd, b : 0 .. MaxBack]
  OBVIOUS
<1>7. /\ carrier \in {"quic", "other"} /\ client = "request"
      /\ server = "idle" /\ decoder = "idle"
  OBVIOUS
<1> HIDE DEF Init
<1>8. QED
  BY <1>1, <1>2, <1>3, <1>4, <1>5, <1>6, <1>7 DEF Typed, TypeOK

\* What Push, Pop and CloseConns do to the pipes.
LEMMA Pushed ==
  ASSUME TypeOK, NEW p \in Pipes, NEW item \in Items,
         shut[p] \/ Len(buf[p]) < Cap
  PROVE  LET b == Push(buf, p, item)
         IN  /\ b \in [Pipes -> Seq(Items)] /\ \A q \in Pipes : Len(b[q]) <= Cap
             /\ \A q \in Pipes \ {p} : b[q] = buf[q]
BY TunnelAssumption DEF TypeOK, Push

LEMMA Popped ==
  ASSUME TypeOK, NEW p \in Pipes, buf[p] /= <<>>, Pop(p)
  PROVE  /\ buf' \in [Pipes -> Seq(Items)] /\ \A q \in Pipes : Len(buf'[q]) <= Cap
         /\ \A q \in Pipes \ {p} : buf'[q] = buf[q]
         /\ Head(buf[p]) \in Items
BY TunnelAssumption DEF TypeOK, Pop

LEMMA Closed ==
  ASSUME TypeOK, NEW outgoing \in SUBSET Pipes, CloseConns(outgoing)
  PROVE  /\ buf' \in [Pipes -> Seq(Items)] /\ \A q \in Pipes : Len(buf'[q]) <= Cap
         /\ \A q \in Pipes : buf'[q] \in {<<>>, buf[q]}
         /\ \A q \in Pipes :
              buf'[q] = buf[q] \/ q \in outgoing \/ (Peer[q] \in outgoing /\ shut'[q])
         /\ fin' \in [Pipes -> BOOLEAN] /\ shut' \in [Pipes -> BOOLEAN]
         /\ \A q \in Pipes : fin'[q] <=> fin[q] \/ q \in outgoing
         /\ \A q \in Pipes : shut'[q] => shut[q] \/ Peer[q] \in outgoing
         /\ \A q \in Pipes : shut[q] => shut'[q]
<1>1. <<>> \in Seq(Items) /\ Len(<<>>) = 0
  OBVIOUS
<1>2. \A q \in outgoing : Peer[q] \in Pipes /\ Peer[Peer[q]] = q
  BY DEF Peer, Pipes
<1>3. /\ buf \in [Pipes -> Seq(Items)] /\ \A q \in Pipes : Len(buf[q]) <= Cap
      /\ fin \in [Pipes -> BOOLEAN] /\ shut \in [Pipes -> BOOLEAN] /\ Cap \in Nat
  BY TunnelAssumption DEF TypeOK
<1> DEFINE incoming == {Peer[q] : q \in outgoing}
           stopped == IF CloseStopsRead THEN incoming ELSE incoming \ TunnelPipes
<1>4. stopped \subseteq incoming
  OBVIOUS
<1>5. PICK lost \in SUBSET outgoing :
        /\ fin' = [q \in Pipes |-> fin[q] \/ q \in outgoing]
        /\ shut' = [q \in Pipes |-> shut[q] \/ q \in stopped]
        /\ buf' = [q \in Pipes |-> IF q \in lost \cup stopped THEN <<>> ELSE buf[q]]
  <2> HIDE DEF stopped
  <2>1. PICK lost \in SUBSET {q \in outgoing : buf[Peer[q]] /= <<>>} :
          buf' = [q \in Pipes |-> IF q \in lost \cup stopped THEN <<>> ELSE buf[q]]
    BY DEF CloseConns, stopped
  <2>2. /\ fin' = [q \in Pipes |-> fin[q] \/ q \in outgoing]
        /\ shut' = [q \in Pipes |-> shut[q] \/ q \in stopped]
    BY DEF CloseConns, stopped
  <2>3. QED
    BY <2>1, <2>2
<1> HIDE DEF stopped
<1>6. \A q \in stopped : Peer[q] \in outgoing
  BY <1>2, <1>4
<1> HIDE DEF incoming
<1>7. /\ buf' \in [Pipes -> Seq(Items)] /\ \A q \in Pipes : Len(buf'[q]) <= Cap
      /\ \A q \in Pipes : buf'[q] \in {<<>>, buf[q]}
  BY <1>1, <1>3, <1>5
<1>8. /\ fin' \in [Pipes -> BOOLEAN] /\ shut' \in [Pipes -> BOOLEAN]
      /\ \A q \in Pipes : fin'[q] <=> fin[q] \/ q \in outgoing
      /\ \A q \in Pipes : shut'[q] <=> shut[q] \/ q \in stopped
  BY <1>3, <1>5
<1>9. \A q \in Pipes : buf'[q] = buf[q] \/ q \in outgoing \/ q \in stopped
  BY <1>5
<1>10. ASSUME NEW q \in Pipes, buf'[q] /= buf[q], q \notin outgoing
       PROVE  Peer[q] \in outgoing /\ shut'[q]
  BY <1>6, <1>8, <1>9, <1>10
<1>11. \A q \in Pipes :
         buf'[q] = buf[q] \/ q \in outgoing \/ (Peer[q] \in outgoing /\ shut'[q])
  BY <1>10
<1>12. /\ \A q \in Pipes : shut'[q] => shut[q] \/ Peer[q] \in outgoing
       /\ \A q \in Pipes : shut[q] => shut'[q]
  BY <1>6, <1>8
<1>13. QED
  BY <1>7, <1>8, <1>11, <1>12

LEMMA TypedEnds ==
  ASSUME TypeOK, AppSend \/ DestSend \/ AppRecv \/ DestRecv
  PROVE  sent' \in [f : 0 .. MaxFwd, b : 0 .. MaxBack] /\ got' \in [f : Seq(Items), b : Seq(Items)]
<1>1. /\ sent \in [f : 0 .. MaxFwd, b : 0 .. MaxBack]
      /\ got \in [f : Seq(Items), b : Seq(Items)] /\ MaxFwd \in Nat /\ MaxBack \in Nat
  BY TunnelAssumption DEF TypeOK
<1>2. CASE AppSend
  BY <1>1, <1>2 DEF AppSend
<1>3. CASE DestSend
  BY <1>1, <1>3 DEF DestSend
<1>4. CASE AppRecv
  <2> DEFINE x == Head(buf["b0"])
  <2>1. x \in Items
    BY <1>4 DEF AppRecv, HasItem, TypeOK, Pipes
  <2>2. got' = [got EXCEPT !.b = Append(@, x)] /\ sent' = sent
    BY <1>4 DEF AppRecv
  <2> HIDE DEF x
  <2>3. Append(got.b, x) \in Seq(Items)
    BY <1>1, <2>1
  <2>4. QED
    BY <1>1, <2>2, <2>3
<1>5. CASE DestRecv
  <2> DEFINE x == Head(buf["f2"])
  <2>1. x \in Items
    BY <1>5 DEF DestRecv, HasItem, TypeOK, Pipes
  <2>2. got' = [got EXCEPT !.f = Append(@, x)] /\ sent' = sent
    BY <1>5 DEF DestRecv
  <2> HIDE DEF x
  <2>3. Append(got.f, x) \in Seq(Items)
    BY <1>1, <2>1
  <2>4. QED
    BY <1>1, <2>2, <2>3
<1>6. QED
  BY <1>2, <1>3, <1>4, <1>5

LEMMA TypedEndpoint == Typed /\ (Endpoint \/ Break) => Typed'
<1> SUFFICES ASSUME Typed, Endpoint \/ Break PROVE Typed'
  OBVIOUS
<1> USE DEF Typed, TypeOK, Sequenced, relayVars, endVars, pipeVars
<1>0. Nat \ {0} \subseteq Items /\ TunnelPipes \subseteq Pipes
  BY DEF Items, TunnelPipes, Pipes
<1>1. CASE AppSend
  <2>1. "f0" \in Pipes /\ sent.f + 1 \in Items /\ Len(buf["f0"]) < Cap
    BY <1>1, <1>0, TunnelAssumption DEF Pipes, AppSend, CanWrite
  <2>2. /\ buf' \in [Pipes -> Seq(Items)] /\ \A q \in Pipes : Len(buf'[q]) <= Cap
        /\ buf'["f1"] = buf["f1"] /\ buf'["b0"] = buf["b0"]
    <3>1. /\ "f1" \in Pipes \ {"f0"} /\ "b0" \in Pipes \ {"f0"}
          /\ shut["f0"] \/ Len(buf["f0"]) < Cap
      BY <2>1 DEF Pipes
    <3>2. buf' = Push(buf, "f0", sent.f + 1)
      BY <1>1 DEF AppSend
    <3> HIDE DEF Typed, TypeOK
    <3>3. QED
      BY <2>1, <3>1, <3>2, Pushed DEF Typed
  <2>3. sent' \in [f : 0 .. MaxFwd, b : 0 .. MaxBack]
    BY <1>1, TypedEnds
  <2>4. QED
    BY <1>1, <2>2, <2>3 DEF AppSend
<1>2. CASE DestSend
  <2>1. "b2" \in Pipes /\ sent.b + 1 \in Items /\ Len(buf["b2"]) < Cap
    BY <1>2, <1>0, TunnelAssumption DEF Pipes, DestSend, CanWrite
  <2>2. /\ buf' \in [Pipes -> Seq(Items)] /\ \A q \in Pipes : Len(buf'[q]) <= Cap
        /\ buf'["f1"] = buf["f1"] /\ buf'["b0"] = buf["b0"]
    <3>1. /\ "f1" \in Pipes \ {"b2"} /\ "b0" \in Pipes \ {"b2"}
          /\ shut["b2"] \/ Len(buf["b2"]) < Cap
      BY <2>1 DEF Pipes
    <3>2. buf' = Push(buf, "b2", sent.b + 1)
      BY <1>2 DEF DestSend
    <3> HIDE DEF Typed, TypeOK
    <3>3. QED
      BY <2>1, <3>1, <3>2, Pushed DEF Typed
  <2>3. sent' \in [f : 0 .. MaxFwd, b : 0 .. MaxBack]
    BY <1>2, TypedEnds
  <2>4. UNCHANGED <<fin, shut, broken, carrier, relayVars, got>>
    BY <1>2 DEF DestSend
  <2>5. TypeOK'
    BY <2>2, <2>3, <2>4
  <2>6. Sequenced'
    BY <1>2, <2>2, <2>4 DEF DestSend, DestOpen
  <2> HIDE DEF TypeOK, Sequenced
  <2>7. QED
    BY <2>5, <2>6
<1>3. CASE AppRecv
  <2>1. "b0" \in Pipes /\ buf["b0"] /= <<>> /\ Pop("b0")
    BY <1>3 DEF AppRecv, HasItem, Pipes
  <2>2. /\ buf' \in [Pipes -> Seq(Items)] /\ \A q \in Pipes : Len(buf'[q]) <= Cap
        /\ buf'["f1"] = buf["f1"] /\ Head(buf["b0"]) \in Items
    BY <2>1, Popped DEF Pipes
  <2>3. got' \in [f : Seq(Items), b : Seq(Items)]
    BY <1>3, TypedEnds
  <2>4. QED
    BY <1>3, <2>1, <2>2, <2>3 DEF AppRecv
<1>4. CASE DestRecv
  <2>1. "f2" \in Pipes /\ buf["f2"] /= <<>> /\ Pop("f2")
    BY <1>4 DEF DestRecv, HasItem, Pipes
  <2>2. /\ buf' \in [Pipes -> Seq(Items)] /\ \A q \in Pipes : Len(buf'[q]) <= Cap
        /\ buf'["f1"] = buf["f1"] /\ buf'["b0"] = buf["b0"] /\ Head(buf["f2"]) \in Items
    BY <2>1, Popped DEF Pipes
  <2>3. got' \in [f : Seq(Items), b : Seq(Items)]
    BY <1>4, TypedEnds
  <2>4. QED
    BY <1>4, <2>1, <2>2, <2>3 DEF DestRecv
<1>5. CASE AppFin \/ DestFin
  <2>1. /\ fin' \in [Pipes -> BOOLEAN] /\ shut' \in [Pipes -> BOOLEAN]
        /\ UNCHANGED <<buf, broken, relayVars, carrier, endVars>>
    <3>1. CASE AppFin
      BY <3>1 DEF AppFin
    <3>2. CASE DestFin
      BY <3>2 DEF DestFin
    <3>3. QED
      BY <1>5, <3>1, <3>2
  <2>2. TypeOK'
    BY <2>1
  <2>3. Sequenced'
    BY <2>1
  <2>4. QED
    BY <2>2, <2>3
<1>6. CASE AppClose \/ DestClose
  <2>1. PICK outgoing \in SUBSET Pipes : CloseConns(outgoing)
    BY <1>6 DEF AppClose, DestClose, Pipes
  <2>2. /\ buf' \in [Pipes -> Seq(Items)] /\ \A q \in Pipes : Len(buf'[q]) <= Cap
        /\ fin' \in [Pipes -> BOOLEAN] /\ shut' \in [Pipes -> BOOLEAN]
        /\ buf'["f1"] \in {<<>>, buf["f1"]} /\ buf'["b0"] \in {<<>>, buf["b0"]}
    BY <2>1, Closed DEF Pipes
  <2>3. UNCHANGED <<broken, carrier, relayVars, endVars>>
    BY <1>6 DEF AppClose, DestClose
  <2>4. QED
    BY <2>2, <2>3
<1>7. CASE Break
  <2>1. /\ buf' \in [Pipes -> Seq(Items)] /\ \A q \in Pipes : Len(buf'[q]) <= Cap
        /\ buf'["f1"] \in {<<>>, buf["f1"]} /\ buf'["b0"] \in {<<>>, buf["b0"]}
    BY <1>7, TunnelAssumption DEF Break, Pipes
  <2>2. QED
    BY <1>7, <2>1 DEF Break
<1>8. QED
  BY <1>1, <1>2, <1>3, <1>4, <1>5, <1>6, <1>7 DEF Endpoint

LEMMA TypedClient == Typed /\ ClientStep => Typed'
<1> SUFFICES ASSUME Typed, ClientStep PROVE Typed'
  OBVIOUS
<1> USE DEF Typed, TypeOK, Sequenced, relayVars, endVars, pipeVars
<1>1. CASE ReadRequest
  <2>1. "f0" \in Pipes /\ buf["f0"] /= <<>> /\ Pop("f0")
    BY <1>1 DEF ReadRequest, HasItem, Pipes
  <2>2. /\ buf' \in [Pipes -> Seq(Items)] /\ \A q \in Pipes : Len(buf'[q]) <= Cap
        /\ buf'["f1"] = buf["f1"] /\ buf'["b0"] = buf["b0"]
    BY <2>1, Popped DEF Pipes
  <2>3. QED
    BY <1>1, <2>2 DEF ReadRequest
<1>2. CASE RefuseRequest \/ HeaderWriteFails \/ ClientClose
  <2>1. PICK outgoing \in SUBSET Pipes : CloseConns(outgoing)
    BY <1>2 DEF RefuseRequest, HeaderWriteFails, ClientClose, Refuse, Pipes
  <2>2. /\ buf' \in [Pipes -> Seq(Items)] /\ \A q \in Pipes : Len(buf'[q]) <= Cap
        /\ fin' \in [Pipes -> BOOLEAN] /\ shut' \in [Pipes -> BOOLEAN]
        /\ buf'["f1"] \in {<<>>, buf["f1"]} /\ buf'["b0"] \in {<<>>, buf["b0"]}
    BY <2>1, Closed DEF Pipes
  <2>3. /\ UNCHANGED <<broken, carrier, copy, held, server, decoder, endVars>>
        /\ client' = "closed" /\ client /= "reply"
    BY <1>2 DEF RefuseRequest, HeaderWriteFails, ClientClose, Refuse
  <2>4. QED
    BY <2>2, <2>3
<1>3. CASE OpenStream
  BY <1>3 DEF OpenStream
<1>4. CASE DialTunnel
  <2>1. "f1" \in Pipes /\ Header \in Items
    BY DEF Pipes, Items
  <2>2. copy["cf"] = "idle" /\ buf["f1"] = <<>> /\ buf["b0"] = <<>> /\ "b0" \in Pipes
    BY <1>4 DEF DialTunnel, Pipes
  <2>3. Len(buf["f1"]) < Cap
    BY <2>2, TunnelAssumption
  <2>4. /\ buf' \in [Pipes -> Seq(Items)] /\ \A q \in Pipes : Len(buf'[q]) <= Cap
        /\ buf'["b0"] = <<>>
    BY <1>4, <2>1, <2>2, <2>3, Pushed DEF DialTunnel
  <2>5. QED
    BY <1>4, <2>2, <2>4 DEF DialTunnel
<1>5. CASE Reply
  <2>1. "b0" \in Pipes /\ OkReply \in Items
    BY DEF Pipes, Items
  <2>2. copy["cf"] = "idle" /\ copy["cb"] = "idle" /\ buf["b0"] = <<>>
    BY <1>5 DEF Reply
  <2>3. Len(buf["b0"]) < Cap
    BY <2>2, TunnelAssumption
  <2>4. buf' \in [Pipes -> Seq(Items)] /\ \A q \in Pipes : Len(buf'[q]) <= Cap
    BY <1>5, <2>1, <2>3, Pushed DEF Reply
  <2>5. copy' \in [Copies -> {"idle", "read", "write", "done"}]
        /\ copy'["cf"] = "read" /\ copy'["cb"] = "read"
        /\ copy'["sf"] = copy["sf"] /\ copy'["sb"] = copy["sb"]
    BY <1>5 DEF Reply, Copies, ClientCopies, ServerCopies
  <2>6. \A c \in Copies : (held'[c] /= 0) <=> (copy'[c] = "write")
    BY <1>5, <2>2, <2>5 DEF Reply, Copies, ClientCopies, ServerCopies
  <2>7. QED
    BY <1>5, <2>4, <2>5, <2>6 DEF Reply
<1>6. QED
  BY <1>1, <1>2, <1>3, <1>4, <1>5 DEF ClientStep

LEMMA TypedServer == Typed /\ ServerStep => Typed'
<1> SUFFICES ASSUME Typed, ServerStep PROVE Typed'
  OBVIOUS
<1> USE DEF Typed, TypeOK, Sequenced, relayVars, endVars, pipeVars
<1>1. CASE Decode
  <2>1. "f1" \in Pipes /\ buf["f1"] /= <<>> /\ Pop("f1")
    BY <1>1 DEF Decode, HasItem, Pipes
  <2>2. /\ buf' \in [Pipes -> Seq(Items)] /\ \A q \in Pipes : Len(buf'[q]) <= Cap
        /\ buf'["b0"] = buf["b0"]
    BY <2>1, Popped DEF Pipes
  <2>3. QED
    BY <1>1, <2>1, <2>2 DEF Decode
<1>2. CASE DecodeFail
  BY <1>2 DEF DecodeFail
<1>3. CASE RejectHeader \/ Reject \/ ServerClose
  <2>1. PICK outgoing \in SUBSET Pipes : CloseConns(outgoing)
    BY <1>3 DEF RejectHeader, Reject, ServerClose, ServerCloses, Pipes
  <2>2. /\ buf' \in [Pipes -> Seq(Items)] /\ \A q \in Pipes : Len(buf'[q]) <= Cap
        /\ fin' \in [Pipes -> BOOLEAN] /\ shut' \in [Pipes -> BOOLEAN]
        /\ buf'["f1"] \in {<<>>, buf["f1"]} /\ buf'["b0"] \in {<<>>, buf["b0"]}
    BY <2>1, Closed DEF Pipes
  <2>3. /\ UNCHANGED <<broken, carrier, copy, held, client, decoder, endVars>>
        /\ server' = "closed" /\ server /= "idle"
    BY <1>3 DEF RejectHeader, Reject, ServerClose, ServerCloses
  <2>4. QED
    BY <2>2, <2>3
<1>4. CASE DialDest
  <2>1. /\ copy' \in [Copies -> {"idle", "read", "write", "done"}]
        /\ copy'["cf"] = copy["cf"] /\ (copy["cf"] = "idle" => client = "reply")
        /\ copy'["cb"] = copy["cb"] /\ copy'["sf"] = "read" /\ copy'["sb"] = "read"
    BY <1>4 DEF DialDest, Copies, ClientCopies, ServerCopies
  <2>2. \A c \in ServerCopies : held[c] = 0
    <3>1. copy["sf"] = "idle" /\ copy["sb"] = "idle"
      BY <1>4 DEF DialDest
    <3>2. QED
      BY <3>1 DEF Copies, ServerCopies
  <2>3. \A c \in Copies : (held'[c] /= 0) <=> (copy'[c] = "write")
    BY <1>4, <2>2 DEF DialDest
  <2>4. QED
    BY <1>4, <2>1, <2>3 DEF DialDest
<1>5. QED
  BY <1>1, <1>2, <1>3, <1>4 DEF ServerStep

LEMMA CopyPipes ==
  /\ Src \in [Copies -> Pipes] /\ Dst \in [Copies -> Pipes]
  /\ \A c \in Copies : Src[c] /= "b0" /\ Dst[c] /= "f0"
  /\ \A c \in Copies : Dst[c] \in {"f1", "b0"} => c \in ClientCopies
BY DEF Src, Dst, Copies, ClientCopies, ServerCopies, Pipes

LEMMA TypedCopy == ASSUME Typed, NEW c \in Copies, Copy(c) PROVE Typed'
<1> USE DEF Typed, TypeOK, Sequenced, relayVars, endVars, pipeVars
<1>0. Src[c] \in Pipes /\ Dst[c] \in Pipes
  BY CopyPipes
<1>1. CASE CopyRead(c)
  <2>1. buf[Src[c]] /= <<>> /\ Pop(Src[c])
    BY <1>1 DEF CopyRead, HasItem
  <2>2. /\ buf' \in [Pipes -> Seq(Items)] /\ \A q \in Pipes : Len(buf'[q]) <= Cap
        /\ Head(buf[Src[c]]) \in Items
        /\ \A q \in Pipes \ {Src[c]} : buf'[q] = buf[q]
    BY <1>0, <2>1, Popped
  <2>3. 0 \notin Items
    BY DEF Items, Request, Header, OkReply
  <2> DEFINE x == Head(buf[Src[c]])
  <2>4. /\ copy' = [copy EXCEPT ![c] = "write"] /\ held' = [held EXCEPT ![c] = x]
        /\ copy[c] = "read"
    BY <1>1 DEF CopyRead, SetCopy
  <2> HIDE DEF x
  <2>5. /\ copy' \in [Copies -> {"idle", "read", "write", "done"}]
        /\ held' \in [Copies -> Items \cup {0}]
        /\ \A d \in Copies : (held'[d] /= 0) <=> (copy'[d] = "write")
    BY <2>2, <2>3, <2>4 DEF x
  <2>6. /\ buf["b0"] = <<>> => buf'["b0"] = <<>>
        /\ buf["f1"] = <<>> => buf'["f1"] = <<>>
        /\ \A d \in Copies : copy[d] = "idle" <=> copy'[d] = "idle"
    BY <2>1, <2>2, <2>4, CopyPipes DEF Pipes
  <2>7. QED
    BY <1>1, <2>2, <2>5, <2>6 DEF CopyRead, Copies, ClientCopies, ServerCopies
<1>2. CASE CopyEnd(c) \/ CopyFail(c)
  <2>1. /\ copy[c] \in {"read", "write"} /\ held' = [held EXCEPT ![c] = 0]
        /\ \E step \in {"done", "read"} : copy' = [copy EXCEPT ![c] = step]
        /\ UNCHANGED <<pipeVars, client, server, decoder, endVars>>
    BY <1>2 DEF CopyEnd, CopyFail, SetCopy
  <2>2. /\ copy' \in [Copies -> {"idle", "read", "write", "done"}]
        /\ held' \in [Copies -> Items \cup {0}]
        /\ \A d \in Copies : (held'[d] /= 0) <=> (copy'[d] = "write")
        /\ \A d \in Copies : copy[d] = "idle" <=> copy'[d] = "idle"
    BY <2>1
  <2>3. QED
    BY <2>1, <2>2 DEF Copies
<1>3. CASE CopyWrite(c)
  <2>1. /\ copy[c] = "write" /\ Len(buf[Dst[c]]) < Cap /\ held[c] \in Items
        /\ buf' = Push(buf, Dst[c], held[c])
    BY <1>3 DEF CopyWrite, CanWrite
  <2>2. /\ buf' \in [Pipes -> Seq(Items)] /\ \A q \in Pipes : Len(buf'[q]) <= Cap
        /\ \A q \in Pipes \ {Dst[c]} : buf'[q] = buf[q]
    <3> HIDE DEF Typed, TypeOK
    <3>1. QED
      BY <1>0, <2>1, Pushed DEF Typed
  <2>3. /\ copy' = [copy EXCEPT ![c] = "read"] /\ held' = [held EXCEPT ![c] = 0]
    BY <1>3 DEF CopyWrite, SetCopy
  <2>4. /\ copy' \in [Copies -> {"idle", "read", "write", "done"}]
        /\ held' \in [Copies -> Items \cup {0}]
        /\ \A d \in Copies : (held'[d] /= 0) <=> (copy'[d] = "write")
        /\ \A d \in Copies : copy[d] = "idle" <=> copy'[d] = "idle"
    BY <2>1, <2>3
  <2>5. copy["cf"] = "idle" => Dst[c] \notin {"f1", "b0"}
    BY <2>1, CopyPipes DEF ClientCopies
  <2>6. copy["cf"] = "idle" => buf'["f1"] = buf["f1"] /\ buf'["b0"] = buf["b0"]
    BY <2>2, <2>5 DEF Pipes
  <2>7. UNCHANGED <<fin, shut, broken, carrier, client, server, decoder, endVars>>
    BY <1>3 DEF CopyWrite
  <2>8. Sequenced'
    BY <2>4, <2>6, <2>7 DEF Copies, ClientCopies, ServerCopies
  <2>9. QED
    BY <2>2, <2>4, <2>7, <2>8
<1>4. QED
  BY <1>1, <1>2, <1>3 DEF Copy

LEMMA TypedStep == Typed /\ [Next]_vars => Typed'
<1>1. ASSUME Typed, UNCHANGED vars PROVE Typed'
  BY <1>1 DEF vars, pipeVars, relayVars, endVars, Typed, TypeOK, Sequenced
<1>2. QED
  BY <1>1, TypedEndpoint, TypedClient, TypedServer, TypedCopy DEF Next

LEMMA AlwaysTyped == Spec => []Typed
BY TypedStart, TypedStep, PTL DEF Spec

\* Every variable keeps its type: a goroutine holds an item exactly while it
\* writes, and no pipe holds more than its capacity (io.Copy, server.go:108).
THEOREM TypeCorrect == Spec => []TypeOK
<1>1. Typed => TypeOK
  BY DEF Typed
<1>2. QED
  BY <1>1, AlwaysTyped, PTL

-----------------------------------------------------------------------------
(* ClosedForCause.                                                         *)

\* What the end of a copy says about the others: the tunnel's pipes are ended
\* by their relay only, and the copies that carry data away from the tunnel
\* end because of that or because of an endpoint.
Causes ==
  /\ fin["f1"] => client = "closed"
  /\ fin["b1"] => server = "closed"
  /\ copy["cb"] = "done" => Excused \/ server = "closed"
  /\ copy["sf"] = "done" => Excused \/ client = "closed"

LEMMA CausesStep ==
  Typed /\ Causes /\ ClosedForCause /\ [Next]_vars => (Causes /\ ClosedForCause)'
<1> SUFFICES ASSUME Typed, Causes, ClosedForCause, [Next]_vars
             PROVE  (Causes /\ ClosedForCause)'
  OBVIOUS
<1> USE DEF Causes, ClosedForCause, Excused, relayVars, endVars, pipeVars
<1>0. /\ copy \in [Copies -> {"idle", "read", "write", "done"}]
      /\ fin \in [Pipes -> BOOLEAN] /\ shut \in [Pipes -> BOOLEAN]
      /\ broken \in BOOLEAN
      /\ client \in {"request", "dial", "opened", "reply", "copy", "closed"}
      /\ server \in {"idle", "header", "dial", "copy", "closed"}
      /\ "f2" \in Pipes /\ "b0" \in Pipes /\ "f1" \in Pipes /\ "b1" \in Pipes
      /\ "cf" \in Copies /\ "cb" \in Copies /\ "sf" \in Copies
      /\ TypeOK
  BY DEF Typed, TypeOK, Pipes, Copies, ClientCopies, ServerCopies
<1>1. CASE UNCHANGED <<fin, shut, broken, copy, client, server>>
  BY <1>1
<1>2. CASE AppFin \/ DestFin
  BY <1>0, <1>2 DEF AppFin, DestFin
<1>3. CASE Break
  BY <1>0, <1>3 DEF Break
<1>4. CASE ReadRequest \/ OpenStream \/ DialTunnel
  <2>1. copy["cf"] = "idle" /\ copy["cb"] = "idle" /\ copy["sf"] = "idle"
    BY <1>4 DEF ReadRequest, OpenStream, DialTunnel, Typed, Sequenced
  <2>2. client /= "closed" /\ client' /= "closed" /\ UNCHANGED <<fin, shut, broken>>
    BY <1>4 DEF ReadRequest, OpenStream, DialTunnel
  <2>3. copy'["cb"] \in {"read", "idle"} /\ copy'["sf"] = "idle"
    BY <1>0, <1>4, <2>1 DEF ReadRequest, OpenStream, DialTunnel, ClientCopies
  <2>4. server' = server \/ server' = "header"
    BY <1>4 DEF ReadRequest, OpenStream, DialTunnel
  <2>5. fin["b1"] => server = "closed" /\ server' = server
    BY <1>4 DEF ReadRequest, OpenStream, DialTunnel, Typed, Sequenced
  <2>6. QED
    BY <2>1, <2>2, <2>3, <2>4, <2>5
<1>5. CASE Decode \/ DecodeFail \/ DialDest
  <2>1. /\ UNCHANGED <<fin, shut, broken, client>>
        /\ server' = server \/ server = "header" \/ server = "dial"
        /\ server' = "closed" => server = "closed"
        /\ \A c \in {"cf", "cb"} : copy'[c] = copy[c]
        /\ copy'["sf"] = "done" => copy["sf"] = "done"
    BY <1>0, <1>5 DEF Decode, DecodeFail, DialDest, ServerCopies
  <2>2. copy'["sf"] /= "idle" => server' /= "closed" \/ UNCHANGED <<copy, server>>
    BY <1>0, <1>5 DEF Decode, DecodeFail, DialDest
  <2>3. QED
    BY <1>0, <2>1, <2>2
<1>6. CASE AppClose \/ DestClose
  <2>1. PICK outgoing \in {{"f0"}, {"b2"}} : CloseConns(outgoing)
    BY <1>6 DEF AppClose, DestClose
  <2>2. /\ fin'["f1"] => fin["f1"]
        /\ fin'["b1"] => fin["b1"]
        /\ shut["f2"] => shut'["f2"]
        /\ shut["b0"] => shut'["b0"]
    <3>1. outgoing \in SUBSET Pipes /\ "f1" \notin outgoing /\ "b1" \notin outgoing
      BY <2>1 DEF Pipes
    <3>2. QED
      BY <1>0, <2>1, <3>1, Closed
  <2>3. UNCHANGED <<broken, copy, client, server>>
    BY <1>6 DEF AppClose, DestClose
  <2>4. QED
    BY <2>2, <2>3
<1>7. CASE RefuseRequest \/ HeaderWriteFails \/ ClientClose
  <2>1. PICK outgoing \in {{"b0"}, {"f1", "b0"}} : CloseConns(outgoing)
    <3>1. {"b0"} = {} \cup {"b0"} /\ {"f1", "b0"} = {"f1"} \cup {"b0"}
      OBVIOUS
    <3>2. QED
      BY <1>7, <3>1 DEF RefuseRequest, HeaderWriteFails, ClientClose, Refuse
  <2>2. /\ fin'["b1"] => fin["b1"]
        /\ shut["f2"] => shut'["f2"]
        /\ shut["b0"] => shut'["b0"]
    <3>1. outgoing \in SUBSET Pipes /\ "b1" \notin outgoing
      BY <2>1 DEF Pipes
    <3>2. QED
      BY <1>0, <2>1, <3>1, Closed
  <2>3. UNCHANGED <<broken, copy, server>> /\ client' = "closed"
    BY <1>7 DEF RefuseRequest, HeaderWriteFails, ClientClose, Refuse
  <2>4. copy["cf"] /= "idle" => Excused \/ server = "closed"
    <3>1. CASE ClientClose
      BY <3>1 DEF ClientClose, ClientCopies
    <3>2. CASE RefuseRequest \/ HeaderWriteFails
      BY <3>2 DEF RefuseRequest, HeaderWriteFails, Typed, Sequenced
    <3>3. QED
      BY <1>7, <3>1, <3>2
  <2>5. QED
    BY <2>2, <2>3, <2>4
<1>8. CASE RejectHeader \/ Reject \/ ServerClose
  <2>1. PICK outgoing \in {{"b1"}, {"b1", "f2"}} : CloseConns(outgoing)
    BY <1>8 DEF RejectHeader, Reject, ServerClose, ServerCloses
  <2>2. /\ fin'["f1"] => fin["f1"]
        /\ shut["f2"] => shut'["f2"]
        /\ shut["b0"] => shut'["b0"]
    <3>1. outgoing \in SUBSET Pipes /\ "f1" \notin outgoing
      BY <2>1 DEF Pipes
    <3>2. QED
      BY <1>0, <2>1, <3>1, Closed
  <2>3. UNCHANGED <<broken, copy, client>> /\ server' = "closed" /\ server /= "closed"
    BY <1>8 DEF RejectHeader, Reject, ServerClose, ServerCloses
  <2>4. copy["sf"] /= "idle" => Excused
    <3>1. CASE ServerClose
      <4>1. copy["sf"] = "done" /\ server = "copy"
        BY <3>1 DEF ServerClose, ServerCopies
      <4>2. client = "closed" => copy["cf"] /= "idle"
        BY <4>1 DEF Typed, Sequenced
      <4>3. QED
        BY <4>1, <4>2
    <3>2. CASE RejectHeader \/ Reject
      BY <3>2 DEF RejectHeader, Reject, Typed, Sequenced
    <3>3. QED
      BY <1>8, <3>1, <3>2
  <2>5. QED
    BY <2>2, <2>3, <2>4
<1>9. ASSUME NEW c \in Copies, Copy(c)
      PROVE  (Causes /\ ClosedForCause)'
  <2>1. /\ UNCHANGED <<fin, shut, broken, client, server>>
        /\ \E step \in {"read", "write", "done"} : copy' = [copy EXCEPT ![c] = step]
        /\ copy[c] \in {"read", "write"}
    BY <1>9 DEF Copy, CopyRead, CopyEnd, CopyWrite, CopyFail, SetCopy
  <2>2. copy'[c] = "done" => AtEnd(Src[c]) \/ WriteFails(Dst[c])
    BY <1>0, <1>9 DEF Copy, CopyRead, CopyEnd, CopyWrite, CopyFail, SetCopy
  <2>3. c = "cb" /\ copy'[c] = "done" => Excused \/ server = "closed"
    BY <2>2 DEF AtEnd, WriteFails, Failed, TunnelPipes, Src, Dst
  <2>4. c = "sf" /\ copy'[c] = "done" => Excused \/ client = "closed"
    BY <2>2 DEF AtEnd, WriteFails, Failed, TunnelPipes, Src, Dst
  <2>5. \A d \in Copies : copy'[d] = "idle" <=> copy[d] = "idle"
    BY <1>0, <2>1
  <2>6. \A d \in Copies : copy'[d] = "done" => copy[d] = "done" \/ d = c
    BY <1>0, <2>1
  <2>7. QED
    BY <1>0, <2>1, <2>3, <2>4, <2>5, <2>6
<1>10. CASE AppSend \/ DestSend \/ AppRecv \/ DestRecv
  BY <1>1, <1>10 DEF AppSend, DestSend, AppRecv, DestRecv
<1>11. CASE UNCHANGED vars
  BY <1>1, <1>11 DEF vars
<1>12. CASE Reply
  <2>1. /\ client = "reply" /\ client' = "copy" /\ UNCHANGED <<fin, shut, broken, server>>
        /\ copy'["cb"] = "read" /\ copy'["sf"] = copy["sf"]
    BY <1>0, <1>12 DEF Reply, ClientCopies
  <2>2. QED
    BY <1>0, <2>1
<1>13. QED
  BY <1>2, <1>3, <1>4, <1>5, <1>6, <1>7, <1>8, <1>9, <1>10, <1>11, <1>12
     DEF Next, Endpoint, ClientStep, ServerStep

\* Half-closes of the endpoints never close a relay that was copying: the last
\* copy to end, on either side, ends because of an endpoint that is gone or of
\* a failed tunnel (wg.Wait, server.go:110, main.go:281).
THEOREM RelayClosesForCause == Spec => []ClosedForCause
<1>1. Init => Causes /\ ClosedForCause
  BY DEF Init, Causes, ClosedForCause, Pipes, Copies, ClientCopies, ServerCopies
<1>2. Typed /\ Causes /\ ClosedForCause /\ [Next]_vars => (Causes /\ ClosedForCause)'
  BY CausesStep
<1>3. QED
  BY <1>1, <1>2, AlwaysTyped, PTL DEF Spec

-----------------------------------------------------------------------------
(* StreamIntegrity: through every close, half-close, failure and loss that *)
(* the tunnel allows, what an endpoint has received is a prefix of what    *)
(* the other one sent.                                                     *)


\* The items of a direction are numbered in the order in which they are sent:
\* 0 is the control item in front of the data.  s holds the items after the
\* one with number last.
Numeral(control, n) == IF n = 0 THEN control ELSE n
Ordered(s, control, last) == \A i \in 1 .. Len(s) : s[i] = Numeral(control, last + i)
Holds(c) == IF held[c] /= 0 THEN 1 ELSE 0

LEMMA OrderedTail ==
  ASSUME NEW s \in Seq(Items), s /= <<>>, NEW control, NEW last \in Int,
         Ordered(s, control, last)
  PROVE  /\ Head(s) = Numeral(control, last + 1) /\ Ordered(Tail(s), control, last + 1)
         /\ Len(Tail(s)) = Len(s) - 1
<1>1. /\ Head(s) = s[1] /\ 1 \in 1 .. Len(s) /\ Len(Tail(s)) = Len(s) - 1
      /\ \A i \in 1 .. Len(s) - 1 : Tail(s)[i] = s[i + 1] /\ i + 1 \in 1 .. Len(s)
  OBVIOUS
<1>2. \A i \in 1 .. Len(s) - 1 : (last + 1) + i = last + (i + 1)
  OBVIOUS
<1>3. \A i \in 1 .. Len(s) - 1 : Tail(s)[i] = Numeral(control, (last + 1) + i)
  BY <1>1, <1>2 DEF Ordered
<1>4. QED
  BY <1>1, <1>3 DEF Ordered

LEMMA OrderedAppend ==
  ASSUME NEW s \in Seq(Items), NEW control, NEW last \in Int,
         Ordered(s, control, last), NEW x, x = Numeral(control, last + Len(s) + 1)
  PROVE  Ordered(Append(s, x), control, last) /\ Len(Append(s, x)) = Len(s) + 1
<1>1. /\ Len(Append(s, x)) = Len(s) + 1 /\ Append(s, x)[Len(s) + 1] = x
      /\ \A i \in 1 .. Len(s) : Append(s, x)[i] = s[i]
  OBVIOUS
<1>2. \A i \in 1 .. Len(s) + 1 : i \in 1 .. Len(s) \/ i = Len(s) + 1
  OBVIOUS
<1>3. last + Len(s) + 1 = last + (Len(s) + 1)
  OBVIOUS
<1>4. QED
  BY <1>1, <1>2, <1>3 DEF Ordered

LEMMA OrderedNothing == \A control, last : Ordered(<<>>, control, last)
BY DEF Ordered

-----------------------------------------------------------------------------
(* From the application to the destination.                                *)

\* The server, or the client, still passes on what it reads.
ServerReads ==
  \/ server = "idle" \/ server = "dial" \/ (server = "header" /\ decoder = "reading")
  \/ copy["sf"] \in {"read", "write"} /\ ~shut["f2"]
ClientReads ==
  \/ client \in {"request", "dial", "opened"}
  \/ client = "reply" /\ ~broken /\ ~shut["f1"]
  \/ copy["cf"] \in {"read", "write"} /\ ~broken /\ ~shut["f1"]

\* The last numbers that have left f1 and f0, and that f1 and f2 have seen.
SeenF2 == Len(got.f) + Len(buf["f2"])
LeftF1 == IF server \in {"idle", "header"} THEN -1 ELSE SeenF2 + Holds("sf")
SeenF1 == LeftF1 + Len(buf["f1"])
LeftF0 == IF client = "request" THEN -1
          ELSE IF copy["cf"] = "idle" THEN 0 ELSE SeenF1 + Holds("cf")

FromServer ==
  /\ Ordered(got.f, 0, 0)
  /\ Ordered(buf["f2"], 0, Len(got.f))
  /\ copy["sf"] = "idle" => buf["f2"] = <<>> /\ got.f = <<>>
  /\ ServerReads /\ held["sf"] /= 0 => held["sf"] = SeenF2 + 1
FromClient ==
  ServerReads =>
    /\ Ordered(buf["f1"], Header, LeftF1)
    /\ ClientReads =>
         /\ copy["cf"] /= "idle" => SeenF1 >= 0
         /\ client = "reply" => SeenF1 = 0
         /\ held["cf"] /= 0 => held["cf"] = SeenF1 + 1
         /\ Ordered(buf["f0"], Request, LeftF0)
         /\ ~fin["f0"] /\ ~shut["f0"] => LeftF0 + Len(buf["f0"]) = sent.f
Forward == FromServer /\ FromClient

-----------------------------------------------------------------------------
(* From the destination to the application.                                *)

ClientPasses ==
  /\ copy["cb"] \in {"read", "write"} \/ client \in {"request", "dial", "opened", "reply"}
  /\ ~shut["b0"]
ServerPasses == copy["sb"] /= "done" /\ ~broken /\ ~shut["b1"]

SeenB0 == IF copy["cb"] = "idle" THEN 0 ELSE Len(got.b) + Len(buf["b0"]) - 1
LeftB1 == SeenB0 + Holds("cb")
SeenB1 == LeftB1 + Len(buf["b1"])
LeftB2 == SeenB1 + Holds("sb")

ToApp ==
  /\ Ordered(got.b, OkReply, -1)
  /\ Ordered(buf["b0"], OkReply, Len(got.b) - 1)
  /\ copy["cb"] = "idle" => got.b = <<>>
  /\ ClientPasses => SeenB0 >= 0 /\ (held["cb"] /= 0 => held["cb"] = SeenB0 + 1)
FromDest ==
  /\ copy["sb"] = "idle" => buf["b1"] = <<>> /\ buf["b2"] = <<>> /\ sent.b = 0
  /\ ClientPasses =>
       /\ Ordered(buf["b1"], OkReply, LeftB1)
       /\ ServerPasses =>
            /\ held["sb"] /= 0 => held["sb"] = SeenB1 + 1
            /\ Ordered(buf["b2"], OkReply, LeftB2)
            /\ ~fin["b2"] /\ ~shut["b2"] => LeftB2 + Len(buf["b2"]) = sent.b
Backward == ToApp /\ FromDest

\* Nothing is received that was not sent: Chunks is how many chunks the sender
\* of a direction has sent, for a pipe or a copy of that direction.
AtMost(s, n) == \A i \in 1 .. Len(s) : s[i] <= n
Chunks(x) == IF x \in {"f0", "f1", "f2", "cf", "sf"} THEN sent.f ELSE sent.b
NoneInvented ==
  /\ AtMost(got.f, sent.f) /\ AtMost(got.b, sent.b)
  /\ \A p \in Pipes : AtMost(buf[p], Chunks(p))
  /\ \A c \in Copies : held[c] <= Chunks(c)

-----------------------------------------------------------------------------
(* Forward is an invariant.                                                *)

LEMMA Basics ==
  ASSUME Typed
  PROVE  /\ \A p \in Pipes : buf[p] \in Seq(Items) /\ Len(buf[p]) \in Nat
         /\ got.f \in Seq(Items) /\ got.b \in Seq(Items)
         /\ Len(got.f) \in Nat /\ Len(got.b) \in Nat
         /\ sent.f \in Nat /\ sent.b \in Nat
         /\ \A c \in Copies : held[c] \in Items \cup {0} /\ (held[c] /= 0 <=> copy[c] = "write")
         /\ \A c \in Copies : copy[c] \in {"idle", "read", "write", "done"}
         /\ \A c \in Copies : Holds(c) \in {0, 1}
         /\ SeenF2 \in Nat /\ LeftF1 \in Int /\ SeenF1 \in Int /\ LeftF0 \in Int
         /\ SeenB0 \in Int /\ LeftB1 \in Int /\ SeenB1 \in Int /\ LeftB2 \in Int
<1>1. /\ \A p \in Pipes : buf[p] \in Seq(Items) /\ Len(buf[p]) \in Nat
      /\ got.f \in Seq(Items) /\ got.b \in Seq(Items)
      /\ Len(got.f) \in Nat /\ Len(got.b) \in Nat
  BY DEF Typed, TypeOK
<1>2. sent.f \in Nat /\ sent.b \in Nat
  BY TunnelAssumption DEF Typed, TypeOK
<1>3. /\ \A c \in Copies : held[c] \in Items \cup {0} /\ (held[c] /= 0 <=> copy[c] = "write")
      /\ \A c \in Copies : copy[c] \in {"idle", "read", "write", "done"}
  BY DEF Typed, TypeOK
<1>4. \A c : Holds(c) \in {0, 1}
  BY DEF Holds
<1>5. /\ "f0" \in Pipes /\ "f1" \in Pipes /\ "f2" \in Pipes
      /\ "b0" \in Pipes /\ "b1" \in Pipes /\ "b2" \in Pipes
  BY DEF Pipes
<1>6. SeenF2 \in Nat /\ SeenB0 \in Int
  <2> DEFINE f == Len(buf["f2"])
             b == Len(buf["b0"])
             gotF == Len(got.f)
             gotB == Len(got.b)
  <2>1. f \in Nat /\ b \in Nat
    BY <1>1, <1>5
  <2>2. gotF \in Nat /\ gotB \in Nat
    BY <1>1
  <2>3. SeenF2 = gotF + f /\ SeenB0 \in {0, gotB + b - 1}
    BY DEF SeenF2, SeenB0
  <2> HIDE DEF f, b, gotF, gotB
  <2>4. QED
    BY <2>1, <2>2, <2>3
<1>7. LeftF1 \in Int /\ LeftB1 \in Int
  BY <1>4, <1>6 DEF LeftF1, LeftB1
<1>8. SeenF1 \in Int /\ SeenB1 \in Int
  BY <1>1, <1>5, <1>7 DEF SeenF1, SeenB1
<1>9. LeftF0 \in Int /\ LeftB2 \in Int
  BY <1>4, <1>8 DEF LeftF0, LeftB2
<1>10. QED
  BY <1>1, <1>2, <1>3, <1>4, <1>6, <1>7, <1>8, <1>9

\* Steps that only end, close or fail something.
Ends ==
  /\ UNCHANGED <<got, sent, copy, held>>
  /\ server' \in {server, "closed"} /\ client' \in {client, "closed"}
  /\ decoder' \in {decoder, "done"}
  /\ broken => broken'
  /\ \A p \in Pipes : (fin[p] => fin'[p]) /\ (shut[p] => shut'[p])
  /\ \A p \in Pipes : buf'[p] \in {<<>>, buf[p]}

LEMMA ForwardEnds ==
  ASSUME Typed, Typed', Forward, Ends,
         ServerReads' => buf'["f2"] = buf["f2"],
         ServerReads' /\ ClientReads' => buf'["f1"] = buf["f1"],
         buf'["f0"] = buf["f0"] \/ fin'["f0"] \/ shut'["f0"]
  PROVE  Forward'
<1>1. ServerReads' => ServerReads
  BY DEF Ends, ServerReads, Pipes
<1>2. ClientReads' => ClientReads
  BY DEF Ends, ClientReads, Pipes
<1>3. /\ buf'["f2"] \in {<<>>, buf["f2"]} /\ buf'["f1"] \in {<<>>, buf["f1"]}
      /\ buf'["f0"] \in {<<>>, buf["f0"]} /\ got' = got /\ sent' = sent
      /\ copy' = copy /\ held' = held
  BY DEF Ends, Pipes
<1>4. FromServer'
  <2>1. Ordered(got.f, 0, 0)' /\ Ordered(buf["f2"], 0, Len(got.f))'
    BY <1>3, OrderedNothing DEF Forward, FromServer
  <2>2. copy'["sf"] = "idle" => buf'["f2"] = <<>> /\ got'.f = <<>>
    BY <1>3 DEF Forward, FromServer
  <2>3. ServerReads' /\ held'["sf"] /= 0 => held'["sf"] = SeenF2' + 1
    BY <1>1, <1>3 DEF Forward, FromServer, SeenF2
  <2>4. QED
    BY <2>1, <2>2, <2>3 DEF FromServer
<1>5. ServerReads' => LeftF1' = LeftF1
  <2>1. server' = "closed" /\ ServerReads' => server' \notin {"idle", "header"}
                                           /\ server \notin {"idle", "header"}
    BY <1>3 DEF ServerReads, Typed, Sequenced
  <2>2. ServerReads' => SeenF2' = SeenF2 /\ Holds("sf")' = Holds("sf")
    BY <1>3 DEF SeenF2, Holds
  <2>3. server' = server \/ server' = "closed"
    BY DEF Ends
  <2>4. QED
    BY <2>1, <2>2, <2>3 DEF LeftF1
<1>6. ServerReads' /\ ClientReads' => SeenF1' = SeenF1 /\ LeftF0' = LeftF0
  <2>1. ServerReads' /\ ClientReads' => SeenF1' = SeenF1
    BY <1>5 DEF SeenF1
  <2>2. client' = "closed" /\ ClientReads' => client /= "request"
    BY <1>3 DEF ClientReads, Typed, Sequenced
  <2>3. client' = client \/ client' = "closed"
    BY DEF Ends
  <2>4. QED
    BY <1>3, <2>1, <2>2, <2>3 DEF LeftF0, Holds
<1>7. FromClient'
  <2> SUFFICES ASSUME ServerReads' PROVE FromClient'
    BY DEF FromClient
  <2>1. Ordered(buf["f1"], Header, LeftF1)'
    BY <1>1, <1>3, <1>5, OrderedNothing DEF Forward, FromClient
  <2>2. ASSUME ClientReads'
        PROVE  /\ copy'["cf"] /= "idle" => SeenF1' >= 0
               /\ client' = "reply" => SeenF1' = 0
               /\ held'["cf"] /= 0 => held'["cf"] = SeenF1' + 1
               /\ Ordered(buf["f0"], Request, LeftF0)'
               /\ (~fin'["f0"] /\ ~shut'["f0"]) => LeftF0' + Len(buf'["f0"]) = sent'.f
    <3>1. /\ copy["cf"] /= "idle" => SeenF1 >= 0
          /\ client = "reply" => SeenF1 = 0
          /\ held["cf"] /= 0 => held["cf"] = SeenF1 + 1
          /\ Ordered(buf["f0"], Request, LeftF0)
          /\ (~fin["f0"] /\ ~shut["f0"]) => LeftF0 + Len(buf["f0"]) = sent.f
      BY <1>1, <1>2, <2>2 DEF Forward, FromClient
    <3>2. LeftF0' = LeftF0 /\ SeenF1' = SeenF1
      BY <1>6, <2>2
    <3>3. ~fin'["f0"] => ~fin["f0"]
      BY DEF Ends, Pipes
    <3>4. ~shut'["f0"] => ~shut["f0"]
      BY DEF Ends, Pipes
    <3>5. Ordered(buf["f0"], Request, LeftF0)'
      BY <1>3, <3>1, <3>2, OrderedNothing
    <3>6. QED
      BY <1>3, <3>1, <3>2, <3>3, <3>4, <3>5 DEF Ends
  <2>3. QED
    BY <2>1, <2>2 DEF FromClient
<1>8. QED
  BY <1>4, <1>7 DEF Forward

\* Steps that are none of Forward's business.
LEMMA ForwardSame ==
  ASSUME Forward, got'.f = got.f, sent'.f = sent.f,
         \A p \in {"f0", "f1", "f2"} : buf'[p] = buf[p],
         UNCHANGED <<fin, shut, broken, client, server, decoder>>,
         \A c \in {"cf", "sf"} : copy'[c] = copy[c] /\ held'[c] = held[c]
  PROVE  Forward'
<1>1. /\ SeenF2' = SeenF2 /\ Holds("cf")' = Holds("cf") /\ Holds("sf")' = Holds("sf")
      /\ ServerReads' = ServerReads /\ ClientReads' = ClientReads
  BY DEF SeenF2, Holds, ServerReads, ClientReads
<1>2. LeftF1' = LeftF1
  BY <1>1 DEF LeftF1
<1>3. SeenF1' = SeenF1
  BY <1>2 DEF SeenF1
<1>4. LeftF0' = LeftF0
  BY <1>1, <1>3 DEF LeftF0
<1>5. FromServer'
  BY <1>1 DEF Forward, FromServer, Ordered
<1>6. FromClient'
  BY <1>1, <1>2, <1>3, <1>4 DEF Forward, FromClient, Ordered
<1>7. QED
  BY <1>5, <1>6 DEF Forward

LEMMA ForwardAppSend ==
  ASSUME Typed, Forward, AppSend
  PROVE  Forward'
<1>1. /\ ~fin["f0"] /\ ~shut["f0"]
      /\ sent' = [sent EXCEPT !.f = @ + 1]
      /\ buf' = [buf EXCEPT !["f0"] = Append(@, sent.f + 1)]
      /\ UNCHANGED <<fin, shut, broken, relayVars, got>>
  BY DEF AppSend, CanWrite, Push
<1>2. /\ buf \in [Pipes -> Seq(Items)] /\ "f0" \in Pipes /\ sent.f \in Nat
      /\ sent'.f = sent.f + 1
  BY <1>1, TunnelAssumption DEF Typed, TypeOK, Pipes
<1>3. buf'["f0"] = Append(buf["f0"], sent.f + 1) /\ buf'["f1"] = buf["f1"] /\ buf'["f2"] = buf["f2"]
  BY <1>1, <1>2 DEF Pipes
<1>4. /\ SeenF2' = SeenF2 /\ Holds("cf")' = Holds("cf") /\ Holds("sf")' = Holds("sf")
      /\ ServerReads' = ServerReads /\ ClientReads' = ClientReads
  BY <1>1, <1>3 DEF SeenF2, Holds, ServerReads, ClientReads, relayVars
<1>5. LeftF1' = LeftF1
  BY <1>1, <1>4 DEF LeftF1, relayVars
<1>6. SeenF1' = SeenF1
  BY <1>3, <1>5 DEF SeenF1
<1>7. LeftF0' = LeftF0
  BY <1>1, <1>4, <1>6 DEF LeftF0, relayVars
<1>8. FromServer'
  BY <1>1, <1>3, <1>4 DEF Forward, FromServer, Ordered, relayVars
<1>9. ASSUME ServerReads, ClientReads
      PROVE  /\ Ordered(buf["f0"], Request, LeftF0)'
             /\ LeftF0' + Len(buf'["f0"]) = sent'.f
  <2> DEFINE s == buf["f0"]
  <2>1. s \in Seq(Items) /\ LeftF0 \in Int /\ sent.f \in Nat
    BY <1>2, Basics
  <2>2. Ordered(s, Request, LeftF0) /\ LeftF0 + Len(s) = sent.f
    BY <1>1, <1>9 DEF Forward, FromClient
  <2> HIDE DEF s
  <2>3. sent.f + 1 = Numeral(Request, LeftF0 + Len(s) + 1)
    BY <2>1, <2>2 DEF Numeral
  <2>4. /\ Ordered(Append(s, sent.f + 1), Request, LeftF0)
        /\ Len(Append(s, sent.f + 1)) = Len(s) + 1
    BY <2>1, <2>2, <2>3, OrderedAppend
  <2>5. LeftF0 + (Len(s) + 1) = sent.f + 1
    BY <2>1, <2>2
  <2>6. QED
    BY <1>2, <1>3, <1>7, <2>4, <2>5 DEF s
<1>10. FromClient'
  BY <1>1, <1>3, <1>4, <1>5, <1>6, <1>9 DEF Forward, FromClient, Ordered, relayVars
<1>11. QED
  BY <1>8, <1>10 DEF Forward

LEMMA ForwardDestRecv ==
  ASSUME Typed, Forward, DestRecv
  PROVE  Forward'
<1> DEFINE x == Head(buf["f2"])
           s == buf["f2"]
<1>1. /\ s /= <<>>
      /\ got' = [got EXCEPT !.f = Append(@, x)]
      /\ buf' = [buf EXCEPT !["f2"] = Tail(@)]
      /\ UNCHANGED <<fin, shut, broken, relayVars, sent>>
  BY DEF DestRecv, HasItem, Pop
<1>2. /\ buf \in [Pipes -> Seq(Items)] /\ "f2" \in Pipes
      /\ got \in [f : Seq(Items), b : Seq(Items)]
  BY DEF Typed, TypeOK, Pipes
<1>3. /\ buf'["f2"] = Tail(s) /\ buf'["f1"] = buf["f1"] /\ buf'["f0"] = buf["f0"]
      /\ got'.f = Append(got.f, x)
  BY <1>1, <1>2 DEF Pipes
<1>4. s \in Seq(Items) /\ got.f \in Seq(Items) /\ Len(got.f) \in Nat /\ Len(s) \in Nat
  BY <1>2
<1>5. Ordered(got.f, 0, 0) /\ Ordered(s, 0, Len(got.f))
  BY DEF Forward, FromServer
<1>6. copy["sf"] /= "idle"
  BY <1>1 DEF Forward, FromServer
<1>0. x = Head(s) /\ Len(got.f) \in Int
  BY <1>4
<1> HIDE DEF x, s
<1>7. /\ x = Numeral(0, Len(got.f) + 1) /\ Ordered(Tail(s), 0, Len(got.f) + 1)
      /\ Len(Tail(s)) = Len(s) - 1
  BY <1>0, <1>1, <1>4, <1>5, OrderedTail
<1>8. Ordered(Append(got.f, x), 0, 0) /\ Len(Append(got.f, x)) = Len(got.f) + 1
  <2>1. 0 + Len(got.f) + 1 = Len(got.f) + 1
    BY <1>4
  <2>2. QED
    BY <1>4, <1>5, <1>7, <2>1, OrderedAppend
<1>9. SeenF2' = SeenF2
  <2>1. SeenF2 = Len(got.f) + Len(s) /\ SeenF2' = Len(got'.f) + Len(buf'["f2"])
    BY DEF SeenF2, s
  <2>2. (Len(got.f) + 1) + (Len(s) - 1) = Len(got.f) + Len(s)
    BY <1>4
  <2>3. QED
    BY <1>3, <1>7, <1>8, <2>1, <2>2
<1>10. /\ Holds("cf")' = Holds("cf") /\ Holds("sf")' = Holds("sf")
       /\ ServerReads' = ServerReads /\ ClientReads' = ClientReads
  BY <1>1 DEF Holds, ServerReads, ClientReads, relayVars
<1>11. LeftF1' = LeftF1
  BY <1>1, <1>9, <1>10 DEF LeftF1, relayVars
<1>12. SeenF1' = SeenF1
  BY <1>3, <1>11 DEF SeenF1
<1>13. LeftF0' = LeftF0
  BY <1>1, <1>10, <1>12 DEF LeftF0, relayVars
<1>14. FromServer'
  <2>1. Ordered(got.f, 0, 0)' /\ Ordered(buf["f2"], 0, Len(got.f))'
    BY <1>3, <1>7, <1>8
  <2>2. QED
    BY <1>1, <1>6, <1>9, <1>10, <2>1 DEF Forward, FromServer, relayVars
<1>15. FromClient'
  BY <1>1, <1>3, <1>10, <1>11, <1>12, <1>13 DEF Forward, FromClient, Ordered, relayVars
<1>16. QED
  BY <1>14, <1>15 DEF Forward

LEMMA ForwardReadRequest ==
  ASSUME Typed, Forward, ReadRequest
  PROVE  Forward'
<1> DEFINE s == buf["f0"]
<1>1. /\ s /= <<>> /\ client = "request" /\ client' = "dial"
      /\ buf' = [buf EXCEPT !["f0"] = Tail(@)]
      /\ UNCHANGED <<fin, shut, broken, copy, held, server, decoder, endVars>>
  BY DEF ReadRequest, HasItem, Pop
<1>2. buf \in [Pipes -> Seq(Items)] /\ "f0" \in Pipes /\ s \in Seq(Items) /\ Len(s) \in Nat
  BY DEF Typed, TypeOK, Pipes
<1>3. buf'["f0"] = Tail(s) /\ buf'["f1"] = buf["f1"] /\ buf'["f2"] = buf["f2"]
  BY <1>1, <1>2 DEF Pipes
<1>4. copy["cf"] = "idle" /\ held["cf"] = 0
  BY <1>1 DEF Typed, Sequenced, TypeOK, Copies, ClientCopies
<1>5. /\ SeenF2' = SeenF2 /\ Holds("cf")' = Holds("cf") /\ Holds("sf")' = Holds("sf")
      /\ ServerReads' = ServerReads /\ ClientReads /\ ClientReads'
  BY <1>1, <1>3 DEF SeenF2, Holds, ServerReads, ClientReads, endVars
<1>6. LeftF1' = LeftF1
  BY <1>1, <1>5 DEF LeftF1
<1>7. SeenF1' = SeenF1
  BY <1>3, <1>6 DEF SeenF1
<1>8. LeftF0 = -1 /\ LeftF0' = 0
  BY <1>1, <1>4 DEF LeftF0
<1>9. FromServer'
  BY <1>1, <1>3, <1>5 DEF Forward, FromServer, Ordered, endVars
<1>10. FromClient'
  <2> SUFFICES ASSUME ServerReads' PROVE FromClient'
    BY DEF FromClient
  <2>1. /\ Ordered(buf["f1"], Header, LeftF1) /\ Ordered(s, Request, -1)
        /\ (~fin["f0"] /\ ~shut["f0"]) => -1 + Len(s) = sent.f
    BY <1>5, <1>8 DEF Forward, FromClient
  <2> HIDE DEF s
  <2>2. Ordered(Tail(s), Request, -1 + 1) /\ Len(Tail(s)) = Len(s) - 1
    BY <1>1, <1>2, <2>1, OrderedTail
  <2>3. -1 + 1 = 0 /\ 0 + (Len(s) - 1) = -1 + Len(s)
    BY <1>2
  <2>4. Ordered(buf["f0"], Request, LeftF0)'
    BY <1>3, <1>8, <2>2, <2>3
  <2>5. (~fin'["f0"] /\ ~shut'["f0"]) => LeftF0' + Len(buf'["f0"]) = sent'.f
    BY <1>1, <1>3, <1>8, <2>1, <2>2, <2>3 DEF endVars
  <2>6. Ordered(buf["f1"], Header, LeftF1)'
    BY <1>3, <1>6, <2>1
  <2>7. copy'["cf"] = "idle" /\ held'["cf"] = 0 /\ client' /= "reply"
    BY <1>1, <1>4
  <2>8. QED
    BY <2>4, <2>5, <2>6, <2>7 DEF FromClient
<1>11. QED
  BY <1>9, <1>10 DEF Forward

LEMMA ForwardOpenStream ==
  ASSUME Typed, Forward, OpenStream
  PROVE  Forward'
<1>1. /\ client = "dial" /\ client' = "opened" /\ server' = "header"
      /\ decoder' = "reading" /\ server = "idle" /\ copy["cf"] = "idle"
      /\ UNCHANGED <<buf, fin, shut, broken, copy, held, endVars>>
  BY DEF OpenStream, pipeVars, Typed, Sequenced
<1>2. /\ SeenF2' = SeenF2 /\ Holds("cf")' = Holds("cf") /\ Holds("sf")' = Holds("sf")
      /\ ServerReads /\ ServerReads' /\ ClientReads /\ ClientReads'
  BY <1>1 DEF SeenF2, Holds, ServerReads, ClientReads, endVars
<1>3. LeftF1' = LeftF1
  BY <1>1 DEF LeftF1
<1>4. SeenF1' = SeenF1
  BY <1>1, <1>3 DEF SeenF1
<1>5. LeftF0' = LeftF0
  BY <1>1 DEF LeftF0
<1>6. FromServer'
  BY <1>1, <1>2 DEF Forward, FromServer, endVars
<1>7. FromClient'
  BY <1>1, <1>2, <1>3, <1>4, <1>5 DEF Forward, FromClient, endVars
<1>8. QED
  BY <1>6, <1>7 DEF Forward

LEMMA ForwardDialTunnel ==
  ASSUME Typed, Forward, DialTunnel
  PROVE  Forward'
<1>1. /\ client = "opened" /\ client' = "reply" /\ ~broken
      /\ buf' = Push(buf, "f1", Header)
      /\ UNCHANGED <<fin, shut, broken, copy, held, server, decoder, endVars>>
  BY DEF DialTunnel
<1>2. /\ copy["cf"] = "idle" /\ copy["sf"] = "idle" /\ buf["f1"] = <<>>
      /\ server \in {"idle", "header", "closed"}
  BY <1>1 DEF Typed, Sequenced
<1>3. held["cf"] = 0 /\ held["sf"] = 0
  BY <1>1, <1>2 DEF Copies, ClientCopies, ServerCopies, Typed, TypeOK
<1>4. /\ buf'["f0"] = buf["f0"] /\ buf'["f2"] = buf["f2"]
      /\ buf'["f1"] = IF shut["f1"] THEN <<>> ELSE Append(<<>>, Header)
  <2>1. buf \in [Pipes -> Seq(Items)] /\ "f1" \in Pipes
    BY DEF Typed, TypeOK, Pipes
  <2>2. QED
    BY <1>1, <1>2, <2>1 DEF Push, Pipes
<1>5. /\ SeenF2' = SeenF2 /\ Holds("cf")' = 0 /\ Holds("sf")' = Holds("sf")
      /\ ServerReads' => ServerReads /\ server \in {"idle", "header"}
      /\ ClientReads /\ (ClientReads' => ~shut["f1"])
  BY <1>1, <1>2, <1>3, <1>4 DEF SeenF2, Holds, ServerReads, ClientReads, endVars
<1>6. FromServer'
  <2>1. got' = got /\ held' = held /\ buf'["f2"] = buf["f2"]
    BY <1>1, <1>4 DEF endVars
  <2>2. FromServer /\ copy["sf"] = "idle" /\ held["sf"] = 0
    BY <1>2, <1>3 DEF Forward
  <2>3. QED
    BY <2>1, <2>2 DEF FromServer
<1>7. FromClient'
  <2> SUFFICES ASSUME ServerReads' PROVE FromClient'
    BY DEF FromClient
  <2>1. LeftF1' = -1 /\ LeftF0 = 0
    BY <1>1, <1>2, <1>5 DEF LeftF1, LeftF0
  <2>2. /\ Ordered(Append(<<>>, Header), Header, -1)
        /\ Len(Append(<<>>, Header)) = 1
    <3> DEFINE e == <<>>
               l == -1
    <3>1. e \in Seq(Items) /\ Len(e) = 0 /\ l \in Int /\ l + Len(e) + 1 = 0
      OBVIOUS
    <3>2. Ordered(e, Header, l)
      BY OrderedNothing
    <3> HIDE DEF e, l
    <3>3. Header = Numeral(Header, l + Len(e) + 1)
      BY <3>1 DEF Numeral
    <3>4. Ordered(Append(e, Header), Header, l) /\ Len(Append(e, Header)) = Len(e) + 1
      BY <3>1, <3>2, <3>3, OrderedAppend
    <3>5. QED
      BY <3>1, <3>4 DEF e, l
  <2>3. Ordered(buf["f1"], Header, LeftF1)'
    BY <1>4, <2>1, <2>2, OrderedNothing
  <2>4. ASSUME ClientReads'
        PROVE  /\ SeenF1' = 0 /\ LeftF0' = 0
    <3>1. SeenF1' = -1 + 1
      BY <1>4, <1>5, <2>1, <2>2, <2>4 DEF SeenF1
    <3>2. SeenF1' = 0
      BY <3>1
    <3>3. QED
      BY <1>1, <1>3, <1>5, <3>2 DEF LeftF0
  <2>5. /\ Ordered(buf["f0"], Request, 0)
        /\ (~fin["f0"] /\ ~shut["f0"]) => 0 + Len(buf["f0"]) = sent.f
    BY <1>5, <2>1 DEF Forward, FromClient
  <2>6. QED
    BY <1>1, <1>3, <1>4, <2>3, <2>4, <2>5 DEF FromClient, endVars
<1>8. QED
  BY <1>6, <1>7 DEF Forward

LEMMA ForwardReply ==
  ASSUME Typed, Forward, Reply
  PROVE  Forward'
<1>1. /\ client = "reply" /\ client' = "copy"
      /\ buf' = Push(buf, "b0", OkReply)
      /\ copy' = [c \in Copies |-> IF c \in ClientCopies THEN "read" ELSE copy[c]]
      /\ UNCHANGED <<fin, shut, broken, held, server, decoder, endVars>>
  BY DEF Reply
<1>2. /\ copy["cf"] = "idle" /\ held["cf"] = 0
      /\ copy'["cf"] = "read" /\ copy'["sf"] = copy["sf"]
  BY <1>1 DEF Copies, ClientCopies, ServerCopies, Typed, TypeOK, Sequenced
<1>3. \A p \in {"f0", "f1", "f2"} : buf'[p] = buf[p]
  BY <1>1 DEF Push, Pipes, Typed, TypeOK
<1>4. /\ SeenF2' = SeenF2 /\ Holds("cf")' = 0 /\ Holds("sf")' = Holds("sf")
      /\ ServerReads' = ServerReads /\ (ClientReads' => ClientReads)
  BY <1>1, <1>2, <1>3 DEF SeenF2, Holds, ServerReads, ClientReads, endVars
<1>5. LeftF1' = LeftF1
  BY <1>1, <1>4 DEF LeftF1
<1>6. SeenF1' = SeenF1
  BY <1>3, <1>5 DEF SeenF1
<1>7. ServerReads /\ ClientReads => SeenF1 = 0 /\ LeftF0' = LeftF0
  <2>1. LeftF0 = 0 /\ LeftF0' = SeenF1' + 0
    BY <1>1, <1>2, <1>4 DEF LeftF0
  <2>2. ServerReads /\ ClientReads => SeenF1 = 0
    BY <1>1 DEF Forward, FromClient
  <2>3. QED
    BY <1>6, <2>1, <2>2
<1>8. FromServer'
  BY <1>1, <1>2, <1>3, <1>4 DEF Forward, FromServer, Ordered, endVars
<1>9. FromClient'
  BY <1>1, <1>2, <1>3, <1>4, <1>5, <1>6, <1>7 DEF Forward, FromClient, Ordered, endVars
<1>10. QED
  BY <1>8, <1>9 DEF Forward

LEMMA ForwardDecode ==
  ASSUME Typed, Forward, Decode
  PROVE  Forward'
<1> DEFINE s == buf["f1"]
<1>1. /\ s /= <<>> /\ decoder = "reading" /\ decoder' = "done"
      /\ server' = IF server = "header" THEN "dial" ELSE server
      /\ buf' = [buf EXCEPT !["f1"] = Tail(@)]
      /\ UNCHANGED <<fin, shut, broken, copy, held, client, endVars>>
  BY DEF Decode, HasItem, Pop
<1>2. buf \in [Pipes -> Seq(Items)] /\ "f1" \in Pipes /\ s \in Seq(Items) /\ Len(s) \in Nat
  BY DEF Typed, TypeOK, Pipes
<1>3. buf'["f1"] = Tail(s) /\ buf'["f0"] = buf["f0"] /\ buf'["f2"] = buf["f2"]
  BY <1>1, <1>2 DEF Pipes
<1>4. server \in {"header", "closed"} /\ copy["sf"] = "idle" /\ held["sf"] = 0
  BY <1>1 DEF Typed, Sequenced, TypeOK, Copies, ServerCopies
<1>5. /\ SeenF2' = SeenF2 /\ Holds("cf")' = Holds("cf") /\ Holds("sf")' = 0
      /\ ClientReads' = ClientReads
      /\ ServerReads' => ServerReads /\ server = "header" /\ server' = "dial"
  BY <1>1, <1>3, <1>4 DEF SeenF2, Holds, ServerReads, ClientReads, endVars
<1>6. FromServer'
  BY <1>1, <1>3, <1>4, <1>5 DEF Forward, FromServer, Ordered, endVars
<1>7. FromClient'
  <2> SUFFICES ASSUME ServerReads' PROVE FromClient'
    BY DEF FromClient
  <2>1. SeenF2 = 0
    <3>1. got.f = <<>> /\ buf["f2"] = <<>>
      BY <1>4 DEF Forward, FromServer
    <3>2. SeenF2 = Len(<<>>) + Len(<<>>) /\ Len(<<>>) = 0
      BY <3>1 DEF SeenF2
    <3>3. QED
      BY <3>2
  <2>2. LeftF1 = -1 /\ LeftF1' = 0
    BY <1>5, <2>1 DEF LeftF1
  <2>3. Ordered(s, Header, -1)
    BY <1>5, <2>2 DEF Forward, FromClient
  <2> HIDE DEF s
  <2>4. Ordered(Tail(s), Header, -1 + 1) /\ Len(Tail(s)) = Len(s) - 1
    BY <1>1, <1>2, <2>3, OrderedTail
  <2>5. -1 + 1 = 0 /\ 0 + (Len(s) - 1) = -1 + Len(s)
    BY <1>2
  <2>6. Ordered(buf["f1"], Header, LeftF1)'
    BY <1>3, <2>2, <2>4, <2>5
  <2>7. SeenF1' = SeenF1
    BY <1>3, <2>2, <2>4, <2>5 DEF SeenF1, s
  <2>8. LeftF0' = LeftF0
    BY <1>1, <1>5, <2>7 DEF LeftF0
  <2>9. QED
    BY <1>1, <1>3, <1>5, <2>6, <2>7, <2>8 DEF Forward, FromClient, Ordered, endVars
<1>8. QED
  BY <1>6, <1>7 DEF Forward

LEMMA ForwardDialDest ==
  ASSUME Typed, Forward, DialDest
  PROVE  Forward'
<1>1. /\ server = "dial" /\ server' = "copy"
      /\ copy'["sf"] = "read" /\ copy'["cf"] = copy["cf"]
      /\ UNCHANGED <<buf, fin, shut, broken, held, client, decoder, endVars>>
  BY DEF DialDest, pipeVars, Copies, ClientCopies, ServerCopies
<1>2. held["sf"] = 0 /\ held'["sf"] = 0
  BY <1>1 DEF Typed, TypeOK, Sequenced, Copies, ServerCopies
<1>3. /\ SeenF2' = SeenF2 /\ Holds("cf")' = Holds("cf") /\ Holds("sf")' = Holds("sf")
      /\ ServerReads /\ ClientReads' = ClientReads
  BY <1>1 DEF SeenF2, Holds, ServerReads, ClientReads, endVars
<1>4. LeftF1' = LeftF1
  BY <1>1, <1>3 DEF LeftF1
<1>5. SeenF1' = SeenF1
  BY <1>1, <1>4 DEF SeenF1
<1>6. LeftF0' = LeftF0
  BY <1>1, <1>3, <1>5 DEF LeftF0
<1>7. FromServer'
  BY <1>1, <1>2, <1>3 DEF Forward, FromServer, Ordered, endVars
<1>8. FromClient'
  BY <1>1, <1>3, <1>4, <1>5, <1>6 DEF Forward, FromClient, Ordered, endVars
<1>9. QED
  BY <1>7, <1>8 DEF Forward

\* The copies between the tunnel and the destination, and between the
\* application and the tunnel.
LEMMA ForwardServerCopy ==
  ASSUME Typed, Forward, Copy("sf")
  PROVE  Forward'
<1>0. /\ "sf" \in Copies /\ Src["sf"] = "f1" /\ Dst["sf"] = "f2"
      /\ copy["sf"] \in {"read", "write"}
      /\ copy \in [Copies -> {"idle", "read", "write", "done"}]
      /\ held \in [Copies -> Items \cup {0}] /\ buf \in [Pipes -> Seq(Items)]
      /\ "f1" \in Pipes /\ "f2" \in Pipes /\ "cf" \in Copies
      /\ server \notin {"idle", "header", "dial"}
      /\ held["sf"] /= 0 <=> copy["sf"] = "write"
  BY DEF Copies, ClientCopies, ServerCopies, Src, Dst, Pipes, Typed, TypeOK, Sequenced,
         Copy, CopyRead, CopyEnd, CopyWrite, CopyFail
<1>1. CASE CopyRead("sf")
  <2> DEFINE s == buf["f1"]
  <2>1. /\ s /= <<>> /\ copy["sf"] = "read" /\ copy'["sf"] = "write"
        /\ held' = [held EXCEPT !["sf"] = Head(s)] /\ copy'["cf"] = copy["cf"]
        /\ buf' = [buf EXCEPT !["f1"] = Tail(@)]
        /\ UNCHANGED <<fin, shut, broken, client, server, decoder, endVars>>
    BY <1>0, <1>1 DEF CopyRead, HasItem, SetCopy, Pop
  <2>2. /\ s \in Seq(Items) /\ Len(s) \in Nat /\ SeenF2 \in Nat
        /\ held["sf"] = 0 /\ held'["sf"] = Head(s) /\ held'["cf"] = held["cf"]
        /\ Head(s) /= 0
    <3>1. held["sf"] = 0 /\ held'["sf"] = Head(s) /\ held'["cf"] = held["cf"]
      BY <1>0, <2>1
    <3>2. s \in Seq(Items) /\ Len(s) \in Nat /\ SeenF2 \in Nat
      BY <1>0, Basics
    <3>3. Head(s) \in Items
      BY <2>1, <3>2
    <3>4. QED
      BY <3>1, <3>2, <3>3 DEF Items, Request, Header, OkReply
  <2>3. buf'["f1"] = Tail(s) /\ buf'["f0"] = buf["f0"] /\ buf'["f2"] = buf["f2"]
    BY <1>0, <2>1 DEF Pipes
  <2>4. /\ SeenF2' = SeenF2 /\ Holds("cf")' = Holds("cf")
        /\ Holds("sf") = 0 /\ Holds("sf")' = 1
        /\ ServerReads' = ServerReads /\ ClientReads' = ClientReads
    BY <1>0, <2>1, <2>2, <2>3 DEF SeenF2, Holds, ServerReads, ClientReads, endVars
  <2>5. LeftF1 = SeenF2 /\ LeftF1' = SeenF2 + 1
    BY <1>0, <2>1, <2>2, <2>4 DEF LeftF1
  <2>6. ASSUME ServerReads
        PROVE  /\ Head(s) = SeenF2 + 1 /\ Ordered(buf["f1"], Header, LeftF1)'
               /\ SeenF1' = SeenF1
    <3>1. Ordered(s, Header, SeenF2)
      BY <2>5, <2>6 DEF Forward, FromClient
    <3> HIDE DEF s
    <3>2. /\ Head(s) = Numeral(Header, SeenF2 + 1)
          /\ Ordered(Tail(s), Header, SeenF2 + 1) /\ Len(Tail(s)) = Len(s) - 1
      BY <2>1, <2>2, <3>1, OrderedTail
    <3>3. SeenF2 + 1 /= 0 /\ (SeenF2 + 1) + (Len(s) - 1) = SeenF2 + Len(s)
      BY <2>2
    <3>4. QED
      BY <2>3, <2>5, <3>2, <3>3 DEF Numeral, SeenF1, s
  <2>7. ServerReads => LeftF0' = LeftF0
    BY <2>1, <2>4, <2>6 DEF LeftF0
  <2>8. FromServer'
    BY <1>0, <2>1, <2>2, <2>3, <2>4, <2>6 DEF Forward, FromServer, Ordered, endVars
  <2>9. FromClient'
    <3> HIDE DEF s
    <3>1. QED
      BY <2>1, <2>2, <2>3, <2>4, <2>6, <2>7 DEF Forward, FromClient, Ordered, endVars
  <2>10. QED
    BY <2>8, <2>9 DEF Forward
<1>2. CASE CopyEnd("sf") \/ CopyFail("sf")
  <2>1. /\ UNCHANGED <<buf, fin, shut, broken, client, server, decoder, endVars>>
        /\ held'["sf"] = 0 /\ copy'["sf"] /= "idle"
        /\ copy'["sf"] = "done" \/ shut["f2"]
    BY <1>0, <1>2 DEF CopyEnd, CopyFail, SetCopy, WriteFails, Failed, TunnelPipes, pipeVars
  <2>2. ~ServerReads'
    BY <1>0, <2>1 DEF ServerReads
  <2>3. QED
    BY <2>1, <2>2 DEF Forward, FromServer, FromClient, endVars
<1>3. CASE CopyWrite("sf")
  <2> DEFINE s == buf["f2"]
             x == held["sf"]
  <2>1. /\ copy["sf"] = "write" /\ copy'["sf"] = "read" /\ ~shut["f2"]
        /\ held' = [held EXCEPT !["sf"] = 0] /\ copy'["cf"] = copy["cf"]
        /\ buf' = [buf EXCEPT !["f2"] = Append(@, x)]
        /\ UNCHANGED <<fin, shut, broken, client, server, decoder, endVars>>
    BY <1>0, <1>3 DEF CopyWrite, CanWrite, Push, SetCopy
  <2>2. /\ s \in Seq(Items) /\ Len(s) \in Nat /\ SeenF2 \in Nat /\ Len(got.f) \in Nat
        /\ x /= 0 /\ held'["sf"] = 0 /\ held'["cf"] = held["cf"]
    <3>1. x /= 0 /\ held'["sf"] = 0 /\ held'["cf"] = held["cf"]
      BY <1>0, <2>1
    <3>2. s \in Seq(Items) /\ Len(s) \in Nat /\ SeenF2 \in Nat /\ Len(got.f) \in Nat
      BY <1>0, Basics
    <3>3. QED
      BY <3>1, <3>2
  <2>3. buf'["f2"] = Append(s, x) /\ buf'["f0"] = buf["f0"] /\ buf'["f1"] = buf["f1"]
    BY <1>0, <2>1 DEF Pipes
  <2>4. /\ Holds("cf")' = Holds("cf") /\ Holds("sf") = 1 /\ Holds("sf")' = 0
        /\ ServerReads /\ ServerReads' /\ ClientReads' = ClientReads
    BY <1>0, <2>1, <2>2 DEF Holds, ServerReads, ClientReads
  <2>5. /\ Ordered(s, 0, Len(got.f)) /\ x = SeenF2 + 1 /\ SeenF2 = Len(got.f) + Len(s)
    BY <2>2, <2>4 DEF Forward, FromServer, SeenF2
  <2> HIDE DEF s, x
  <2>6. x = Numeral(0, Len(got.f) + Len(s) + 1) /\ Len(got.f) \in Int
    BY <2>2, <2>5 DEF Numeral
  <2>7. /\ Ordered(Append(s, x), 0, Len(got.f)) /\ Len(Append(s, x)) = Len(s) + 1
    BY <2>2, <2>5, <2>6, OrderedAppend
  <2>8. SeenF2' = SeenF2 + 1
    <3>1. SeenF2' = Len(got.f) + (Len(s) + 1)
      BY <2>1, <2>3, <2>7 DEF SeenF2, endVars
    <3> DEFINE m == Len(got.f)
               n == Len(s)
    <3>2. m \in Nat /\ n \in Nat /\ SeenF2 = m + n /\ SeenF2' = m + (n + 1)
      BY <2>2, <2>5, <3>1
    <3> HIDE DEF m, n
    <3>3. QED
      BY <3>2
  <2>9. LeftF1' = LeftF1
    BY <1>0, <2>1, <2>2, <2>4, <2>8 DEF LeftF1
  <2>10. SeenF1' = SeenF1
    BY <2>3, <2>9 DEF SeenF1
  <2>11. LeftF0' = LeftF0
    BY <2>1, <2>4, <2>10 DEF LeftF0
  <2>12. FromServer'
    BY <2>1, <2>2, <2>3, <2>7 DEF Forward, FromServer, endVars
  <2>13. FromClient'
    BY <2>1, <2>2, <2>3, <2>4, <2>9, <2>10, <2>11 DEF Forward, FromClient, endVars
  <2>14. QED
    BY <2>12, <2>13 DEF Forward
<1>4. QED
  BY <1>1, <1>2, <1>3 DEF Copy

LEMMA ForwardClientCopy ==
  ASSUME Typed, Forward, Copy("cf")
  PROVE  Forward'
<1>0. /\ "cf" \in Copies /\ Src["cf"] = "f0" /\ Dst["cf"] = "f1"
      /\ copy["cf"] \in {"read", "write"}
      /\ copy \in [Copies -> {"idle", "read", "write", "done"}]
      /\ held \in [Copies -> Items \cup {0}] /\ buf \in [Pipes -> Seq(Items)]
      /\ "f0" \in Pipes /\ "f1" \in Pipes /\ "sf" \in Copies
      /\ client \notin {"request", "dial", "opened", "reply"}
      /\ held["cf"] /= 0 <=> copy["cf"] = "write"
  BY DEF Copies, ClientCopies, ServerCopies, Src, Dst, Pipes, Typed, TypeOK, Sequenced,
         Copy, CopyRead, CopyEnd, CopyWrite, CopyFail
<1>1. CASE CopyRead("cf")
  <2> DEFINE s == buf["f0"]
  <2>1. /\ s /= <<>> /\ copy["cf"] = "read" /\ copy'["cf"] = "write"
        /\ held' = [held EXCEPT !["cf"] = Head(s)] /\ copy'["sf"] = copy["sf"]
        /\ buf' = [buf EXCEPT !["f0"] = Tail(@)]
        /\ UNCHANGED <<fin, shut, broken, client, server, decoder, endVars>>
    BY <1>0, <1>1 DEF CopyRead, HasItem, SetCopy, Pop
  <2>2. /\ s \in Seq(Items) /\ Len(s) \in Nat /\ SeenF1 \in Int
        /\ held["cf"] = 0 /\ held'["cf"] = Head(s) /\ held'["sf"] = held["sf"]
        /\ Head(s) /= 0
    <3>1. held["cf"] = 0 /\ held'["cf"] = Head(s) /\ held'["sf"] = held["sf"]
      BY <1>0, <2>1
    <3>2. s \in Seq(Items) /\ Len(s) \in Nat /\ SeenF1 \in Int
      BY <1>0, Basics
    <3>3. Head(s) \in Items
      BY <2>1, <3>2
    <3>4. QED
      BY <3>1, <3>2, <3>3 DEF Items, Request, Header, OkReply
  <2>3. buf'["f0"] = Tail(s) /\ buf'["f1"] = buf["f1"] /\ buf'["f2"] = buf["f2"]
    BY <1>0, <2>1 DEF Pipes
  <2>4. /\ SeenF2' = SeenF2 /\ Holds("sf")' = Holds("sf")
        /\ Holds("cf") = 0 /\ Holds("cf")' = 1
        /\ ServerReads' = ServerReads /\ ClientReads' = ClientReads
    BY <1>0, <2>1, <2>2, <2>3 DEF SeenF2, Holds, ServerReads, ClientReads, endVars
  <2>5. LeftF1' = LeftF1
    BY <2>1, <2>4 DEF LeftF1
  <2>6. SeenF1' = SeenF1
    BY <2>3, <2>5 DEF SeenF1
  <2>7. LeftF0 = SeenF1 /\ LeftF0' = SeenF1 + 1
    BY <1>0, <2>1, <2>2, <2>4, <2>6 DEF LeftF0
  <2>8. ASSUME ServerReads, ClientReads
        PROVE  /\ Head(s) = SeenF1 + 1 /\ Ordered(buf["f0"], Request, LeftF0)'
               /\ LeftF0' + Len(buf'["f0"]) = LeftF0 + Len(s) /\ SeenF1 >= 0
    <3>1. Ordered(s, Request, SeenF1) /\ SeenF1 >= 0
      BY <1>0, <2>7, <2>8 DEF Forward, FromClient
    <3> HIDE DEF s
    <3>2. /\ Head(s) = Numeral(Request, SeenF1 + 1)
          /\ Ordered(Tail(s), Request, SeenF1 + 1) /\ Len(Tail(s)) = Len(s) - 1
      BY <2>1, <2>2, <3>1, OrderedTail
    <3>3. SeenF1 + 1 /= 0 /\ (SeenF1 + 1) + (Len(s) - 1) = SeenF1 + Len(s)
      BY <2>2, <3>1
    <3>4. QED
      BY <2>3, <2>7, <3>1, <3>2, <3>3 DEF Numeral
  <2>9. FromServer'
    BY <1>0, <2>1, <2>2, <2>3, <2>4 DEF Forward, FromServer, Ordered, endVars
  <2>10. FromClient'
    <3>1. FromClient
      BY DEF Forward
    <3>2. ServerReads => Ordered(buf["f1"], Header, LeftF1)'
      BY <2>3, <2>5, <3>1 DEF FromClient
    <3>3. ASSUME ServerReads, ClientReads
          PROVE  (~fin'["f0"] /\ ~shut'["f0"]) => LeftF0' + Len(buf'["f0"]) = sent'.f
      BY <2>1, <2>8, <3>1, <3>3 DEF FromClient, endVars
    <3> HIDE DEF s
    <3>4. QED
      BY <1>0, <2>1, <2>2, <2>4, <2>6, <2>8, <3>2, <3>3 DEF FromClient
  <2>11. QED
    BY <2>9, <2>10 DEF Forward
<1>2. CASE CopyEnd("cf") \/ CopyFail("cf")
  <2>1. /\ UNCHANGED <<buf, fin, shut, broken, client, server, decoder, endVars>>
        /\ held'["cf"] = 0 /\ copy'["cf"] /= "idle"
        /\ copy'["cf"] = "done" \/ broken \/ shut["f1"]
        /\ copy'["sf"] = copy["sf"] /\ held'["sf"] = held["sf"]
    BY <1>0, <1>2 DEF CopyEnd, CopyFail, SetCopy, WriteFails, Failed, TunnelPipes, pipeVars
  <2>2. ~ClientReads'
    BY <1>0, <2>1 DEF ClientReads
  <2>3. /\ SeenF2' = SeenF2 /\ Holds("sf")' = Holds("sf") /\ ServerReads' = ServerReads
    BY <2>1 DEF SeenF2, Holds, ServerReads, endVars
  <2>4. LeftF1' = LeftF1
    BY <2>1, <2>3 DEF LeftF1
  <2>5. FromServer'
    BY <2>1, <2>3 DEF Forward, FromServer, Ordered, endVars
  <2>6. FromClient'
    BY <2>1, <2>2, <2>3, <2>4 DEF Forward, FromClient, Ordered
  <2>7. QED
    BY <2>5, <2>6 DEF Forward
<1>3. CASE CopyWrite("cf")
  <2> DEFINE s == buf["f1"]
             x == held["cf"]
  <2>1. /\ copy["cf"] = "write" /\ copy'["cf"] = "read" /\ ~shut["f1"] /\ ~broken
        /\ held' = [held EXCEPT !["cf"] = 0] /\ copy'["sf"] = copy["sf"]
        /\ buf' = [buf EXCEPT !["f1"] = Append(@, x)]
        /\ UNCHANGED <<fin, shut, broken, client, server, decoder, endVars>>
    BY <1>0, <1>3 DEF CopyWrite, CanWrite, Push, SetCopy, Failed, TunnelPipes
  <2>2. /\ s \in Seq(Items) /\ Len(s) \in Nat /\ SeenF1 \in Int /\ LeftF1 \in Int
        /\ x /= 0 /\ held'["cf"] = 0 /\ held'["sf"] = held["sf"]
    <3>1. x /= 0 /\ held'["cf"] = 0 /\ held'["sf"] = held["sf"]
      BY <1>0, <2>1
    <3>2. s \in Seq(Items) /\ Len(s) \in Nat /\ SeenF1 \in Int /\ LeftF1 \in Int
      BY <1>0, Basics
    <3>3. QED
      BY <3>1, <3>2
  <2>3. buf'["f1"] = Append(s, x) /\ buf'["f0"] = buf["f0"] /\ buf'["f2"] = buf["f2"]
    BY <1>0, <2>1 DEF Pipes
  <2>4. /\ SeenF2' = SeenF2 /\ Holds("sf")' = Holds("sf")
        /\ Holds("cf") = 1 /\ Holds("cf")' = 0
        /\ ServerReads' = ServerReads /\ ClientReads /\ ClientReads'
    BY <1>0, <2>1, <2>2, <2>3 DEF SeenF2, Holds, ServerReads, ClientReads, endVars
  <2>5. LeftF1' = LeftF1
    BY <2>1, <2>4 DEF LeftF1
  <2>6. ASSUME ServerReads
        PROVE  /\ Ordered(buf["f1"], Header, LeftF1)' /\ SeenF1' = SeenF1 + 1
               /\ SeenF1 >= 0
    <3>1. /\ Ordered(s, Header, LeftF1) /\ x = SeenF1 + 1 /\ SeenF1 >= 0
          /\ SeenF1 = LeftF1 + Len(s)
      BY <1>0, <2>2, <2>4, <2>6 DEF Forward, FromClient, SeenF1
    <3> HIDE DEF s, x
    <3>2. x = Numeral(Header, LeftF1 + Len(s) + 1)
      BY <2>2, <3>1 DEF Numeral
    <3>3. Ordered(Append(s, x), Header, LeftF1) /\ Len(Append(s, x)) = Len(s) + 1
      BY <2>2, <3>1, <3>2, OrderedAppend
    <3>4. SeenF1' = LeftF1 + (Len(s) + 1)
      BY <2>3, <2>5, <3>3 DEF SeenF1
    <3> DEFINE n == Len(s)
    <3>5. n \in Nat /\ SeenF1 = LeftF1 + n /\ SeenF1' = LeftF1 + (n + 1)
      BY <2>2, <3>1, <3>4
    <3> HIDE DEF n
    <3>6. SeenF1' = SeenF1 + 1
      BY <2>2, <3>5
    <3>7. QED
      BY <2>3, <2>5, <3>1, <3>3, <3>6
  <2>7. ServerReads => LeftF0' = LeftF0
    BY <1>0, <2>1, <2>2, <2>4, <2>6 DEF LeftF0
  <2> HIDE DEF s, x
  <2>8. FromServer'
    BY <2>1, <2>2, <2>3, <2>4 DEF Forward, FromServer, Ordered, endVars
  <2>9. FromClient'
    <3>1. SeenF1 \in Int
      BY <2>2
    <3>2. QED
      BY <1>0, <2>1, <2>2, <2>3, <2>4, <2>6, <2>7, <3>1 DEF Forward, FromClient, endVars
  <2>10. QED
    BY <2>8, <2>9 DEF Forward
<1>4. QED
  BY <1>1, <1>2, <1>3 DEF Copy

LEMMA ForwardClosed ==
  ASSUME Typed, Typed', Forward,
         \/ AppClose \/ DestClose \/ RefuseRequest \/ HeaderWriteFails \/ ClientClose
         \/ RejectHeader \/ Reject \/ ServerClose
  PROVE  Forward'
<1>1. /\ copy \in [Copies -> {"idle", "read", "write", "done"}]
      /\ TypeOK /\ "f0" \in Pipes /\ "f1" \in Pipes /\ "f2" \in Pipes
  BY DEF Typed, TypeOK, Pipes
<1>2. ASSUME NEW outgoing \in SUBSET Pipes, CloseConns(outgoing),
             UNCHANGED <<got, sent, copy, held, broken, decoder>>,
             server' \in {server, "closed"}, client' \in {client, "closed"},
             ServerReads' => buf'["f2"] = buf["f2"],
             ServerReads' /\ ClientReads' => buf'["f1"] = buf["f1"]
      PROVE  Forward'
  <2>1. /\ \A p \in Pipes : buf'[p] \in {<<>>, buf[p]}
        /\ \A p \in Pipes : fin[p] => fin'[p]
        /\ \A p \in Pipes : shut[p] => shut'[p]
        /\ \A p \in Pipes : buf'[p] = buf[p] \/ fin'[p] \/ shut'[p]
    BY <1>1, <1>2, Closed
  <2>2. Ends
    BY <1>2, <2>1 DEF Ends
  <2>3. QED
    BY <1>1, <1>2, <2>1, <2>2, ForwardEnds
<1>3. ASSUME NEW outgoing \in SUBSET Pipes, CloseConns(outgoing), NEW p \in Pipes,
             p \notin outgoing, Peer[p] \notin outgoing
      PROVE  buf'[p] = buf[p]
  BY <1>1, <1>3, Closed
<1>4. CASE AppClose
  <2>1. /\ CloseConns({"f0"})
        /\ UNCHANGED <<got, sent, copy, held, broken, decoder, server, client>>
    BY <1>4 DEF AppClose, relayVars, endVars
  <2>2. {"f0"} \in SUBSET Pipes /\ Peer["f1"] /= "f0" /\ Peer["f2"] /= "f0"
    BY DEF Pipes, Peer
  <2>3. buf'["f1"] = buf["f1"] /\ buf'["f2"] = buf["f2"]
    BY <1>1, <1>3, <2>1, <2>2
  <2>4. QED
    BY <1>2, <2>1, <2>2, <2>3
<1>5. CASE DestClose
  <2>1. /\ CloseConns({"b2"}) /\ copy["sf"] /= "idle"
        /\ UNCHANGED <<got, sent, copy, held, broken, decoder, server, client>>
    BY <1>5 DEF DestClose, DestOpen, relayVars, endVars
  <2>2. {"b2"} \in SUBSET Pipes /\ Peer["f1"] /= "b2"
    BY DEF Pipes, Peer
  <2>3. buf'["f1"] = buf["f1"]
    BY <1>1, <1>3, <2>1, <2>2
  <2>4. buf'["f2"] = buf["f2"] \/ shut'["f2"]
    BY <1>1, <2>1, <2>2, Closed
  <2>5. ServerReads' => buf'["f2"] = buf["f2"]
    BY <2>1, <2>4 DEF ServerReads, Typed, Sequenced
  <2>6. QED
    BY <1>2, <2>1, <2>2, <2>3, <2>5
<1>6. CASE RefuseRequest \/ HeaderWriteFails \/ ClientClose
  <2>1. PICK outgoing \in {{"b0"}, {"f1", "b0"}} : CloseConns(outgoing)
    <3>1. {"b0"} = {} \cup {"b0"} /\ {"f1", "b0"} = {"f1"} \cup {"b0"}
      OBVIOUS
    <3>2. QED
      BY <1>6, <3>1 DEF RefuseRequest, HeaderWriteFails, ClientClose, Refuse
  <2>2. /\ UNCHANGED <<got, sent, copy, held, broken, decoder, server>>
        /\ client' = "closed" /\ copy["cf"] \in {"idle", "done"}
    <3>1. copy["cf"] \in {"idle", "done"}
      BY <1>6 DEF RefuseRequest, HeaderWriteFails, ClientClose, ClientCopies,
                  Typed, Sequenced
    <3>2. QED
      BY <1>6, <3>1 DEF RefuseRequest, HeaderWriteFails, ClientClose, Refuse, endVars
  <2>3. ~ClientReads'
    BY <2>2 DEF ClientReads
  <2>4. /\ outgoing \in SUBSET Pipes /\ "f2" \notin outgoing /\ Peer["f2"] \notin outgoing
    BY <2>1 DEF Pipes, Peer
  <2>5. buf'["f2"] = buf["f2"]
    BY <1>1, <1>3, <2>1, <2>4
  <2>6. QED
    BY <1>2, <2>1, <2>2, <2>3, <2>4, <2>5
<1>7. CASE RejectHeader \/ Reject \/ ServerClose
  <2>1. PICK outgoing \in {{"b1"}, {"b1", "f2"}} : CloseConns(outgoing)
    BY <1>7 DEF RejectHeader, Reject, ServerClose, ServerCloses
  <2>2. /\ UNCHANGED <<got, sent, copy, held, broken, decoder, client>>
        /\ server' = "closed" /\ copy["sf"] \in {"idle", "done"}
    <3>1. copy["sf"] \in {"idle", "done"}
      BY <1>7 DEF RejectHeader, Reject, ServerClose, ServerCopies, Typed, Sequenced
    <3>2. QED
      BY <1>7, <3>1 DEF RejectHeader, Reject, ServerClose, ServerCloses, endVars
  <2>3. ~ServerReads'
    BY <2>2 DEF ServerReads
  <2>4. outgoing \in SUBSET Pipes
    BY <2>1 DEF Pipes
  <2>5. QED
    BY <1>2, <2>1, <2>2, <2>3, <2>4
<1>8. QED
  BY <1>4, <1>5, <1>6, <1>7

LEMMA ForwardStep == Typed /\ Forward /\ [Next]_vars => Forward'
<1> SUFFICES ASSUME Typed, Forward, [Next]_vars PROVE Forward'
  OBVIOUS
<1>1. Typed'
  BY TypedStep
<1>2. CASE AppFin \/ DestFin \/ DecodeFail
  <2>1. /\ UNCHANGED <<got, sent, copy, held, broken, buf, shut, server, client>>
        /\ decoder' \in {decoder, "done"}
    BY <1>2 DEF AppFin, DestFin, DecodeFail, relayVars, endVars, pipeVars
  <2>2. \A p \in Pipes : fin[p] => fin'[p]
    <3>1. fin \in [Pipes -> BOOLEAN]
      BY DEF Typed, TypeOK
    <3>2. QED
      BY <1>2, <3>1 DEF AppFin, DestFin, DecodeFail, pipeVars
  <2>3. Ends
    BY <2>1, <2>2 DEF Ends
  <2>4. QED
    BY <1>1, <2>1, <2>3, ForwardEnds
<1>3. CASE Break
  <2>1. /\ UNCHANGED <<got, sent, copy, held, fin, shut, server, client, decoder>>
        /\ broken' /\ client \in {"opened", "reply", "copy"}
        /\ buf' = [p \in Pipes |-> IF p \in TunnelPipes THEN <<>> ELSE buf[p]]
    BY <1>3 DEF Break, relayVars, endVars
  <2>2. /\ \A p \in Pipes : buf'[p] \in {<<>>, buf[p]}
        /\ buf'["f0"] = buf["f0"] /\ buf'["f2"] = buf["f2"] /\ buf'["f1"] = <<>>
    BY <2>1 DEF TunnelPipes, Pipes
  <2>3. Ends
    BY <2>1, <2>2 DEF Ends
  <2>4. ClientReads' => buf'["f1"] = buf["f1"]
    BY <2>1, <2>2 DEF ClientReads, Typed, Sequenced
  <2>5. QED
    BY <1>1, <2>2, <2>3, <2>4, ForwardEnds
<1>4. CASE DestSend \/ AppRecv \/ Copy("sb") \/ Copy("cb") \/ UNCHANGED vars
  <2>1. CASE DestSend \/ AppRecv
    <3>1. /\ UNCHANGED <<fin, shut, broken, relayVars>>
          /\ got'.f = got.f /\ sent'.f = sent.f
          /\ \A p \in Pipes \ {"b2", "b0"} : buf'[p] = buf[p]
      BY <2>1 DEF DestSend, AppRecv, Push, Pop, Typed, TypeOK
    <3>2. QED
      BY <3>1, ForwardSame DEF relayVars, Pipes
  <2>2. ASSUME NEW c \in {"sb", "cb"}, Copy(c)
        PROVE  Forward'
    <3>1. /\ UNCHANGED <<fin, shut, broken, client, server, decoder, endVars>>
          /\ \A d \in {"cf", "sf"} : copy'[d] = copy[d] /\ held'[d] = held[d]
      <4>1. /\ UNCHANGED <<fin, shut, broken, client, server, decoder, endVars>>
            /\ \E step, item : SetCopy(c, step, item)
        BY <2>2 DEF Copy, CopyRead, CopyEnd, CopyWrite, CopyFail, pipeVars
      <4>2. DOMAIN copy = Copies /\ DOMAIN held = Copies
        BY DEF Typed, TypeOK
      <4>3. QED
        BY <4>1, <4>2 DEF SetCopy, Copies, ClientCopies, ServerCopies
    <3>2. Src[c] \notin {"f0", "f1", "f2"} /\ Dst[c] \notin {"f0", "f1", "f2"}
      BY DEF Src, Dst
    <3>3. \A p \in {"f0", "f1", "f2"} : buf'[p] = buf[p]
      <4>1. buf \in [Pipes -> Seq(Items)] /\ {"f0", "f1", "f2"} \subseteq Pipes
        BY DEF Typed, TypeOK, Pipes
      <4>2. QED
        BY <2>2, <3>2, <4>1 DEF Copy, CopyRead, CopyEnd, CopyWrite, CopyFail, Push, Pop,
                                pipeVars
    <3>4. QED
      BY <3>1, <3>3, ForwardSame DEF endVars
  <2>3. CASE UNCHANGED vars
    BY <2>3, ForwardSame DEF vars, pipeVars, relayVars, endVars
  <2>4. QED
    BY <1>4, <2>1, <2>2, <2>3
<1>5. \A c \in Copies : c \in {"sf", "cf", "sb", "cb"}
  BY DEF Copies, ClientCopies, ServerCopies
<1>6. QED
  BY <1>1, <1>2, <1>3, <1>4, <1>5, ForwardAppSend, ForwardDestRecv, ForwardReadRequest,
     ForwardOpenStream, ForwardDialTunnel, ForwardReply, ForwardDecode, ForwardDialDest,
     ForwardServerCopy, ForwardClientCopy, ForwardClosed
     DEF Next, Endpoint, ClientStep, ServerStep

-----------------------------------------------------------------------------
(* Backward is an invariant.                                               *)

LEMMA BackwardEnds ==
  ASSUME Typed, Backward, Ends,
         ClientPasses' => buf'["b0"] = buf["b0"],
         ClientPasses' /\ ServerPasses' => buf'["b1"] = buf["b1"],
         buf'["b2"] = buf["b2"] \/ fin'["b2"] \/ shut'["b2"]
  PROVE  Backward'
<1>1. ClientPasses' => ClientPasses
  BY DEF Ends, ClientPasses, Pipes
<1>2. ServerPasses' => ServerPasses
  BY DEF Ends, ServerPasses, Pipes
<1>3. /\ buf'["b2"] \in {<<>>, buf["b2"]} /\ buf'["b1"] \in {<<>>, buf["b1"]}
      /\ buf'["b0"] \in {<<>>, buf["b0"]} /\ got' = got /\ sent' = sent
      /\ copy' = copy /\ held' = held
  BY DEF Ends, Pipes
<1>4. /\ Holds("cb")' = Holds("cb") /\ Holds("sb")' = Holds("sb")
      /\ ClientPasses' => SeenB0' = SeenB0
  BY <1>3 DEF Holds, SeenB0
<1>5. ClientPasses' => LeftB1' = LeftB1
  BY <1>4 DEF LeftB1
<1>6. ClientPasses' /\ ServerPasses' => SeenB1' = SeenB1
  BY <1>5 DEF SeenB1
<1>7. ClientPasses' /\ ServerPasses' => LeftB2' = LeftB2
  BY <1>4, <1>6 DEF LeftB2
<1>8. ToApp'
  <2>1. Ordered(got.b, OkReply, -1)' /\ Ordered(buf["b0"], OkReply, Len(got.b) - 1)'
    BY <1>3, OrderedNothing DEF Backward, ToApp
  <2>2. QED
    BY <1>1, <1>3, <1>4, <2>1 DEF Backward, ToApp
<1>9. FromDest'
  <2>1. copy'["sb"] = "idle" => buf'["b1"] = <<>> /\ buf'["b2"] = <<>> /\ sent'.b = 0
    BY <1>3 DEF Backward, FromDest
  <2>2. ASSUME ClientPasses'
        PROVE  Ordered(buf["b1"], OkReply, LeftB1)'
    BY <1>1, <1>3, <1>5, <2>2, OrderedNothing DEF Backward, FromDest
  <2>3. ASSUME ClientPasses', ServerPasses'
        PROVE  /\ held'["sb"] /= 0 => held'["sb"] = SeenB1' + 1
               /\ Ordered(buf["b2"], OkReply, LeftB2)'
               /\ (~fin'["b2"] /\ ~shut'["b2"]) => LeftB2' + Len(buf'["b2"]) = sent'.b
    <3>1. /\ held["sb"] /= 0 => held["sb"] = SeenB1 + 1
          /\ Ordered(buf["b2"], OkReply, LeftB2)
          /\ (~fin["b2"] /\ ~shut["b2"]) => LeftB2 + Len(buf["b2"]) = sent.b
      BY <1>1, <1>2, <2>3 DEF Backward, FromDest
    <3>2. LeftB2' = LeftB2 /\ SeenB1' = SeenB1
      BY <1>6, <1>7, <2>3
    <3>3. ~fin'["b2"] => ~fin["b2"]
      BY DEF Ends, Pipes
    <3>4. ~shut'["b2"] => ~shut["b2"]
      BY DEF Ends, Pipes
    <3>5. Ordered(buf["b2"], OkReply, LeftB2)'
      BY <1>3, <3>1, <3>2, OrderedNothing
    <3>6. QED
      BY <1>3, <3>1, <3>2, <3>3, <3>4, <3>5
  <2>4. QED
    BY <2>1, <2>2, <2>3 DEF FromDest
<1>10. QED
  BY <1>8, <1>9 DEF Backward

LEMMA BackwardSame ==
  ASSUME Backward, got'.b = got.b, sent'.b = sent.b,
         \A p \in {"b0", "b1", "b2"} : buf'[p] = buf[p],
         UNCHANGED <<fin, shut, broken>>, ClientPasses' = ClientPasses,
         \A c \in {"cb", "sb"} : copy'[c] = copy[c] /\ held'[c] = held[c]
  PROVE  Backward'
<1>1. /\ SeenB0' = SeenB0 /\ Holds("cb")' = Holds("cb") /\ Holds("sb")' = Holds("sb")
      /\ ServerPasses' = ServerPasses
  BY DEF SeenB0, Holds, ServerPasses
<1>2. LeftB1' = LeftB1
  BY <1>1 DEF LeftB1
<1>3. SeenB1' = SeenB1
  BY <1>2 DEF SeenB1
<1>4. LeftB2' = LeftB2
  BY <1>1, <1>3 DEF LeftB2
<1>5. ToApp'
  BY <1>1 DEF Backward, ToApp, Ordered
<1>6. FromDest'
  BY <1>1, <1>2, <1>3, <1>4 DEF Backward, FromDest, Ordered
<1>7. QED
  BY <1>5, <1>6 DEF Backward

LEMMA BackwardDestSend ==
  ASSUME Typed, Backward, DestSend
  PROVE  Backward'
<1> DEFINE s == buf["b2"]
<1>1. /\ ~fin["b2"] /\ ~shut["b2"] /\ copy["sb"] /= "idle"
      /\ sent' = [sent EXCEPT !.b = @ + 1]
      /\ buf' = [buf EXCEPT !["b2"] = Append(@, sent.b + 1)]
      /\ UNCHANGED <<fin, shut, broken, relayVars, got>>
  BY DEF DestSend, DestOpen, CanWrite, Push, Typed, Sequenced
<1>2. /\ buf \in [Pipes -> Seq(Items)] /\ "b2" \in Pipes /\ sent.b \in Nat
      /\ sent'.b = sent.b + 1
  BY <1>1, TunnelAssumption DEF Typed, TypeOK, Pipes
<1>3. buf'["b2"] = Append(s, sent.b + 1) /\ buf'["b1"] = buf["b1"] /\ buf'["b0"] = buf["b0"]
  BY <1>1, <1>2 DEF Pipes
<1>4. /\ SeenB0' = SeenB0 /\ Holds("cb")' = Holds("cb") /\ Holds("sb")' = Holds("sb")
      /\ ServerPasses' = ServerPasses /\ ClientPasses' = ClientPasses
  BY <1>1, <1>3 DEF SeenB0, Holds, ServerPasses, ClientPasses, relayVars
<1>5. LeftB1' = LeftB1
  BY <1>4 DEF LeftB1
<1>6. SeenB1' = SeenB1
  BY <1>3, <1>5 DEF SeenB1
<1>7. LeftB2' = LeftB2
  BY <1>4, <1>6 DEF LeftB2
<1>8. ToApp'
  BY <1>1, <1>3, <1>4 DEF Backward, ToApp, Ordered, relayVars
<1>9. ASSUME ClientPasses, ServerPasses
      PROVE  /\ Ordered(buf["b2"], OkReply, LeftB2)'
             /\ LeftB2' + Len(buf'["b2"]) = sent'.b
  <2>1. s \in Seq(Items) /\ LeftB2 \in Int /\ sent.b \in Nat
    BY <1>2, Basics
  <2>2. Ordered(s, OkReply, LeftB2) /\ LeftB2 + Len(s) = sent.b
    BY <1>1, <1>9 DEF Backward, FromDest
  <2> HIDE DEF s
  <2>3. sent.b + 1 = Numeral(OkReply, LeftB2 + Len(s) + 1)
    BY <2>1, <2>2 DEF Numeral
  <2>4. /\ Ordered(Append(s, sent.b + 1), OkReply, LeftB2)
        /\ Len(Append(s, sent.b + 1)) = Len(s) + 1
    BY <2>1, <2>2, <2>3, OrderedAppend
  <2>5. LeftB2 + (Len(s) + 1) = sent.b + 1
    BY <2>1, <2>2
  <2>6. QED
    BY <1>2, <1>3, <1>7, <2>4, <2>5
<1> HIDE DEF s
<1>10. FromDest'
  BY <1>1, <1>3, <1>4, <1>5, <1>6, <1>9 DEF Backward, FromDest, Ordered, relayVars
<1>11. QED
  BY <1>8, <1>10 DEF Backward

LEMMA BackwardAppRecv ==
  ASSUME Typed, Backward, AppRecv
  PROVE  Backward'
<1> DEFINE x == Head(buf["b0"])
           s == buf["b0"]
           n == Len(got.b)
<1>1. /\ s /= <<>> /\ copy["cb"] /= "idle"
      /\ got' = [got EXCEPT !.b = Append(@, x)]
      /\ buf' = [buf EXCEPT !["b0"] = Tail(@)]
      /\ UNCHANGED <<fin, shut, broken, relayVars, sent>>
  BY DEF AppRecv, HasItem, Pop, Typed, Sequenced
<1>2. /\ buf \in [Pipes -> Seq(Items)] /\ "b0" \in Pipes
      /\ got \in [f : Seq(Items), b : Seq(Items)]
  BY DEF Typed, TypeOK, Pipes
<1>3. /\ buf'["b0"] = Tail(s) /\ buf'["b1"] = buf["b1"] /\ buf'["b2"] = buf["b2"]
      /\ got'.b = Append(got.b, x)
  BY <1>1, <1>2 DEF Pipes
<1>4. s \in Seq(Items) /\ got.b \in Seq(Items) /\ n \in Nat /\ Len(s) \in Nat
  BY <1>2
<1>5. Ordered(got.b, OkReply, -1) /\ Ordered(s, OkReply, n - 1)
  BY DEF Backward, ToApp
<1>0. x = Head(s) /\ n = Len(got.b)
  OBVIOUS
<1> HIDE DEF x, s, n
<1>6. /\ n - 1 \in Int /\ (n - 1) + 1 = n /\ -1 \in Int /\ -1 + n + 1 = n
      /\ (n + 1) - 1 = n
  BY <1>4
<1>7. /\ x = Numeral(OkReply, n) /\ Ordered(Tail(s), OkReply, n)
      /\ Len(Tail(s)) = Len(s) - 1
  <2>1. /\ Head(s) = Numeral(OkReply, (n - 1) + 1) /\ Ordered(Tail(s), OkReply, (n - 1) + 1)
        /\ Len(Tail(s)) = Len(s) - 1
    BY <1>1, <1>4, <1>5, <1>6, OrderedTail
  <2>2. QED
    BY <1>0, <1>6, <2>1
<1>8. Ordered(Append(got.b, x), OkReply, -1) /\ Len(Append(got.b, x)) = n + 1
  <2> DEFINE l == -1
  <2>1. l \in Int /\ l + n + 1 = n /\ Ordered(got.b, OkReply, l)
    BY <1>4, <1>5
  <2> HIDE DEF l
  <2>2. Ordered(Append(got.b, x), OkReply, l) /\ Len(Append(got.b, x)) = Len(got.b) + 1
    BY <1>0, <1>4, <1>7, <2>1, OrderedAppend
  <2>3. QED
    BY <1>0, <2>2 DEF l
<1>9. SeenB0' = SeenB0
  <2>1. SeenB0 = n + Len(s) - 1 /\ SeenB0' = Len(got'.b) + Len(buf'["b0"]) - 1
    BY <1>1 DEF SeenB0, s, n, relayVars
  <2>2. (n + 1) + (Len(s) - 1) - 1 = n + Len(s) - 1
    BY <1>4
  <2>3. QED
    BY <1>3, <1>7, <1>8, <2>1, <2>2
<1>10. /\ Holds("cb")' = Holds("cb") /\ Holds("sb")' = Holds("sb")
       /\ ServerPasses' = ServerPasses /\ ClientPasses' = ClientPasses
  BY <1>1 DEF Holds, ServerPasses, ClientPasses, relayVars
<1>11. LeftB1' = LeftB1
  BY <1>9, <1>10 DEF LeftB1
<1>12. SeenB1' = SeenB1
  BY <1>3, <1>11 DEF SeenB1
<1>13. LeftB2' = LeftB2
  BY <1>10, <1>12 DEF LeftB2
<1>14. ToApp'
  <2>1. Ordered(got.b, OkReply, -1)' /\ Ordered(buf["b0"], OkReply, Len(got.b) - 1)'
    BY <1>3, <1>6, <1>7, <1>8
  <2>2. QED
    BY <1>1, <1>9, <1>10, <2>1 DEF Backward, ToApp, relayVars
<1>15. FromDest'
  BY <1>1, <1>3, <1>10, <1>11, <1>12, <1>13 DEF Backward, FromDest, Ordered, relayVars
<1>16. QED
  BY <1>14, <1>15 DEF Backward

LEMMA BackwardReply ==
  ASSUME Typed, Backward, Reply
  PROVE  Backward'
<1>1. /\ client = "reply" /\ client' = "copy"
      /\ buf' = Push(buf, "b0", OkReply)
      /\ copy' = [c \in Copies |-> IF c \in ClientCopies THEN "read" ELSE copy[c]]
      /\ UNCHANGED <<fin, shut, broken, held, server, decoder, endVars>>
  BY DEF Reply
<1>2. /\ copy["cb"] = "idle" /\ buf["b0"] = <<>> /\ held["cb"] = 0
  BY <1>1 DEF Typed, TypeOK, Sequenced, Copies, ClientCopies, ServerCopies
<1>3. copy'["cb"] = "read" /\ copy'["sb"] = copy["sb"]
  BY <1>1 DEF Copies, ClientCopies, ServerCopies
<1>4. /\ buf'["b1"] = buf["b1"] /\ buf'["b2"] = buf["b2"]
      /\ buf'["b0"] = IF shut["b0"] THEN <<>> ELSE Append(<<>>, OkReply)
  BY <1>1, <1>2 DEF Push, Pipes, Typed, TypeOK
<1>5. got.b = <<>> /\ got' = got /\ held' = held /\ sent' = sent /\ shut' = shut
  BY <1>1, <1>2 DEF Backward, ToApp, endVars
<1>6. Ordered(Append(<<>>, OkReply), OkReply, -1) /\ Len(Append(<<>>, OkReply)) = 1
  <2> DEFINE e == <<>>
             l == -1
  <2>1. e \in Seq(Items) /\ Len(e) = 0 /\ l \in Int /\ l + Len(e) + 1 = 0
    OBVIOUS
  <2>2. Ordered(e, OkReply, l)
    BY OrderedNothing
  <2> HIDE DEF e, l
  <2>3. OkReply = Numeral(OkReply, l + Len(e) + 1)
    BY <2>1 DEF Numeral
  <2>4. Ordered(Append(e, OkReply), OkReply, l) /\ Len(Append(e, OkReply)) = Len(e) + 1
    BY <2>1, <2>2, <2>3, OrderedAppend
  <2>5. QED
    BY <2>1, <2>4 DEF e, l
<1>7. Len(got'.b) = 0
  <2>1. Len(<<>>) = 0
    OBVIOUS
  <2>2. QED
    BY <1>5, <2>1
<1>8. /\ ClientPasses' => ClientPasses
      /\ ServerPasses' = ServerPasses
      /\ Holds("cb")' = Holds("cb") /\ Holds("sb")' = Holds("sb")
  BY <1>1, <1>3 DEF ClientPasses, ServerPasses, Holds
<1>9. ASSUME ClientPasses'
      PROVE  SeenB0' = SeenB0 /\ SeenB0' = 0
  <2>1. Len(buf'["b0"]) = 1
    BY <1>4, <1>5, <1>6, <1>9 DEF ClientPasses
  <2>2. SeenB0' = 0 + 1 - 1
    BY <1>3, <1>7, <2>1 DEF SeenB0
  <2>3. SeenB0 = 0
    BY <1>2 DEF SeenB0
  <2>4. QED
    BY <2>2, <2>3
<1>10. ClientPasses' => LeftB1' = LeftB1
  BY <1>8, <1>9 DEF LeftB1
<1>11. ClientPasses' => SeenB1' = SeenB1
  BY <1>4, <1>10 DEF SeenB1
<1>12. ClientPasses' => LeftB2' = LeftB2
  BY <1>8, <1>11 DEF LeftB2
<1>13. ToApp'
  <2>1. Ordered(got.b, OkReply, -1)'
    BY <1>5, OrderedNothing
  <2>2. Ordered(buf["b0"], OkReply, Len(got.b) - 1)'
    <3>1. Len(got'.b) - 1 = -1
      BY <1>7
    <3>2. QED
      BY <1>4, <1>6, <3>1, OrderedNothing
  <2>3. QED
    BY <1>2, <1>3, <1>5, <1>9, <2>1, <2>2 DEF ToApp
<1>14. FromDest'
  BY <1>1, <1>3, <1>4, <1>5, <1>8, <1>10, <1>11, <1>12 DEF Backward, FromDest, Ordered
<1>15. QED
  BY <1>13, <1>14 DEF Backward

LEMMA BackwardDialDest ==
  ASSUME Typed, Backward, DialDest
  PROVE  Backward'
<1>1. /\ server = "dial" /\ copy'["sb"] = "read" /\ copy'["cb"] = copy["cb"]
      /\ UNCHANGED <<buf, fin, shut, broken, held, client, endVars>>
  BY DEF DialDest, pipeVars, Copies, ClientCopies, ServerCopies
<1>2. /\ SeenB0' = SeenB0 /\ Holds("cb")' = Holds("cb") /\ Holds("sb")' = Holds("sb")
      /\ ClientPasses' = ClientPasses
  BY <1>1 DEF SeenB0, Holds, ClientPasses, endVars
<1>3. ServerPasses' => ServerPasses
  <2>1. copy["sb"] = "idle"
    BY <1>1 DEF Typed, Sequenced
  <2>2. QED
    BY <1>1, <2>1 DEF ServerPasses
<1>4. LeftB1' = LeftB1
  BY <1>2 DEF LeftB1
<1>5. SeenB1' = SeenB1
  BY <1>1, <1>4 DEF SeenB1
<1>6. LeftB2' = LeftB2
  BY <1>2, <1>5 DEF LeftB2
<1>7. ToApp'
  BY <1>1, <1>2 DEF Backward, ToApp, Ordered, endVars
<1>8. FromDest'
  BY <1>1, <1>2, <1>3, <1>4, <1>5, <1>6 DEF Backward, FromDest, Ordered, endVars
<1>9. QED
  BY <1>7, <1>8 DEF Backward

LEMMA BackwardServerCopy ==
  ASSUME Typed, Backward, Copy("sb")
  PROVE  Backward'
<1>0. /\ "sb" \in Copies /\ Src["sb"] = "b2" /\ Dst["sb"] = "b1"
      /\ copy["sb"] \in {"read", "write"}
      /\ copy \in [Copies -> {"idle", "read", "write", "done"}]
      /\ held \in [Copies -> Items \cup {0}] /\ buf \in [Pipes -> Seq(Items)]
      /\ "b1" \in Pipes /\ "b2" \in Pipes /\ "cb" \in Copies
      /\ held["sb"] /= 0 <=> copy["sb"] = "write"
  BY DEF Copies, ClientCopies, ServerCopies, Src, Dst, Pipes, Typed, TypeOK,
         Copy, CopyRead, CopyEnd, CopyWrite, CopyFail
<1>00. ASSUME ClientPasses
       PROVE  LeftB1 >= 0 /\ SeenB1 >= 0
  <2> DEFINE n == Len(buf["b1"])
  <2>1. SeenB0 \in Int /\ SeenB0 >= 0 /\ Holds("cb") \in {0, 1} /\ n \in Nat
    BY <1>0, <1>00, Basics DEF Backward, ToApp
  <2>2. LeftB1 = SeenB0 + Holds("cb") /\ SeenB1 = LeftB1 + n
    BY DEF LeftB1, SeenB1
  <2> HIDE DEF n
  <2>3. QED
    BY <2>1, <2>2
<1>1. CASE CopyRead("sb")
  <2> DEFINE s == buf["b2"]
  <2>1. /\ s /= <<>> /\ copy["sb"] = "read" /\ copy'["sb"] = "write"
        /\ held' = [held EXCEPT !["sb"] = Head(s)] /\ copy'["cb"] = copy["cb"]
        /\ buf' = [buf EXCEPT !["b2"] = Tail(@)]
        /\ UNCHANGED <<fin, shut, broken, client, endVars>>
    BY <1>0, <1>1 DEF CopyRead, HasItem, SetCopy, Pop
  <2>2. /\ s \in Seq(Items) /\ Len(s) \in Nat /\ SeenB1 \in Int
        /\ held["sb"] = 0 /\ held'["sb"] = Head(s) /\ held'["cb"] = held["cb"]
        /\ Head(s) /= 0
    <3>1. held["sb"] = 0 /\ held'["sb"] = Head(s) /\ held'["cb"] = held["cb"]
      BY <1>0, <2>1
    <3>2. s \in Seq(Items) /\ Len(s) \in Nat /\ SeenB1 \in Int
      BY <1>0, Basics
    <3>3. Head(s) \in Items
      BY <2>1, <3>2
    <3>4. QED
      BY <3>1, <3>2, <3>3 DEF Items, Request, Header, OkReply
  <2>3. buf'["b2"] = Tail(s) /\ buf'["b1"] = buf["b1"] /\ buf'["b0"] = buf["b0"]
    BY <1>0, <2>1 DEF Pipes
  <2>4. /\ SeenB0' = SeenB0 /\ Holds("cb")' = Holds("cb")
        /\ Holds("sb") = 0 /\ Holds("sb")' = 1
        /\ ServerPasses' = ServerPasses /\ ClientPasses' = ClientPasses
    BY <1>0, <2>1, <2>2, <2>3 DEF SeenB0, Holds, ServerPasses, ClientPasses, endVars
  <2>5. LeftB1' = LeftB1
    BY <2>4 DEF LeftB1
  <2>6. SeenB1' = SeenB1
    BY <2>3, <2>5 DEF SeenB1
  <2>7. LeftB2 = SeenB1 /\ LeftB2' = SeenB1 + 1
    BY <2>2, <2>4, <2>6 DEF LeftB2
  <2>8. ASSUME ClientPasses, ServerPasses
        PROVE  /\ Head(s) = SeenB1 + 1 /\ Ordered(buf["b2"], OkReply, LeftB2)'
               /\ LeftB2' + Len(buf'["b2"]) = LeftB2 + Len(s)
    <3>1. Ordered(s, OkReply, SeenB1) /\ SeenB1 >= 0
      BY <1>00, <2>7, <2>8 DEF Backward, FromDest
    <3> HIDE DEF s
    <3>2. /\ Head(s) = Numeral(OkReply, SeenB1 + 1)
          /\ Ordered(Tail(s), OkReply, SeenB1 + 1) /\ Len(Tail(s)) = Len(s) - 1
      BY <2>1, <2>2, <3>1, OrderedTail
    <3>3. SeenB1 + 1 /= 0 /\ (SeenB1 + 1) + (Len(s) - 1) = SeenB1 + Len(s)
      BY <2>2, <3>1
    <3>4. QED
      BY <2>3, <2>7, <3>1, <3>2, <3>3 DEF Numeral
  <2>9. ToApp'
    BY <2>1, <2>2, <2>3, <2>4 DEF Backward, ToApp, Ordered, endVars
  <2>10. FromDest'
    <3>1. FromDest
      BY DEF Backward
    <3>2. ClientPasses => Ordered(buf["b1"], OkReply, LeftB1)'
      BY <2>3, <2>5, <3>1 DEF FromDest
    <3>3. ASSUME ClientPasses, ServerPasses
          PROVE  (~fin'["b2"] /\ ~shut'["b2"]) => LeftB2' + Len(buf'["b2"]) = sent'.b
      BY <2>1, <2>8, <3>1, <3>3 DEF FromDest, endVars
    <3> HIDE DEF s
    <3>4. copy'["sb"] /= "idle"
      BY <2>1
    <3>5. QED
      BY <2>2, <2>4, <2>6, <2>8, <3>2, <3>3, <3>4 DEF FromDest
  <2>11. QED
    BY <2>9, <2>10 DEF Backward
<1>2. CASE CopyEnd("sb") \/ CopyFail("sb")
  <2>1. /\ UNCHANGED <<buf, fin, shut, broken, client, endVars>>
        /\ held'["sb"] = 0 /\ copy'["sb"] /= "idle"
        /\ copy'["sb"] = "done" \/ broken \/ shut["b1"]
        /\ copy'["cb"] = copy["cb"] /\ held'["cb"] = held["cb"]
    BY <1>0, <1>2 DEF CopyEnd, CopyFail, SetCopy, WriteFails, Failed, TunnelPipes, pipeVars
  <2>2. ~ServerPasses'
    BY <2>1 DEF ServerPasses
  <2>3. /\ SeenB0' = SeenB0 /\ Holds("cb")' = Holds("cb") /\ ClientPasses' = ClientPasses
    BY <2>1 DEF SeenB0, Holds, ClientPasses, endVars
  <2>4. LeftB1' = LeftB1
    BY <2>3 DEF LeftB1
  <2>5. ToApp'
    BY <2>1, <2>3 DEF Backward, ToApp, Ordered, endVars
  <2>6. FromDest'
    BY <2>1, <2>2, <2>3, <2>4 DEF Backward, FromDest, Ordered
  <2>7. QED
    BY <2>5, <2>6 DEF Backward
<1>3. CASE CopyWrite("sb")
  <2> DEFINE s == buf["b1"]
             x == held["sb"]
  <2>1. /\ copy["sb"] = "write" /\ copy'["sb"] = "read" /\ ~shut["b1"] /\ ~broken
        /\ held' = [held EXCEPT !["sb"] = 0] /\ copy'["cb"] = copy["cb"]
        /\ buf' = [buf EXCEPT !["b1"] = Append(@, x)]
        /\ UNCHANGED <<fin, shut, broken, client, endVars>>
    BY <1>0, <1>3 DEF CopyWrite, CanWrite, Push, SetCopy, Failed, TunnelPipes
  <2>2. /\ s \in Seq(Items) /\ Len(s) \in Nat /\ SeenB1 \in Int /\ LeftB1 \in Int
        /\ x /= 0 /\ held'["sb"] = 0 /\ held'["cb"] = held["cb"]
    <3>1. x /= 0 /\ held'["sb"] = 0 /\ held'["cb"] = held["cb"]
      BY <1>0, <2>1
    <3>2. s \in Seq(Items) /\ Len(s) \in Nat /\ SeenB1 \in Int /\ LeftB1 \in Int
      BY <1>0, Basics
    <3>3. QED
      BY <3>1, <3>2
  <2>3. buf'["b1"] = Append(s, x) /\ buf'["b0"] = buf["b0"] /\ buf'["b2"] = buf["b2"]
    BY <1>0, <2>1 DEF Pipes
  <2>4. /\ SeenB0' = SeenB0 /\ Holds("cb")' = Holds("cb")
        /\ Holds("sb") = 1 /\ Holds("sb")' = 0
        /\ ClientPasses' = ClientPasses /\ ServerPasses /\ ServerPasses'
    BY <1>0, <2>1, <2>2, <2>3 DEF SeenB0, Holds, ServerPasses, ClientPasses, endVars
  <2>5. LeftB1' = LeftB1
    BY <2>4 DEF LeftB1
  <2>6. ASSUME ClientPasses
        PROVE  /\ Ordered(buf["b1"], OkReply, LeftB1)' /\ SeenB1' = SeenB1 + 1
    <3>1. /\ Ordered(s, OkReply, LeftB1) /\ x = SeenB1 + 1 /\ SeenB1 >= 0
          /\ SeenB1 = LeftB1 + Len(s)
      BY <1>00, <2>2, <2>4, <2>6 DEF Backward, FromDest, SeenB1
    <3> HIDE DEF s, x
    <3>2. x = Numeral(OkReply, LeftB1 + Len(s) + 1)
      BY <2>2, <3>1 DEF Numeral
    <3>3. Ordered(Append(s, x), OkReply, LeftB1) /\ Len(Append(s, x)) = Len(s) + 1
      BY <2>2, <3>1, <3>2, OrderedAppend
    <3>4. SeenB1' = LeftB1 + (Len(s) + 1)
      BY <2>3, <2>5, <3>3 DEF SeenB1
    <3> DEFINE n == Len(s)
    <3>5. n \in Nat /\ SeenB1 = LeftB1 + n /\ SeenB1' = LeftB1 + (n + 1)
      BY <2>2, <3>1, <3>4
    <3> HIDE DEF n
    <3>6. SeenB1' = SeenB1 + 1
      BY <2>2, <3>5
    <3>7. QED
      BY <2>3, <2>5, <3>3, <3>6
  <2>7. ClientPasses => LeftB2' = LeftB2
    BY <2>2, <2>4, <2>6 DEF LeftB2
  <2> HIDE DEF s, x
  <2>8. ToApp'
    BY <2>1, <2>2, <2>3, <2>4 DEF Backward, ToApp, Ordered, endVars
  <2>9. FromDest'
    BY <2>1, <2>2, <2>3, <2>4, <2>6, <2>7 DEF Backward, FromDest, endVars
  <2>10. QED
    BY <2>8, <2>9 DEF Backward
<1>4. QED
  BY <1>1, <1>2, <1>3 DEF Copy

LEMMA BackwardClientCopy ==
  ASSUME Typed, Backward, Copy("cb")
  PROVE  Backward'
<1>0. /\ "cb" \in Copies /\ Src["cb"] = "b1" /\ Dst["cb"] = "b0"
      /\ copy["cb"] \in {"read", "write"}
      /\ copy \in [Copies -> {"idle", "read", "write", "done"}]
      /\ held \in [Copies -> Items \cup {0}] /\ buf \in [Pipes -> Seq(Items)]
      /\ "b0" \in Pipes /\ "b1" \in Pipes /\ "sb" \in Copies
      /\ held["cb"] /= 0 <=> copy["cb"] = "write"
      /\ client \notin {"request", "dial", "opened", "reply"}
  BY DEF Copies, ClientCopies, ServerCopies, Src, Dst, Pipes, Typed, TypeOK, Sequenced,
         Copy, CopyRead, CopyEnd, CopyWrite, CopyFail
<1>1. CASE CopyRead("cb")
  <2> DEFINE s == buf["b1"]
  <2>1. /\ s /= <<>> /\ copy["cb"] = "read" /\ copy'["cb"] = "write"
        /\ held' = [held EXCEPT !["cb"] = Head(s)] /\ copy'["sb"] = copy["sb"]
        /\ buf' = [buf EXCEPT !["b1"] = Tail(@)]
        /\ UNCHANGED <<fin, shut, broken, client, endVars>>
    BY <1>0, <1>1 DEF CopyRead, HasItem, SetCopy, Pop
  <2>2. /\ s \in Seq(Items) /\ Len(s) \in Nat /\ SeenB0 \in Int
        /\ held["cb"] = 0 /\ held'["cb"] = Head(s) /\ held'["sb"] = held["sb"]
        /\ Head(s) /= 0
    <3>1. held["cb"] = 0 /\ held'["cb"] = Head(s) /\ held'["sb"] = held["sb"]
      BY <1>0, <2>1
    <3>2. s \in Seq(Items) /\ Len(s) \in Nat /\ SeenB0 \in Int
      BY <1>0, Basics
    <3>3. Head(s) \in Items
      BY <2>1, <3>2
    <3>4. QED
      BY <3>1, <3>2, <3>3 DEF Items, Request, Header, OkReply
  <2>3. buf'["b1"] = Tail(s) /\ buf'["b0"] = buf["b0"] /\ buf'["b2"] = buf["b2"]
    BY <1>0, <2>1 DEF Pipes
  <2>4. /\ SeenB0' = SeenB0 /\ Holds("sb")' = Holds("sb")
        /\ Holds("cb") = 0 /\ Holds("cb")' = 1
        /\ ServerPasses' = ServerPasses /\ ClientPasses' = ClientPasses
    BY <1>0, <2>1, <2>2, <2>3 DEF SeenB0, Holds, ServerPasses, ClientPasses, endVars
  <2>5. LeftB1 = SeenB0 /\ LeftB1' = SeenB0 + 1
    BY <2>2, <2>4 DEF LeftB1
  <2>6. ASSUME ClientPasses
        PROVE  /\ Head(s) = SeenB0 + 1 /\ Ordered(buf["b1"], OkReply, LeftB1)'
               /\ SeenB1' = SeenB1 /\ SeenB0 >= 0
    <3>1. Ordered(s, OkReply, SeenB0) /\ SeenB0 >= 0
      BY <2>5, <2>6 DEF Backward, ToApp, FromDest
    <3> HIDE DEF s
    <3>2. /\ Head(s) = Numeral(OkReply, SeenB0 + 1)
          /\ Ordered(Tail(s), OkReply, SeenB0 + 1) /\ Len(Tail(s)) = Len(s) - 1
      BY <2>1, <2>2, <3>1, OrderedTail
    <3>3. SeenB0 + 1 /= 0 /\ (SeenB0 + 1) + (Len(s) - 1) = SeenB0 + Len(s)
      BY <2>2, <3>1
    <3>4. QED
      BY <2>3, <2>5, <3>1, <3>2, <3>3 DEF Numeral, SeenB1, s
  <2>7. ClientPasses => LeftB2' = LeftB2
    BY <2>4, <2>6 DEF LeftB2
  <2> HIDE DEF s
  <2>8. ToApp'
    BY <2>1, <2>2, <2>3, <2>4, <2>6 DEF Backward, ToApp, Ordered, endVars
  <2>9. FromDest'
    <3>1. copy["sb"] /= "idle"
      BY <2>1 DEF Backward, FromDest, s
    <3>2. QED
      BY <2>1, <2>2, <2>3, <2>4, <2>6, <2>7, <3>1 DEF Backward, FromDest, Ordered, endVars
  <2>10. QED
    BY <2>8, <2>9 DEF Backward
<1>2. CASE CopyEnd("cb") \/ CopyFail("cb")
  <2>1. /\ UNCHANGED <<buf, fin, shut, broken, client, endVars>>
        /\ held'["cb"] = 0 /\ copy'["cb"] /= "idle"
        /\ copy'["cb"] = "done" \/ shut["b0"]
        /\ copy'["sb"] = copy["sb"]
    BY <1>0, <1>2 DEF CopyEnd, CopyFail, SetCopy, WriteFails, Failed, TunnelPipes, pipeVars
  <2>2. ~ClientPasses'
    BY <1>0, <2>1 DEF ClientPasses
  <2>3. QED
    BY <2>1, <2>2 DEF Backward, ToApp, FromDest, Ordered, endVars
<1>3. CASE CopyWrite("cb")
  <2> DEFINE s == buf["b0"]
             x == held["cb"]
             n == Len(got.b)
  <2>1. /\ copy["cb"] = "write" /\ copy'["cb"] = "read" /\ ~shut["b0"]
        /\ held' = [held EXCEPT !["cb"] = 0] /\ copy'["sb"] = copy["sb"]
        /\ buf' = [buf EXCEPT !["b0"] = Append(@, x)]
        /\ UNCHANGED <<fin, shut, broken, client, endVars>>
    BY <1>0, <1>3 DEF CopyWrite, CanWrite, Push, SetCopy
  <2>2. /\ s \in Seq(Items) /\ Len(s) \in Nat /\ SeenB0 \in Int /\ n \in Nat
        /\ x /= 0 /\ held'["cb"] = 0 /\ held'["sb"] = held["sb"]
    <3>1. x /= 0 /\ held'["cb"] = 0 /\ held'["sb"] = held["sb"]
      BY <1>0, <2>1
    <3>2. s \in Seq(Items) /\ Len(s) \in Nat /\ SeenB0 \in Int /\ n \in Nat
      BY <1>0, Basics
    <3>3. QED
      BY <3>1, <3>2
  <2>3. buf'["b0"] = Append(s, x) /\ buf'["b1"] = buf["b1"] /\ buf'["b2"] = buf["b2"]
    BY <1>0, <2>1 DEF Pipes
  <2>4. /\ Holds("sb")' = Holds("sb") /\ Holds("cb") = 1 /\ Holds("cb")' = 0
        /\ ServerPasses' = ServerPasses /\ ClientPasses /\ ClientPasses'
    BY <1>0, <2>1, <2>2 DEF Holds, ServerPasses, ClientPasses
  <2>5. /\ Ordered(s, OkReply, n - 1) /\ x = SeenB0 + 1 /\ SeenB0 >= 0
        /\ SeenB0 = n + Len(s) - 1
    BY <2>1, <2>2, <2>4 DEF Backward, ToApp, SeenB0
  <2> HIDE DEF s, x, n
  <2>6. x = Numeral(OkReply, (n - 1) + Len(s) + 1) /\ n - 1 \in Int
    BY <2>2, <2>5 DEF Numeral
  <2>7. /\ Ordered(Append(s, x), OkReply, n - 1) /\ Len(Append(s, x)) = Len(s) + 1
    BY <2>2, <2>5, <2>6, OrderedAppend
  <2>8. SeenB0' = SeenB0 + 1
    <3>1. SeenB0' = n + (Len(s) + 1) - 1
      BY <2>1, <2>3, <2>7 DEF SeenB0, endVars, n
    <3>2. QED
      BY <2>2, <2>5, <3>1
  <2>9. LeftB1' = LeftB1
    BY <2>2, <2>4, <2>8 DEF LeftB1
  <2>10. SeenB1' = SeenB1
    BY <2>3, <2>9 DEF SeenB1
  <2>11. LeftB2' = LeftB2
    BY <2>4, <2>10 DEF LeftB2
  <2>12. ToApp'
    <3>1. Ordered(got.b, OkReply, -1)' /\ copy'["cb"] /= "idle" /\ SeenB0' >= 0
      BY <2>1, <2>2, <2>5, <2>8 DEF Backward, ToApp, endVars
    <3>2. Ordered(buf["b0"], OkReply, Len(got.b) - 1)'
      BY <2>1, <2>3, <2>7 DEF n, endVars
    <3>3. QED
      BY <2>2, <3>1, <3>2 DEF ToApp
  <2>13. FromDest'
    BY <2>1, <2>2, <2>3, <2>4, <2>9, <2>10, <2>11 DEF Backward, FromDest, Ordered, endVars
  <2>14. QED
    BY <2>12, <2>13 DEF Backward
<1>4. QED
  BY <1>1, <1>2, <1>3 DEF Copy

LEMMA BackwardClosed ==
  ASSUME Typed, Backward,
         \/ AppClose \/ DestClose \/ RefuseRequest \/ HeaderWriteFails \/ ClientClose
         \/ RejectHeader \/ Reject \/ ServerClose
  PROVE  Backward'
<1>1. /\ copy \in [Copies -> {"idle", "read", "write", "done"}]
      /\ TypeOK /\ "b0" \in Pipes /\ "b1" \in Pipes /\ "b2" \in Pipes
  BY DEF Typed, TypeOK, Pipes
<1>2. ASSUME NEW outgoing \in SUBSET Pipes, CloseConns(outgoing),
             UNCHANGED <<got, sent, copy, held, broken, decoder>>,
             server' \in {server, "closed"}, client' \in {client, "closed"},
             ClientPasses' => buf'["b0"] = buf["b0"],
             ClientPasses' /\ ServerPasses' => buf'["b1"] = buf["b1"]
      PROVE  Backward'
  <2>1. /\ \A p \in Pipes : buf'[p] \in {<<>>, buf[p]}
        /\ \A p \in Pipes : fin[p] => fin'[p]
        /\ \A p \in Pipes : shut[p] => shut'[p]
        /\ \A p \in Pipes : buf'[p] = buf[p] \/ fin'[p] \/ shut'[p]
    BY <1>1, <1>2, Closed
  <2>2. Ends
    BY <1>2, <2>1 DEF Ends
  <2>3. QED
    BY <1>1, <1>2, <2>1, <2>2, BackwardEnds
<1>3. ASSUME NEW outgoing \in SUBSET Pipes, CloseConns(outgoing), NEW p \in Pipes,
             p \notin outgoing, Peer[p] \notin outgoing
      PROVE  buf'[p] = buf[p]
  BY <1>1, <1>3, Closed
<1>4. CASE AppClose
  <2>1. /\ CloseConns({"f0"})
        /\ UNCHANGED <<got, sent, copy, held, broken, decoder, server, client>>
    BY <1>4 DEF AppClose, relayVars, endVars
  <2>2. {"f0"} \in SUBSET Pipes /\ Peer["b1"] /= "f0"
    BY DEF Pipes, Peer
  <2>3. buf'["b1"] = buf["b1"]
    BY <1>1, <1>3, <2>1, <2>2
  <2>4. buf'["b0"] = buf["b0"] \/ shut'["b0"]
    BY <1>1, <2>1, <2>2, Closed
  <2>5. ClientPasses' => buf'["b0"] = buf["b0"]
    BY <2>4 DEF ClientPasses
  <2>6. QED
    BY <1>2, <2>1, <2>2, <2>3, <2>5
<1>5. CASE DestClose
  <2>1. /\ CloseConns({"b2"})
        /\ UNCHANGED <<got, sent, copy, held, broken, decoder, server, client>>
    BY <1>5 DEF DestClose, relayVars, endVars
  <2>2. {"b2"} \in SUBSET Pipes /\ Peer["b0"] /= "b2" /\ Peer["b1"] /= "b2"
    BY DEF Pipes, Peer
  <2>3. buf'["b0"] = buf["b0"] /\ buf'["b1"] = buf["b1"]
    BY <1>1, <1>3, <2>1, <2>2
  <2>4. QED
    BY <1>2, <2>1, <2>2, <2>3
<1>6. CASE RefuseRequest \/ HeaderWriteFails \/ ClientClose
  <2>1. PICK outgoing \in {{"b0"}, {"f1", "b0"}} : CloseConns(outgoing)
    <3>1. {"b0"} = {} \cup {"b0"} /\ {"f1", "b0"} = {"f1"} \cup {"b0"}
      OBVIOUS
    <3>2. QED
      BY <1>6, <3>1 DEF RefuseRequest, HeaderWriteFails, ClientClose, Refuse
  <2>2. /\ UNCHANGED <<got, sent, copy, held, broken, decoder, server>>
        /\ client' = "closed" /\ copy["cb"] \in {"idle", "done"}
    <3>1. copy["cb"] \in {"idle", "done"}
      BY <1>6 DEF RefuseRequest, HeaderWriteFails, ClientClose, ClientCopies,
                  Typed, Sequenced
    <3>2. QED
      BY <1>6, <3>1 DEF RefuseRequest, HeaderWriteFails, ClientClose, Refuse, endVars
  <2>3. ~ClientPasses'
    BY <2>2 DEF ClientPasses
  <2>4. outgoing \in SUBSET Pipes
    BY <2>1 DEF Pipes
  <2>5. QED
    BY <1>2, <2>1, <2>2, <2>3, <2>4
<1>7. CASE RejectHeader \/ Reject \/ ServerClose
  <2>1. PICK outgoing \in {{"b1"}, {"b1", "f2"}} : CloseConns(outgoing)
    BY <1>7 DEF RejectHeader, Reject, ServerClose, ServerCloses
  <2>2. /\ UNCHANGED <<got, sent, copy, held, broken, decoder, client>>
        /\ server' = "closed" /\ copy["sb"] \in {"idle", "done"}
    <3>1. copy["sb"] \in {"idle", "done"}
      BY <1>7 DEF RejectHeader, Reject, ServerClose, ServerCopies, Typed, Sequenced
    <3>2. QED
      BY <1>7, <3>1 DEF RejectHeader, Reject, ServerClose, ServerCloses, endVars
  <2>3. outgoing \in SUBSET Pipes /\ "b0" \notin outgoing /\ Peer["b0"] \notin outgoing
    BY <2>1 DEF Pipes, Peer
  <2>4. buf'["b0"] = buf["b0"]
    BY <1>1, <1>3, <2>1, <2>3
  <2>5. ServerPasses' => buf["b1"] = <<>>
    BY <2>2 DEF ServerPasses, Backward, FromDest
  <2>6. buf'["b1"] \in {<<>>, buf["b1"]}
    BY <1>1, <2>1, <2>3, Closed
  <2>7. QED
    BY <1>2, <2>1, <2>2, <2>3, <2>4, <2>5, <2>6
<1>8. QED
  BY <1>4, <1>5, <1>6, <1>7

LEMMA BackwardStep == Typed /\ Backward /\ [Next]_vars => Backward'
<1> SUFFICES ASSUME Typed, Backward, [Next]_vars PROVE Backward'
  OBVIOUS
<1>1. CASE AppFin \/ DestFin \/ DecodeFail
  <2>1. /\ UNCHANGED <<got, sent, copy, held, broken, buf, shut, server, client>>
        /\ decoder' \in {decoder, "done"}
    BY <1>1 DEF AppFin, DestFin, DecodeFail, relayVars, endVars, pipeVars
  <2>2. \A p \in Pipes : fin[p] => fin'[p]
    <3>1. fin \in [Pipes -> BOOLEAN]
      BY DEF Typed, TypeOK
    <3>2. QED
      BY <1>1, <3>1 DEF AppFin, DestFin, DecodeFail, pipeVars
  <2>3. Ends
    BY <2>1, <2>2 DEF Ends
  <2>4. QED
    BY <2>1, <2>3, BackwardEnds
<1>2. CASE Break
  <2>1. /\ UNCHANGED <<got, sent, copy, held, fin, shut, server, client, decoder>>
        /\ broken'
        /\ buf' = [p \in Pipes |-> IF p \in TunnelPipes THEN <<>> ELSE buf[p]]
    BY <1>2 DEF Break, relayVars, endVars
  <2>2. /\ \A p \in Pipes : buf'[p] \in {<<>>, buf[p]}
        /\ buf'["b0"] = buf["b0"] /\ buf'["b2"] = buf["b2"]
    BY <2>1 DEF TunnelPipes, Pipes
  <2>3. Ends
    BY <2>1, <2>2 DEF Ends
  <2>4. ~ServerPasses'
    BY <2>1 DEF ServerPasses
  <2>5. QED
    BY <2>2, <2>3, <2>4, BackwardEnds
<1>3. CASE AppSend \/ DestRecv \/ ReadRequest \/ OpenStream \/ DialTunnel \/ Decode
  <2>1. /\ UNCHANGED <<fin, shut, broken, copy, held>>
        /\ got'.b = got.b /\ sent'.b = sent.b /\ ClientPasses' = ClientPasses
    BY <1>3 DEF AppSend, DestRecv, ReadRequest, OpenStream, DialTunnel, Decode, pipeVars,
                relayVars, endVars, Typed, TypeOK, ClientPasses
  <2>2. \A p \in {"b0", "b1", "b2"} : buf'[p] = buf[p]
    <3>1. buf \in [Pipes -> Seq(Items)] /\ {"b0", "b1", "b2"} \subseteq Pipes
      BY DEF Typed, TypeOK, Pipes
    <3>2. QED
      BY <1>3, <3>1 DEF AppSend, DestRecv, ReadRequest, OpenStream, DialTunnel, Decode,
                        Push, Pop, pipeVars
  <2>3. QED
    BY <2>1, <2>2, BackwardSame
<1>4. ASSUME NEW c \in {"sf", "cf"}, Copy(c)
      PROVE  Backward'
  <2>1. /\ UNCHANGED <<fin, shut, broken, endVars>>
        /\ \A d \in {"cb", "sb"} : copy'[d] = copy[d] /\ held'[d] = held[d]
    <3>1. /\ UNCHANGED <<fin, shut, broken, endVars>>
          /\ \E step, item : SetCopy(c, step, item)
      BY <1>4 DEF Copy, CopyRead, CopyEnd, CopyWrite, CopyFail, pipeVars
    <3>2. DOMAIN copy = Copies /\ DOMAIN held = Copies
      BY DEF Typed, TypeOK
    <3>3. QED
      BY <3>1, <3>2 DEF SetCopy, Copies, ClientCopies, ServerCopies
  <2>2. Src[c] \notin {"b0", "b1", "b2"} /\ Dst[c] \notin {"b0", "b1", "b2"}
    BY DEF Src, Dst
  <2>3. \A p \in {"b0", "b1", "b2"} : buf'[p] = buf[p]
    <3>1. buf \in [Pipes -> Seq(Items)] /\ {"b0", "b1", "b2"} \subseteq Pipes
      BY DEF Typed, TypeOK, Pipes
    <3>2. QED
      BY <1>4, <2>2, <3>1 DEF Copy, CopyRead, CopyEnd, CopyWrite, CopyFail, Push, Pop,
                              pipeVars
  <2>4. ClientPasses' = ClientPasses
    BY <1>4, <2>1 DEF ClientPasses, Copy, CopyRead, CopyEnd, CopyWrite, CopyFail
  <2>5. QED
    BY <2>1, <2>3, <2>4, BackwardSame DEF endVars
<1>5. CASE UNCHANGED vars
  BY <1>5, BackwardSame DEF vars, pipeVars, relayVars, endVars, ClientPasses
<1>6. \A c \in Copies : c \in {"sf", "cf", "sb", "cb"}
  BY DEF Copies, ClientCopies, ServerCopies
<1>7. QED
  BY <1>1, <1>2, <1>3, <1>4, <1>5, <1>6, BackwardDestSend, BackwardAppRecv,
     BackwardReply, BackwardDialDest, BackwardServerCopy, BackwardClientCopy,
     BackwardClosed
     DEF Next, Endpoint, ClientStep, ServerStep

-----------------------------------------------------------------------------
(* NoneInvented is an invariant.                                           *)

LEMMA Within ==
  ASSUME NEW s \in Seq(Items), NEW n \in Int, NEW m \in Int, n <= m, AtMost(s, n), NEW t,
         \/ t = <<>> \/ t = s
         \/ s /= <<>> /\ t = Tail(s)
         \/ \E x \in Items : x <= m /\ t = Append(s, x)
  PROVE  AtMost(t, m)
<1>0. \A i \in 1 .. Len(s) : s[i] \in Int
  BY DEF Items, Request, Header, OkReply
<1>1. CASE t = <<>>
  BY <1>1 DEF AtMost
<1>2. CASE t = s
  BY <1>0, <1>2 DEF AtMost
<1>3. CASE s /= <<>> /\ t = Tail(s)
  <2>1. Len(t) = Len(s) - 1 /\ \A i \in 1 .. Len(t) : t[i] = s[i + 1] /\ i + 1 \in 1 .. Len(s)
    BY <1>3
  <2>2. QED
    BY <1>0, <2>1 DEF AtMost
<1>4. CASE \E x \in Items : x <= m /\ t = Append(s, x)
  <2>1. PICK x \in Items : x <= m /\ t = Append(s, x)
    BY <1>4
  <2>2. \A i \in 1 .. Len(t) : t[i] = x \/ (i \in 1 .. Len(s) /\ t[i] = s[i])
    BY <2>1
  <2>3. QED
    BY <1>0, <2>1, <2>2 DEF AtMost
<1>5. QED
  BY <1>1, <1>2, <1>3, <1>4

LEMMA HeadWithin ==
  ASSUME NEW s \in Seq(Items), NEW n, s /= <<>>, AtMost(s, n)
  PROVE  Head(s) \in Items /\ Head(s) <= n
<1>1. Head(s) = s[1] /\ 1 \in 1 .. Len(s)
  OBVIOUS
<1>2. QED
  BY <1>1 DEF AtMost

LEMMA Counted ==
  ASSUME Typed
  PROVE  /\ \A x : Chunks(x) \in Nat
         /\ \A c \in Copies : /\ Src[c] \in Pipes /\ Dst[c] \in Pipes
                              /\ Chunks(Src[c]) = Chunks(c) /\ Chunks(Dst[c]) = Chunks(c)
         /\ \A n \in Nat : Request <= n /\ Header <= n /\ OkReply <= n
<1>1. \A x : Chunks(x) \in Nat
  BY Basics DEF Chunks
<1>2. QED
  BY <1>1 DEF Copies, ClientCopies, ServerCopies, Src, Dst, Pipes, Chunks,
              Request, Header, OkReply

LEMMA NoneInventedStep == Typed /\ NoneInvented /\ [Next]_vars => NoneInvented'
<1> SUFFICES ASSUME Typed, NoneInvented, [Next]_vars PROVE NoneInvented'
  OBVIOUS
<1>1. /\ buf \in [Pipes -> Seq(Items)] /\ held \in [Copies -> Items \cup {0}]
      /\ got \in [f : Seq(Items), b : Seq(Items)]
      /\ sent \in [f : 0 .. MaxFwd, b : 0 .. MaxBack] /\ TypeOK
  BY DEF Typed, TypeOK
<1>2. /\ sent.f \in Nat /\ sent.b \in Nat /\ got.f \in Seq(Items) /\ got.b \in Seq(Items)
      /\ \A p \in Pipes : buf[p] \in Seq(Items)
  BY Basics
<1>3. \A n \in Int : n <= n
  OBVIOUS
\* What the pipes, the endpoints and the copies may take up in a step.
<1>4. ASSUME sent.f <= sent'.f, sent.b <= sent'.b, sent'.f \in Nat, sent'.b \in Nat,
             \A p \in Pipes :
               \/ buf'[p] = <<>> \/ buf'[p] = buf[p]
               \/ buf[p] /= <<>> /\ buf'[p] = Tail(buf[p])
               \/ \E x \in Items : x <= Chunks(p)' /\ buf'[p] = Append(buf[p], x),
             \/ got'.f = got.f
             \/ \E x \in Items : x <= sent.f /\ got'.f = Append(got.f, x),
             \/ got'.b = got.b
             \/ \E x \in Items : x <= sent.b /\ got'.b = Append(got.b, x),
             \A c \in Copies : held'[c] \in {0, held[c]}
                            \/ (held'[c] \in Items /\ held'[c] <= Chunks(c))
      PROVE  NoneInvented'
  <2>1. \A x : Chunks(x) \in Nat /\ Chunks(x)' \in Nat /\ Chunks(x) <= Chunks(x)'
    BY <1>2, <1>4 DEF Chunks
  <2>2. ASSUME NEW p \in Pipes
        PROVE  AtMost(buf'[p], Chunks(p)')
    <3> DEFINE s == buf[p]
               n == Chunks(p)
               m == Chunks(p)'
               t == buf'[p]
    <3>1. s \in Seq(Items) /\ n \in Int /\ m \in Int /\ n <= m /\ AtMost(s, n)
      BY <1>2, <2>1 DEF NoneInvented
    <3>2. \/ t = <<>> \/ t = s
          \/ s /= <<>> /\ t = Tail(s)
          \/ \E x \in Items : x <= m /\ t = Append(s, x)
      <4>1. ASSUME NEW x \in Items, x <= Chunks(p)', buf'[p] = Append(buf[p], x)
            PROVE  \E y \in Items : y <= m /\ t = Append(s, y)
        BY <4>1
      <4>2. QED
        BY <1>4, <4>1
    <3> HIDE DEF s, n, m, t
    <3>3. AtMost(t, m)
      BY <3>1, <3>2, Within
    <3>4. QED
      BY <3>3 DEF t, m
  <2>3. /\ \A x \in Items : x <= sent.f => x <= sent'.f
        /\ \A x \in Items : x <= sent.b => x <= sent'.b
    BY <1>2, <1>4 DEF Items, Request, Header, OkReply
  <2>4. AtMost(got'.f, sent'.f)
    <3> DEFINE s == got.f
               n == sent.f
               m == sent'.f
               t == got'.f
    <3>1. s \in Seq(Items) /\ n \in Int /\ m \in Int /\ n <= m /\ AtMost(s, n)
      BY <1>2, <1>4 DEF NoneInvented
    <3>2. t = s \/ \E x \in Items : x <= m /\ t = Append(s, x)
      BY <1>4, <2>3
    <3> HIDE DEF s, n, m, t
    <3>3. AtMost(t, m)
      BY <3>1, <3>2, Within
    <3>4. QED
      BY <3>3 DEF t, m
  <2>5. AtMost(got'.b, sent'.b)
    <3> DEFINE s == got.b
               n == sent.b
               m == sent'.b
               t == got'.b
    <3>1. s \in Seq(Items) /\ n \in Int /\ m \in Int /\ n <= m /\ AtMost(s, n)
      BY <1>2, <1>4 DEF NoneInvented
    <3>2. t = s \/ \E x \in Items : x <= m /\ t = Append(s, x)
      BY <1>4, <2>3
    <3> HIDE DEF s, n, m, t
    <3>3. AtMost(t, m)
      BY <3>1, <3>2, Within
    <3>4. QED
      BY <3>3 DEF t, m
  <2>6. ASSUME NEW c \in Copies
        PROVE  held'[c] <= Chunks(c)'
    <3>1. \A x \in Items \cup {0} : x \in Int
      BY DEF Items, Request, Header, OkReply
    <3>2. held[c] <= Chunks(c) /\ held[c] \in Int
      <4>1. held[c] \in Items \cup {0}
        BY <1>1
      <4>2. held[c] \in Int
        BY <3>1, <4>1
      <4>3. held[c] <= Chunks(c)
        BY ZenonT(30) DEF NoneInvented
      <4>4. QED
        BY <4>2, <4>3
    <3>3. held'[c] = 0 \/ (held'[c] \in Int /\ held'[c] <= Chunks(c))
      <4>1. \/ held'[c] = 0 \/ held'[c] = held[c]
            \/ held'[c] \in Items /\ held'[c] <= Chunks(c)
        BY <1>4
      <4>2. QED
        BY <3>1, <3>2, <4>1
    <3>4. QED
      BY <2>1, <3>3
  <2>7. QED
    BY <2>2, <2>4, <2>5, <2>6 DEF NoneInvented
<1>5. ASSUME UNCHANGED <<got, sent, held>>, \A p \in Pipes : buf'[p] \in {<<>>, buf[p]}
      PROVE  NoneInvented'
  BY <1>2, <1>3, <1>4, <1>5
<1>6. ASSUME NEW outgoing \in SUBSET Pipes, CloseConns(outgoing), UNCHANGED <<got, sent, held>>
      PROVE  NoneInvented'
  BY <1>1, <1>5, <1>6, Closed
<1>7. CASE \/ AppClose \/ DestClose \/ RefuseRequest \/ HeaderWriteFails \/ ClientClose
           \/ RejectHeader \/ Reject \/ ServerClose
  <2>1. UNCHANGED <<got, sent, held>>
    BY <1>7 DEF AppClose, DestClose, RefuseRequest, HeaderWriteFails, ClientClose, Refuse,
                RejectHeader, Reject, ServerClose, ServerCloses, relayVars, endVars
  <2>2. PICK outgoing \in {{"f0"}, {"b2"}, {"b0"}, {"f1", "b0"}, {"b1"}, {"b1", "f2"}} :
          CloseConns(outgoing)
    <3>1. {"b0"} = {} \cup {"b0"} /\ {"f1", "b0"} = {"f1"} \cup {"b0"}
      OBVIOUS
    <3>2. QED
      BY <1>7, <3>1 DEF AppClose, DestClose, RefuseRequest, HeaderWriteFails, ClientClose,
                        Refuse, RejectHeader, Reject, ServerClose, ServerCloses
  <2>3. outgoing \in SUBSET Pipes
    BY <2>2 DEF Pipes
  <2>4. QED
    BY <1>6, <2>1, <2>2, <2>3
<1>8. CASE AppFin \/ DestFin \/ DecodeFail \/ OpenStream \/ DialDest \/ Break \/ UNCHANGED vars
  <2>1. UNCHANGED <<got, sent, held>>
    BY <1>8 DEF AppFin, DestFin, DecodeFail, OpenStream, DialDest, Break, vars, relayVars,
                pipeVars, endVars
  <2>2. \A p \in Pipes : buf'[p] \in {<<>>, buf[p]}
    BY <1>8 DEF AppFin, DestFin, DecodeFail, OpenStream, DialDest, Break, vars, pipeVars
  <2>3. QED
    BY <1>5, <2>1, <2>2
<1>9. CASE ReadRequest \/ Decode
  <2>1. PICK p \in {"f0", "f1"} : buf[p] /= <<>> /\ Pop(p)
    BY <1>9 DEF ReadRequest, Decode, HasItem
  <2>2. UNCHANGED <<got, sent, held>>
    BY <1>9 DEF ReadRequest, Decode, endVars
  <2>3. \A q \in Pipes : \/ buf'[q] = buf[q]
                         \/ buf[q] /= <<>> /\ buf'[q] = Tail(buf[q])
    BY <1>1, <2>1 DEF Pop
  <2>4. QED
    BY <1>2, <1>3, <1>4, <2>2, <2>3
<1>10. CASE AppSend
  <2>1. /\ sent' = [sent EXCEPT !.f = @ + 1] /\ UNCHANGED <<got, held>>
        /\ buf' = [buf EXCEPT !["f0"] = Append(@, sent.f + 1)]
    BY <1>10 DEF AppSend, CanWrite, Push, relayVars
  <2>2. sent'.f = sent.f + 1 /\ sent'.b = sent.b /\ Chunks("f0")' = sent'.f
    BY <1>1, <2>1 DEF Chunks
  <2>3. sent.f + 1 \in Items /\ sent.f + 1 <= sent'.f
    BY <1>2, <2>2 DEF Items
  <2>4. \A p \in Pipes : \/ buf'[p] = buf[p]
                         \/ \E x \in Items : x <= Chunks(p)' /\ buf'[p] = Append(buf[p], x)
    BY <1>1, <2>1, <2>2, <2>3
  <2>5. sent.f <= sent'.f /\ sent.b <= sent'.b /\ sent'.f \in Nat /\ sent'.b \in Nat
    BY <1>2, <2>2
  <2>6. QED
    BY <1>4, <2>1, <2>4, <2>5
<1>11. CASE DestSend
  <2>1. /\ sent' = [sent EXCEPT !.b = @ + 1] /\ UNCHANGED <<got, held>>
        /\ buf' = [buf EXCEPT !["b2"] = Append(@, sent.b + 1)]
    BY <1>11 DEF DestSend, CanWrite, Push, relayVars
  <2>2. sent'.b = sent.b + 1 /\ sent'.f = sent.f /\ Chunks("b2")' = sent'.b
    BY <1>1, <2>1 DEF Chunks
  <2>3. sent.b + 1 \in Items /\ sent.b + 1 <= sent'.b
    BY <1>2, <2>2 DEF Items
  <2>4. \A p \in Pipes : \/ buf'[p] = buf[p]
                         \/ \E x \in Items : x <= Chunks(p)' /\ buf'[p] = Append(buf[p], x)
    BY <1>1, <2>1, <2>2, <2>3
  <2>5. sent.f <= sent'.f /\ sent.b <= sent'.b /\ sent'.f \in Nat /\ sent'.b \in Nat
    BY <1>2, <2>2
  <2>6. QED
    BY <1>4, <2>1, <2>4, <2>5
<1>12. CASE AppRecv
  <2> DEFINE x == Head(buf["b0"])
  <2>1. /\ buf["b0"] /= <<>> /\ UNCHANGED <<sent, held>>
        /\ got' = [got EXCEPT !.b = Append(@, x)] /\ buf' = [buf EXCEPT !["b0"] = Tail(@)]
    BY <1>12 DEF AppRecv, HasItem, Pop, relayVars
  <2>2. AtMost(buf["b0"], sent.b) /\ buf["b0"] \in Seq(Items)
    BY <1>2 DEF NoneInvented, Chunks, Pipes
  <2>3. x \in Items /\ x <= sent.b
    BY <2>1, <2>2, HeadWithin
  <2> HIDE DEF x
  <2>4. got'.f = got.f /\ got'.b = Append(got.b, x)
    BY <1>1, <2>1
  <2>5. \A q \in Pipes : \/ buf'[q] = buf[q]
                         \/ buf[q] /= <<>> /\ buf'[q] = Tail(buf[q])
    BY <1>1, <2>1
  <2>6. QED
    BY <1>2, <1>3, <1>4, <2>1, <2>3, <2>4, <2>5
<1>13. CASE DestRecv
  <2> DEFINE x == Head(buf["f2"])
  <2>1. /\ buf["f2"] /= <<>> /\ UNCHANGED <<sent, held>>
        /\ got' = [got EXCEPT !.f = Append(@, x)] /\ buf' = [buf EXCEPT !["f2"] = Tail(@)]
    BY <1>13 DEF DestRecv, HasItem, Pop, relayVars
  <2>2. AtMost(buf["f2"], sent.f) /\ buf["f2"] \in Seq(Items)
    BY <1>2 DEF NoneInvented, Chunks, Pipes
  <2>3. x \in Items /\ x <= sent.f
    BY <2>1, <2>2, HeadWithin
  <2> HIDE DEF x
  <2>4. got'.b = got.b /\ got'.f = Append(got.f, x)
    BY <1>1, <2>1
  <2>5. \A q \in Pipes : \/ buf'[q] = buf[q]
                         \/ buf[q] /= <<>> /\ buf'[q] = Tail(buf[q])
    BY <1>1, <2>1
  <2>6. QED
    BY <1>2, <1>3, <1>4, <2>1, <2>3, <2>4, <2>5
<1>14. CASE DialTunnel \/ Reply
  <2>1. /\ UNCHANGED <<got, sent, held>>
        /\ buf' = Push(buf, "f1", Header) \/ buf' = Push(buf, "b0", OkReply)
    BY <1>14 DEF DialTunnel, Reply, endVars
  <2>2. /\ Header \in Items /\ OkReply \in Items
        /\ \A n \in Nat : Header <= n /\ OkReply <= n
    BY Counted DEF Items
  <2>3. \A q \in Pipes : Chunks(q)' \in Nat
    BY <2>1, Counted DEF Chunks
  <2>4. \A q \in Pipes : \/ buf'[q] = buf[q]
                         \/ \E x \in {Header, OkReply} : buf'[q] = Append(buf[q], x)
    BY <1>1, <2>1 DEF Push
  <2>5. \A q \in Pipes : \/ buf'[q] = buf[q]
                         \/ \E x \in Items : x <= Chunks(q)' /\ buf'[q] = Append(buf[q], x)
    BY <2>2, <2>3, <2>4
  <2>6. QED
    BY <1>2, <1>3, <1>4, <2>1, <2>5
<1>15. ASSUME NEW c \in Copies, Copy(c)
       PROVE  NoneInvented'
  <2>0. /\ UNCHANGED <<got, sent>> /\ Src[c] \in Pipes /\ Dst[c] \in Pipes
        /\ Chunks(Src[c]) = Chunks(c) /\ Chunks(Dst[c]) = Chunks(c)
        /\ \A x : Chunks(x)' = Chunks(x)
    <3>1. UNCHANGED <<got, sent>>
      BY <1>15 DEF Copy, CopyRead, CopyEnd, CopyWrite, CopyFail, endVars
    <3>2. QED
      BY <3>1, Counted DEF Chunks
  <2>1. CASE CopyRead(c)
    <3>1. buf[Src[c]] /= <<>> /\ held' = [held EXCEPT ![c] = Head(buf[Src[c]])] /\ Pop(Src[c])
      BY <2>1 DEF CopyRead, HasItem, SetCopy
    <3>2. Head(buf[Src[c]]) \in Items /\ Head(buf[Src[c]]) <= Chunks(c)
      BY <1>2, <2>0, <3>1, HeadWithin DEF NoneInvented
    <3>3. \A q \in Pipes : \/ buf'[q] = buf[q]
                           \/ buf[q] /= <<>> /\ buf'[q] = Tail(buf[q])
      BY <1>1, <3>1 DEF Pop
    <3>4. \A d \in Copies : held'[d] \in {0, held[d]}
                            \/ (held'[d] \in Items /\ held'[d] <= Chunks(d))
      BY <1>1, <3>1, <3>2
    <3>5. QED
      BY <1>2, <1>3, <1>4, <2>0, <3>3, <3>4
  <2>2. CASE CopyEnd(c) \/ CopyFail(c)
    <3>1. UNCHANGED buf /\ held' = [held EXCEPT ![c] = 0]
      BY <2>2 DEF CopyEnd, CopyFail, SetCopy, pipeVars
    <3>2. \A d \in Copies : held'[d] \in {0, held[d]}
      BY <1>1, <3>1
    <3>3. QED
      BY <1>2, <1>3, <1>4, <2>0, <3>1, <3>2
  <2>3. CASE CopyWrite(c)
    <3>1. /\ copy[c] = "write" /\ held' = [held EXCEPT ![c] = 0]
          /\ buf' = [buf EXCEPT ![Dst[c]] = Append(@, held[c])]
      BY <2>3 DEF CopyWrite, CanWrite, SetCopy, Push
    <3>2. held[c] \in Items /\ held[c] <= Chunks(Dst[c])'
      BY <1>1, <2>0, <3>1, Basics DEF NoneInvented
    <3>3. \A q \in Pipes : \/ buf'[q] = buf[q]
                           \/ \E x \in Items : x <= Chunks(q)' /\ buf'[q] = Append(buf[q], x)
      BY <1>1, <3>1, <3>2
    <3>4. \A d \in Copies : held'[d] \in {0, held[d]}
      BY <1>1, <3>1
    <3>5. QED
      BY <1>2, <1>3, <1>4, <2>0, <3>3, <3>4
  <2>4. QED
    BY <1>15, <2>1, <2>2, <2>3 DEF Copy
<1>16. QED
  BY <1>7, <1>8, <1>9, <1>10, <1>11, <1>12, <1>13, <1>14, <1>15
     DEF Next, Endpoint, ClientStep, ServerStep

-----------------------------------------------------------------------------
(* Together they give StreamIntegrity.                                     *)

LEMMA PrefixOf ==
  ASSUME NEW s \in Seq(Items), NEW t \in Seq(Items), Len(s) <= Len(t),
         \A i \in 1 .. Len(s) : s[i] = t[i]
  PROVE  IsPrefix(s, t)
<1>1. SubSeq(s, 1, Len(s)) = SubSeq(t, 1, Len(s))
  <2> DEFINE a == SubSeq(s, 1, Len(s))
             b == SubSeq(t, 1, Len(s))
  <2>1. /\ a \in Seq(Items) /\ b \in Seq(Items) /\ Len(a) = Len(s) /\ Len(b) = Len(s)
        /\ \A i \in 1 .. Len(s) : a[i] = s[i] /\ b[i] = t[i]
    OBVIOUS
  <2> HIDE DEF a, b
  <2>2. Len(a) = Len(b) /\ \A i \in 1 .. Len(a) : a[i] = b[i]
    BY <2>1
  <2>3. a = b
    BY <2>1, <2>2, SeqEqual
  <2>4. QED
    BY <2>3 DEF a, b
<1>2. QED
  BY <1>1 DEF IsPrefix

LEMMA NumberedSeq ==
  ASSUME NEW n \in Nat
  PROVE  /\ Numbered(n) \in Seq(Items) /\ Len(Numbered(n)) = n
         /\ \A i \in 1 .. n : Numbered(n)[i] = i
BY DEF Numbered, Items

LEMMA StreamStart == Init => Forward /\ Backward /\ NoneInvented
<1> SUFFICES ASSUME Init PROVE Forward /\ Backward /\ NoneInvented
  OBVIOUS
<1> DEFINE r == <<Request>>
           e == <<>>
<1>1. r \in Seq(Items) /\ Len(r) = 1 /\ r[1] = Request /\ e \in Seq(Items) /\ Len(e) = 0
  BY DEF Items
<1>2. /\ buf["f0"] = r /\ \A p \in Pipes \ {"f0"} : buf[p] = e
      /\ buf["f1"] = e /\ buf["f2"] = e /\ buf["b0"] = e /\ buf["b1"] = e /\ buf["b2"] = e
      /\ got.f = e /\ got.b = e /\ sent.f = 0 /\ sent.b = 0
      /\ \A c \in Copies : held[c] = 0 /\ copy[c] = "idle"
      /\ client = "request" /\ server = "idle" /\ "f0" \in Pipes
  BY DEF Init, Pipes
<1> HIDE DEF r, e
<1>3. "cf" \in Copies /\ "cb" \in Copies /\ "sf" \in Copies /\ "sb" \in Copies
  BY DEF Copies, ClientCopies, ServerCopies
<1>4. \A control, last : Ordered(e, control, last)
  BY OrderedNothing DEF e
<1>5. LeftF1 = -1 /\ SeenF1 = -1 /\ LeftF0 = -1
  <2>1. LeftF1 = -1
    BY <1>2 DEF LeftF1
  <2>2. SeenF1 = -1
    BY <1>1, <1>2, <2>1 DEF SeenF1
  <2>3. LeftF0 = -1
    BY <1>2 DEF LeftF0
  <2>4. QED
    BY <2>1, <2>2, <2>3
<1>6. Ordered(r, Request, -1)
  <2> DEFINE l == -1
  <2>1. l + 1 = 0 /\ \A i \in 1 .. Len(r) : i = 1
    BY <1>1
  <2> HIDE DEF l
  <2>2. Ordered(r, Request, l)
    BY <1>1, <2>1 DEF Ordered, Numeral
  <2>3. QED
    BY <2>2 DEF l
<1>7. Forward
  <2>1. FromServer
    BY <1>2, <1>3, <1>4 DEF FromServer, e
  <2>2. LeftF0 + Len(buf["f0"]) = sent.f
    BY <1>1, <1>2, <1>5
  <2>3. Ordered(buf["f0"], Request, LeftF0) /\ Ordered(buf["f1"], Header, LeftF1)
    BY <1>2, <1>4, <1>5, <1>6
  <2>4. FromClient
    BY <1>2, <1>3, <2>2, <2>3 DEF FromClient
  <2>5. QED
    BY <2>1, <2>4 DEF Forward
<1>8. Backward
  <2>1. SeenB0 = 0 /\ LeftB1 = 0 /\ SeenB1 = 0 /\ LeftB2 = 0
    <3>1. SeenB0 = 0 /\ Holds("cb") = 0 /\ Holds("sb") = 0
      BY <1>2, <1>3 DEF SeenB0, Holds
    <3>2. LeftB1 = 0
      BY <3>1 DEF LeftB1
    <3>3. SeenB1 = 0
      BY <1>1, <1>2, <3>2 DEF SeenB1
    <3>4. QED
      BY <3>1, <3>2, <3>3 DEF LeftB2
  <2>2. Ordered(got.b, OkReply, -1) /\ Ordered(buf["b0"], OkReply, Len(got.b) - 1)
    BY <1>2, <1>4
  <2>3. ToApp
    BY <1>2, <1>3, <2>1, <2>2 DEF ToApp, e
  <2>4. FromDest
    BY <1>1, <1>2, <1>3, <1>4, <2>1 DEF FromDest, e
  <2>5. QED
    BY <2>3, <2>4 DEF Backward
<1>9. NoneInvented
  <2>1. \A n : AtMost(e, n)
    BY <1>1 DEF AtMost
  <2>2. AtMost(r, 0)
    BY <1>1 DEF AtMost, Request
  <2>3. \A x : Chunks(x) = 0
    BY <1>2 DEF Chunks
  <2>4. \A p \in Pipes : AtMost(buf[p], Chunks(p))
    BY <1>2, <2>1, <2>2, <2>3
  <2>5. QED
    BY <1>2, <2>1, <2>3, <2>4 DEF NoneInvented
<1>10. QED
  BY <1>7, <1>8, <1>9

\* The destination receives a prefix of what the application sent and the
\* application one success reply and then a prefix of what the destination
\* sent, in every interleaving of the copies with half-closes, closes, a failed
\* tunnel and lost output (handleSOCKS, DialTunnel, handle, handleConnect).
THEOREM StreamIsIntact == Spec => []StreamIntegrity
<1>1. Init => Typed /\ Forward /\ Backward /\ NoneInvented
  BY TypedStart, StreamStart
<1>2. Typed /\ Forward /\ Backward /\ NoneInvented /\ [Next]_vars
        => (Typed /\ Forward /\ Backward /\ NoneInvented)'
  BY TypedStep, ForwardStep, BackwardStep, NoneInventedStep
<1>3. Typed /\ Forward /\ Backward /\ NoneInvented => StreamIntegrity
  <2> SUFFICES ASSUME Typed, Forward, Backward, NoneInvented PROVE StreamIntegrity
    OBVIOUS
  <2>1. IsPrefix(got.f, Numbered(sent.f))
    <3> DEFINE s == got.f
               n == sent.f
    <3>1. s \in Seq(Items) /\ n \in Nat /\ Ordered(s, 0, 0) /\ AtMost(s, n)
      BY Basics DEF Forward, FromServer, NoneInvented
    <3> HIDE DEF s, n
    <3>2. \A i \in 1 .. Len(s) : s[i] = i /\ i <= n
      BY <3>1 DEF Ordered, Numeral, AtMost
    <3>3. Len(s) <= n
      BY <3>1, <3>2
    <3>4. IsPrefix(s, Numbered(n))
      <4> DEFINE d == Numbered(n)
      <4>1. /\ d \in Seq(Items) /\ Len(d) = n /\ \A i \in 1 .. n : d[i] = i
        BY <3>1, NumberedSeq
      <4> HIDE DEF d
      <4>2. Len(s) <= Len(d) /\ \A i \in 1 .. Len(s) : s[i] = d[i]
        BY <3>1, <3>2, <3>3, <4>1
      <4>3. IsPrefix(s, d)
        BY <3>1, <4>1, <4>2, PrefixOf
      <4>4. QED
        BY <4>3 DEF d
    <3>5. QED
      BY <3>4 DEF s, n
  <2>2. IsPrefix(got.b, <<OkReply>> \o Numbered(sent.b))
    <3> DEFINE s == got.b
               n == sent.b
               d == Numbered(n)
               t == <<OkReply>> \o d
               l == -1
    <3>1. s \in Seq(Items) /\ n \in Nat /\ Ordered(s, OkReply, l) /\ AtMost(s, n)
      BY Basics DEF Backward, ToApp, NoneInvented
    <3>2. d \in Seq(Items) /\ Len(d) = n /\ \A i \in 1 .. n : d[i] = i
      BY <3>1, NumberedSeq
    <3> HIDE DEF s, n, d
    <3>3. /\ t \in Seq(Items) /\ Len(t) = n + 1
          /\ \A i \in 1 .. Len(t) : t[i] = IF i = 1 THEN OkReply ELSE i - 1
      BY <3>1, <3>2 DEF OkReply, Items
    <3> HIDE DEF t
    <3>4. \A i \in 1 .. Len(s) : s[i] = IF i = 1 THEN OkReply ELSE i - 1
      BY <3>1 DEF Ordered, Numeral
    <3> HIDE DEF l
    <3>5. \A i \in 1 .. Len(s) : i <= n + 1
      BY <3>1, <3>4 DEF AtMost
    <3>6. Len(s) <= n + 1
      BY <3>1, <3>5
    <3>7. IsPrefix(s, t)
      BY <3>1, <3>3, <3>4, <3>6, PrefixOf
    <3>8. QED
      BY <3>7 DEF s, t, d, n
  <2>3. QED
    BY <2>1, <2>2 DEF StreamIntegrity
<1>4. QED
  BY <1>1, <1>2, <1>3, PTL DEF Spec
=============================================================================
