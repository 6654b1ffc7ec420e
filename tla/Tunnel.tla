------------------------------- MODULE Tunnel -------------------------------
(***************************************************************************)
(* One proxied connection from end to end: an application, the client's    *)
(* handleSOCKS (cmd/avangard-client/main.go) and DialTunnel                *)
(* (pkg/tunnel/client.go), the tunnel stream, the server's handle and      *)
(* handleConnect (pkg/tunnel/server.go), and the destination.              *)
(*                                                                         *)
(*     App --f0-> client --f1-> server --f2-> Dest                         *)
(*         <-b0--        <-b1--        <-b2--                              *)
(*                                                                         *)
(* A pipe is one direction of a connection.  Two io.Copy goroutines of the *)
(* client (cf, cb) and two of the server (sf, sb) move data along.  Data   *)
(* are numbered chunks; the SOCKS5 request, its reply and the AVANGARD     *)
(* header are one item each.                                               *)
(***************************************************************************)
EXTENDS Integers, Sequences, SequencesExt

CONSTANTS
  Cap,             \* items a pipe holds before a writer blocks
  MaxFwd, MaxBack  \* bounds of the model: chunks the application and the
                   \* destination send

ASSUME TunnelAssumption == Cap \in Nat \ {0} /\ MaxFwd \in Nat /\ MaxBack \in Nat

Pipes == {"f0", "f1", "f2", "b0", "b1", "b2"}
TunnelPipes == {"f1", "b1"}
\* The other direction of the same connection.
Peer == [f0 |-> "b0", b0 |-> "f0", f1 |-> "b1", b1 |-> "f1",
         f2 |-> "b2", b2 |-> "f2"]

ClientCopies == {"cf", "cb"}
ServerCopies == {"sf", "sb"}
Copies == ClientCopies \cup ServerCopies
Src == [cf |-> "f0", sf |-> "f1", sb |-> "b2", cb |-> "b1"]
Dst == [cf |-> "f1", sf |-> "f2", sb |-> "b1", cb |-> "b0"]

\* Items that are not data; 0 stands for no item.
Request == -1
Header == -2
OkReply == -3
Items == {Request, Header, OkReply} \cup (Nat \ {0})

VARIABLES
  carrier,     \* the transport of the tunnel: quic, or one of tcp, ws and smux
  buf,         \* what each pipe holds
  fin,         \* the writing end of a pipe has ended
  shut,        \* the reading end of a pipe is gone
  broken,      \* the transport of the tunnel has failed
  copy,        \* the step each copy goroutine is at
  held,        \* the item a copy has read and not written
  client,      \* phase of handleSOCKS
  server,      \* phase of handle and handleConnect
  decoder,     \* the goroutine that decodes the header
  sent,        \* chunks each endpoint has sent
  got          \* items each endpoint has received, in order

pipeVars == <<buf, fin, shut, broken, carrier>>
relayVars == <<copy, held, client, server, decoder>>
endVars == <<sent, got>>
vars == <<pipeVars, relayVars, endVars>>

\* Close of a tunnel stream also ends its reading half; over quic it ends the
\* writing half only.
CloseStopsRead == carrier /= "quic"

TypeOK ==
  /\ carrier \in {"quic", "other"}
  /\ buf \in [Pipes -> Seq(Items)] /\ \A p \in Pipes : Len(buf[p]) <= Cap
  /\ fin \in [Pipes -> BOOLEAN] /\ shut \in [Pipes -> BOOLEAN]
  /\ broken \in BOOLEAN
  /\ copy \in [Copies -> {"idle", "read", "write", "done"}]
  /\ held \in [Copies -> Items \cup {0}]
  /\ \A c \in Copies : (held[c] /= 0) <=> (copy[c] = "write")
  /\ client \in {"request", "dial", "opened", "reply", "copy", "closed"}
  /\ server \in {"idle", "header", "dial", "copy", "closed"}
  /\ decoder \in {"idle", "reading", "done"}
  /\ sent \in [f : 0 .. MaxFwd, b : 0 .. MaxBack]
  /\ got \in [f : Seq(Items), b : Seq(Items)]

Init ==
  /\ carrier \in {"quic", "other"}
  /\ buf = [p \in Pipes |-> IF p = "f0" THEN <<Request>> ELSE <<>>]
  /\ fin = [p \in Pipes |-> FALSE]
  /\ shut = [p \in Pipes |-> FALSE]
  /\ broken = FALSE
  /\ copy = [c \in Copies |-> "idle"]
  /\ held = [c \in Copies |-> 0]
  /\ client = "request" /\ server = "idle" /\ decoder = "idle"
  /\ sent = [f |-> 0, b |-> 0]
  /\ got = [f |-> <<>>, b |-> <<>>]

-----------------------------------------------------------------------------
(* Reading, writing and closing.                                           *)

Failed(p) == broken /\ p \in TunnelPipes
HasItem(p) == buf[p] /= <<>> /\ ~Failed(p)
AtEnd(p) == Failed(p) \/ (buf[p] = <<>> /\ fin[p])
CanWrite(p) == ~Failed(p) /\ ~shut[p] /\ ~fin[p] /\ Len(buf[p]) < Cap
WriteFails(p) == Failed(p) \/ shut[p]

Push(b, p, item) == [b EXCEPT ![p] = IF shut[p] THEN @ ELSE Append(@, item)]
Pop(p) == buf' = [buf EXCEPT ![p] = Tail(@)]

\* The owner of connections closes them: their outgoing pipes end and their
\* incoming pipes are not read any more.  A kernel that still holds unread
\* input resets the connection, and what is left of its output may be lost.
CloseConns(outgoing) ==
  LET incoming == {Peer[p] : p \in outgoing}
      stopped == IF CloseStopsRead THEN incoming ELSE incoming \ TunnelPipes
  IN  /\ fin' = [p \in Pipes |-> fin[p] \/ p \in outgoing]
      /\ shut' = [p \in Pipes |-> shut[p] \/ p \in stopped]
      /\ \E lost \in SUBSET {p \in outgoing : buf[Peer[p]] /= <<>>} :
           buf' = [p \in Pipes |-> IF p \in lost \cup stopped THEN <<>> ELSE buf[p]]

-----------------------------------------------------------------------------
(* The application and the destination, whose connection exists once the   *)
(* server copies.                                                          *)

DestOpen == copy["sf"] /= "idle"

AppSend ==
  /\ sent.f < MaxFwd /\ CanWrite("f0")
  /\ sent' = [sent EXCEPT !.f = @ + 1]
  /\ buf' = Push(buf, "f0", sent.f + 1)
  /\ UNCHANGED <<fin, shut, broken, carrier, relayVars, got>>

DestSend ==
  /\ DestOpen /\ sent.b < MaxBack /\ CanWrite("b2")
  /\ sent' = [sent EXCEPT !.b = @ + 1]
  /\ buf' = Push(buf, "b2", sent.b + 1)
  /\ UNCHANGED <<fin, shut, broken, carrier, relayVars, got>>

AppRecv ==
  /\ ~shut["b0"] /\ HasItem("b0")
  /\ got' = [got EXCEPT !.b = Append(@, Head(buf["b0"]))]
  /\ Pop("b0")
  /\ UNCHANGED <<fin, shut, broken, carrier, relayVars, sent>>

DestRecv ==
  /\ ~shut["f2"] /\ HasItem("f2")
  /\ got' = [got EXCEPT !.f = Append(@, Head(buf["f2"]))]
  /\ Pop("f2")
  /\ UNCHANGED <<fin, shut, broken, carrier, relayVars, sent>>

\* An endpoint ends its sending half, or closes its connection.
AppFin ==
  /\ ~fin["f0"]
  /\ fin' = [fin EXCEPT !["f0"] = TRUE]
  /\ UNCHANGED <<buf, shut, broken, carrier, relayVars, endVars>>

DestFin ==
  /\ DestOpen /\ ~fin["b2"]
  /\ fin' = [fin EXCEPT !["b2"] = TRUE]
  /\ UNCHANGED <<buf, shut, broken, carrier, relayVars, endVars>>

AppClose ==
  /\ ~shut["b0"]
  /\ CloseConns({"f0"})
  /\ UNCHANGED <<broken, carrier, relayVars, endVars>>

DestClose ==
  /\ DestOpen /\ ~shut["f2"]
  /\ CloseConns({"b2"})
  /\ UNCHANGED <<broken, carrier, relayVars, endVars>>

\* The carrier connection fails; both ends of the tunnel get errors.
Break ==
  /\ client \in {"opened", "reply", "copy"} /\ ~broken
  /\ broken' = TRUE
  /\ buf' = [p \in Pipes |-> IF p \in TunnelPipes THEN <<>> ELSE buf[p]]
  /\ UNCHANGED <<fin, shut, carrier, relayVars, endVars>>

-----------------------------------------------------------------------------
(* handleSOCKS and DialTunnel.                                             *)

ReadRequest ==
  /\ client = "request" /\ HasItem("f0")
  /\ Pop("f0")
  /\ client' = "dial"
  /\ UNCHANGED <<fin, shut, broken, carrier, copy, held, server, decoder, endVars>>

\* The early returns: the replies that report a failure are left out.
Refuse(outgoing) ==
  /\ client' = "closed"
  /\ CloseConns(outgoing \cup {"b0"})
  /\ UNCHANGED <<broken, carrier, copy, held, server, decoder, endVars>>

\* A request that is malformed or not CONNECT, and a failed dial.
RefuseRequest == client \in {"request", "dial"} /\ Refuse({})

HeaderWriteFails == client = "opened" /\ WriteFails("f1") /\ Refuse({"f1"})

OpenStream ==
  /\ client = "dial"
  /\ client' = "opened" /\ server' = "header" /\ decoder' = "reading"
  /\ UNCHANGED <<pipeVars, copy, held, endVars>>

DialTunnel ==
  /\ client = "opened" /\ ~broken
  /\ buf' = Push(buf, "f1", Header)
  /\ client' = "reply"
  /\ UNCHANGED <<fin, shut, broken, carrier, copy, held, server, decoder, endVars>>

\* The success reply, whose error is ignored, and the start of both copies.
\* The reply does not wait for the server to reach the destination.
Reply ==
  /\ client = "reply"
  /\ buf' = Push(buf, "b0", OkReply)
  /\ client' = "copy"
  /\ copy' = [c \in Copies |-> IF c \in ClientCopies THEN "read" ELSE copy[c]]
  /\ UNCHANGED <<fin, shut, broken, carrier, held, server, decoder, endVars>>

ClientClose ==
  /\ client = "copy" /\ \A c \in ClientCopies : copy[c] = "done"
  /\ client' = "closed"
  /\ CloseConns({"f1", "b0"})
  /\ UNCHANGED <<broken, carrier, copy, held, server, decoder, endVars>>

-----------------------------------------------------------------------------
(* handle and handleConnect.                                               *)

ServerCloses(outgoing) ==
  /\ server' = "closed"
  /\ CloseConns(outgoing)
  /\ UNCHANGED <<broken, carrier, copy, held, client, decoder, endVars>>

\* Variant: the header is looked at and left in the stream.
DecodeLeavesHeader ==
  /\ decoder = "reading" /\ HasItem("f1") /\ Head(buf["f1"]) = Header
  /\ decoder' = "done"
  /\ server' = IF server = "header" THEN "dial" ELSE server
  /\ UNCHANGED <<pipeVars, copy, held, client, endVars>>

\* The goroutine that decodes the header takes exactly the header.
Decode ==
  /\ decoder = "reading" /\ HasItem("f1") /\ Head(buf["f1"]) = Header
  /\ Pop("f1")
  /\ decoder' = "done"
  /\ server' = IF server = "header" THEN "dial" ELSE server
  /\ UNCHANGED <<fin, shut, broken, carrier, copy, held, client, endVars>>

\* It fails at the end of the stream, or when the handler closed it.
DecodeFail ==
  /\ decoder = "reading" /\ (AtEnd("f1") \/ shut["f1"])
  /\ decoder' = "done"
  /\ UNCHANGED <<pipeVars, copy, held, client, server, endVars>>

\* Variant: no timer bounds the wait for the header.
RejectHeaderUntimed ==
  /\ server = "header" /\ decoder = "done"
  /\ ServerCloses({"b1"})

\* A decode error, or the 10 s timer.
RejectHeader ==
  /\ server = "header"
  /\ ServerCloses({"b1"})

\* A token that is not valid for this channel, or a failed dial.
Reject == server = "dial" /\ ServerCloses({"b1"})

DialDest ==
  /\ server = "dial"
  /\ server' = "copy"
  /\ copy' = [c \in Copies |-> IF c \in ServerCopies THEN "read" ELSE copy[c]]
  /\ UNCHANGED <<pipeVars, held, client, decoder, endVars>>

\* Variant: the first copy that ends closes both connections.
ServerCloseOnFirst ==
  /\ server = "copy" /\ \E c \in ServerCopies : copy[c] = "done"
  /\ ServerCloses({"b1", "f2"})

ServerClose ==
  /\ server = "copy" /\ \A c \in ServerCopies : copy[c] = "done"
  /\ ServerCloses({"b1", "f2"})

-----------------------------------------------------------------------------
(* io.Copy.                                                                *)

SetCopy(c, step, item) ==
  /\ copy' = [copy EXCEPT ![c] = step]
  /\ held' = [held EXCEPT ![c] = item]

CopyRead(c) ==
  /\ copy[c] = "read" /\ HasItem(Src[c])
  /\ SetCopy(c, "write", Head(buf[Src[c]]))
  /\ Pop(Src[c])
  /\ UNCHANGED <<fin, shut, broken, carrier, client, server, decoder, endVars>>

\* Variant: only the end of the data ends a copy, an error does not.
CopyEndOnEOF(c) ==
  /\ copy[c] = "read" /\ AtEnd(Src[c]) /\ ~Failed(Src[c])
  /\ SetCopy(c, "done", 0)
  /\ UNCHANGED <<pipeVars, client, server, decoder, endVars>>

CopyEnd(c) ==
  /\ copy[c] = "read" /\ AtEnd(Src[c])
  /\ SetCopy(c, "done", 0)
  /\ UNCHANGED <<pipeVars, client, server, decoder, endVars>>

\* Variant: a copy does not wait for room.
CopyWriteUnbounded(c) ==
  /\ copy[c] = "write" /\ ~WriteFails(Dst[c])
  /\ SetCopy(c, "read", 0)
  /\ buf' = Push(buf, Dst[c], held[c])
  /\ UNCHANGED <<fin, shut, broken, carrier, client, server, decoder, endVars>>

CopyWrite(c) ==
  /\ copy[c] = "write" /\ CanWrite(Dst[c])
  /\ SetCopy(c, "read", 0)
  /\ buf' = Push(buf, Dst[c], held[c])
  /\ UNCHANGED <<fin, shut, broken, carrier, client, server, decoder, endVars>>

\* A write nobody will read may still succeed before the error is known.
CopyFail(c) ==
  /\ copy[c] = "write" /\ WriteFails(Dst[c])
  /\ \E step \in {"done", "read"} : SetCopy(c, step, 0)
  /\ UNCHANGED <<pipeVars, client, server, decoder, endVars>>

Copy(c) == CopyRead(c) \/ CopyEnd(c) \/ CopyWrite(c) \/ CopyFail(c)

-----------------------------------------------------------------------------
Endpoint == \/ AppSend \/ DestSend \/ AppRecv \/ DestRecv
            \/ AppFin \/ DestFin \/ AppClose \/ DestClose
ClientStep == \/ ReadRequest \/ RefuseRequest \/ OpenStream
              \/ HeaderWriteFails \/ DialTunnel \/ Reply \/ ClientClose
ServerStep == \/ Decode \/ DecodeFail \/ RejectHeader
              \/ Reject \/ DialDest \/ ServerClose

Next == Endpoint \/ Break \/ ClientStep \/ ServerStep \/ \E c \in Copies : Copy(c)

\* The goroutines of both relays run, the server's timer fires, and endpoints
\* read what arrives until they close.  What endpoints send and when they
\* close is theirs; the client's request, dial and header may stall.  Nothing
\* is in the way of its reply.
Fairness ==
  /\ \A c \in Copies : WF_vars(Copy(c))
  /\ WF_vars(ClientClose) /\ WF_vars(ServerClose)
  /\ WF_vars(HeaderWriteFails) /\ WF_vars(Reply)
  /\ WF_vars(Decode) /\ WF_vars(DecodeFail) /\ WF_vars(RejectHeader)
  /\ WF_vars(DialDest \/ Reject)
  /\ WF_vars(AppRecv) /\ WF_vars(DestRecv)

Spec == Init /\ [][Next]_vars
FairSpec == Spec /\ Fairness

-----------------------------------------------------------------------------
(* Properties.                                                             *)

Numbered(n) == [i \in 1 .. n |-> i]

\* The destination receives a prefix of what the application sent, from its
\* first chunk on and with nothing of the request or the header in front; the
\* application receives one SOCKS5 reply and then a prefix of what the
\* destination sent (Decode "reads exactly the bytes that make up the
\* header", header.go:91; the reply of main.go:275 precedes the copies).
StreamIntegrity ==
  /\ IsPrefix(got.f, Numbered(sent.f))
  /\ IsPrefix(got.b, <<OkReply>> \o Numbered(sent.b))

\* A relay that was copying closes only when an endpoint has closed its
\* connection or the tunnel has failed (or, for the client, when the server
\* rejected the tunnel): half-closes of the endpoints, in any order, never
\* cut the other direction short (wg.Wait, server.go:110, main.go:281).
Excused == broken \/ shut["f2"] \/ shut["b0"]

ClosedForCause ==
  /\ server = "closed" /\ copy["sf"] /= "idle" => Excused
  /\ client = "closed" /\ copy["cf"] /= "idle" => Excused \/ server = "closed"

\* Every chunk that is sent while the relays run arrives, also when its
\* sender or the other side ends its sending half meanwhile; only a closed
\* connection or a failed tunnel loses data (handleConnect, handleSOCKS).
Delivered ==
  /\ \A i \in 1 .. MaxFwd :
       (server = "copy" /\ sent.f >= i) ~> (Contains(got.f, i) \/ Excused)
  /\ \A i \in 1 .. MaxBack :
       (sent.b >= i) ~> (Contains(got.b, i) \/ Excused)

\* The handler waits for a header for a bounded time; closing the stream then
\* ends the goroutine that decodes it as well, except over quic, whose Close
\* leaves it blocked (server.go:63-78).
HeaderBounded ==
  (decoder = "reading") ~>
    (server /= "header" /\ (CloseStopsRead => decoder = "done"))

\* Once the tunnel has failed and both endpoints are gone, both relays end
\* (each copy sees an error or an end: server.go:108-109, main.go:279-280).
TunnelLossReleases ==
  (broken /\ shut["b0"] /\ shut["f2"]) ~> (client = "closed" /\ server = "closed")

\* A relay whose endpoints are both gone, and which therefore stays idle, is
\* closed in the end ("idle 120s / err", docs/AVANGARD-SPEC.md:297).
IdleRelaysClose ==
  (shut["b0"] /\ shut["f2"]) ~> (client = "closed" /\ server = "closed")
=============================================================================
