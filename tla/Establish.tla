----------------------------- MODULE Establish -----------------------------
(***************************************************************************)
(* How one tunnel comes about, byte by byte: keygen prints a URI and a     *)
(* server configuration (cmd/avangard-server/main.go), the client command  *)
(* parses the URI and builds a dialer (cmd/avangard-client/main.go), both  *)
(* sides exchange the Noise messages as length-prefixed frames             *)
(* (pkg/auth/noise.go), the client writes the AVANGARD header              *)
(* (pkg/tunnel/client.go) and at once the application's data, and the      *)
(* server decodes the header, checks the token and dials the destination   *)
(* (pkg/tunnel/server.go).                                                 *)
(*                                                                         *)
(* A carrier delivers bytes in pieces of its own choice (TCP with TLS,     *)
(* QUIC) or messages that wsStream.Read cuts up (pkg/transport/ws/ws.go).  *)
(* The Noise messages, the token and the certificates are a cryptographic  *)
(* library's: two bytes that name the key, or the UUID and the key.        *)
(***************************************************************************)
EXTENDS HeaderCodec, Uri

CONSTANTS
  Installs,  \* what keygen may have been run for: [key, uuid, decoy]
  Dests,     \* destinations asked for: [atyp, addr, port]
  Spelled,   \* the names that spell an IP address, with that address
  Payload,   \* what the application sends
  CopyBuf    \* bytes io.Copy reads at most

ASSUME EstablishAssumption ==
  /\ TokenLen = 2 /\ CopyBuf \in Nat \ {0}
  /\ Payload \in Seq(Byte)
  /\ \A x \in Installs : x.key \in Byte /\ x.uuid \in Byte
  /\ \A d \in Dests :
       /\ d.atyp \in Atyps /\ d.addr \in Seq(Byte) /\ d.port \in Seq(0 .. 9)
       /\ Len(d.addr) \in AddrLens(d.atyp) \/ (d.atyp = AtypDomain /\ d.addr = <<>>)
  /\ \A name \in DOMAIN Spelled :
       /\ name /= <<>> /\ Spelled[name] \in Seq(Byte)
       /\ Len(Spelled[name]) \in {V4Len, V6Len}

\* What was done to the URI before the client got it: a key printed in
\* another encoding, cut off or left out.
Edits == {"none", "rawstd", "std", "short", "no_key"}
Carriers == {"tcp", "quic", "ws"}

VARIABLES
  conf,   \* the two installations, the URI's history, the carrier, whether TLS
          \* accepts the certificate (or is told to), and the destination
  cpc,    \* the client's step
  spc,    \* the server's step
  up,     \* what the carrier holds of each direction
  down,
  got,    \* all bytes that reads have returned, per direction
  sent,   \* bytes of the payload sent
  cause   \* what has gone wrong that no endpoint decided, if anything

vars == <<conf, cpc, spc, up, down, got, sent, cause>>

Empty == [rbuf |-> <<>>, msgs |-> <<>>]

Init ==
  /\ conf \in [client : Installs, server : Installs, edit : Edits,
               carrier : Carriers, trusted : BOOLEAN, dest : Dests]
  /\ cpc = "uri" /\ spc = "idle"
  /\ up = Empty /\ down = Empty
  /\ got = [up |-> <<>>, down |-> <<>>]
  /\ sent = 0 /\ cause = "none"

-----------------------------------------------------------------------------
(* The carrier.                                                            *)

Least(a, b) == IF a < b THEN a ELSE b
After(s, n) == SubSeq(s, n + 1, Len(s))
InFlight(pipe) == pipe.rbuf \o FlattenSeq(pipe.msgs)

Written(pipe, bytes) ==
  IF conf.carrier = "ws" THEN [pipe EXCEPT !.msgs = Append(@, bytes)]
                         ELSE [pipe EXCEPT !.rbuf = @ \o bytes]

\* Variant: what does not fit into the caller's buffer is dropped.
MessageReadDrops(pipe, want) ==
  LET msg == IF pipe.rbuf /= <<>> THEN pipe.rbuf ELSE Head(pipe.msgs)
      n == Least(want, Len(msg))
  IN  [data |-> SubSeq(msg, 1, n),
       left |-> [rbuf |-> <<>>,
                 msgs |-> IF pipe.rbuf /= <<>> THEN pipe.msgs ELSE Tail(pipe.msgs)]]

\* wsStream.Read: the rest of the last message, or the next one.
MessageRead(pipe, want) ==
  LET msg == IF pipe.rbuf /= <<>> THEN pipe.rbuf ELSE Head(pipe.msgs)
      n == Least(want, Len(msg))
  IN  [data |-> SubSeq(msg, 1, n),
       left |-> [rbuf |-> After(msg, n),
                 msgs |-> IF pipe.rbuf /= <<>> THEN pipe.msgs ELSE Tail(pipe.msgs)]]

\* The results a Read of at most want bytes may have.
Reads(pipe, want) ==
  IF InFlight(pipe) = <<>> THEN {}
  ELSE IF conf.carrier = "ws" THEN {MessageRead(pipe, want)}
  ELSE {[data |-> SubSeq(pipe.rbuf, 1, n),
         left |-> [pipe EXCEPT !.rbuf = After(@, n)]] :
           n \in 1 .. Least(want, Len(pipe.rbuf))}

WriteUp(bytes) == up' = Written(up, bytes) /\ UNCHANGED <<down, got>>
WriteDown(bytes) == down' = Written(down, bytes) /\ UNCHANGED <<up, got>>

ReadUp(want) ==
  \E r \in Reads(up, want) :
    /\ up' = r.left /\ got' = [got EXCEPT !.up = @ \o r.data]
    /\ UNCHANGED down

ReadDown(want) ==
  \E r \in Reads(down, want) :
    /\ down' = r.left /\ got' = [got EXCEPT !.down = @ \o r.data]
    /\ UNCHANGED up

\* The connection is lost; both ends get errors.
Lose ==
  /\ cpc \notin {"uri", "failed"} /\ cause = "none"
  /\ cause' = "lost"
  /\ UNCHANGED <<conf, cpc, spc, up, down, got, sent>>

-----------------------------------------------------------------------------
(* Frames of the handshake.                                                *)

\* Variant: the length counts its own two bytes.
FrameHeaderCounted(body) == <<(Len(body) + 2) \div 256, (Len(body) + 2) % 256>>

FrameHeader(body) == <<Len(body) \div 256, Len(body) % 256>>

\* How many bytes readFrame has asked for once s has been read.
FrameNeed(s) == IF Len(s) < 2 THEN 2 ELSE 2 + 256 * s[1] + s[2]
FrameDone(s) == Len(s) >= 2 /\ Len(s) >= FrameNeed(s)
FrameBody(s) == SubSeq(s, 3, FrameNeed(s))

\* The two messages, which only the owner of the key can read and answer,
\* and the transcript's hash.
Msg1(key) == <<key, 1>>
Msg2(key) == <<key, 2>>
Hash(key) == key
DeriveToken(uuid, hash) == <<uuid, hash>>

-----------------------------------------------------------------------------
(* The client command.                                                     *)

\* keygen's URI, and what became of it.
KeygenConfig(x) ==
  [uuid |-> x.uuid, host |-> "127.0.0.1", port |-> "443",
   params |-> [p \in Params |-> CASE p = "sni" -> x.decoy
                                  [] p \in {"mode", "region"} -> {"auto"}
                                  [] OTHER -> {}],
   pk |-> {x.key}, name |-> "avangard"]

Edited(u) ==
  CASE conf.edit = "none" -> u
    [] conf.edit \in {"rawstd", "std"} ->
         [u EXCEPT !.pk = {PkText(text.key, conf.edit, 32) : text \in @}]
    [] conf.edit = "short" ->
         [u EXCEPT !.pk = {PkText(text.key, text.encoding, 31) : text \in @}]
    [] conf.edit = "no_key" -> [u EXCEPT !.pk = {}]

URI == Edited(String(KeygenConfig(conf.client)))
Config == Parse(URI)
Key == CHOOSE k \in Config.pk : TRUE

ClientGoes(step) == cpc' = step /\ UNCHANGED <<conf, spc, sent, cause>>

\* uri.Parse and NewClient, which wants a key.
ParseURI ==
  /\ cpc = "uri"
  /\ ClientGoes(IF Parsable(URI) /\ Config.pk /= {} THEN "dial" ELSE "failed")
  /\ UNCHANGED <<up, down, got>>

\* The host as handleSOCKS passes it on and net.ParseIP sees it.
Canonical(host) ==
  IF ~host.isIP /\ host.val \in DOMAIN Spelled THEN IPText(Spelled[host.val]) ELSE host

Host == Canonical(HostText(conf.dest.atyp, conf.dest.addr))

Request ==
  LET dest == EncodeDest(Host)
  IN  [version |-> HeaderVersion, token |-> DeriveToken(Config.uuid, Hash(Key)),
       cmd |-> CmdConnect, atyp |-> dest.atyp, addr |-> dest.addr,
       port |-> ParsePort(conf.dest.port)]

\* TLS succeeds, and the server's tcp listener does not take the SNI for a
\* stranger's.
Admitted ==
  /\ conf.trusted
  /\ conf.carrier = "tcp" /\ conf.server.decoy /= {} =>
       Config.params["sni"] = conf.server.decoy

Dial ==
  /\ cpc = "dial" /\ cause = "none" /\ DestEncodable(Host) /\ Admitted
  /\ cpc' = "hello" /\ spc' = "frame"
  /\ UNCHANGED <<conf, up, down, got, sent, cause>>

DialFail ==
  /\ cpc = "dial" /\ (cause = "lost" \/ ~DestEncodable(Host) \/ ~Admitted)
  /\ ClientGoes("failed") /\ UNCHANGED <<up, down, got>>

ClientHello ==
  /\ cpc = "hello" /\ cause /= "lost"
  /\ WriteUp(FrameHeader(Msg1(Key))) /\ ClientGoes("hello_body")

ClientHelloBody ==
  /\ cpc = "hello_body" /\ cause /= "lost"
  /\ WriteUp(Msg1(Key)) /\ ClientGoes("reply")

ClientRead ==
  /\ cpc = "reply" /\ cause /= "lost" /\ ~FrameDone(got.down)
  /\ ReadDown(FrameNeed(got.down) - Len(got.down))
  /\ ClientGoes("reply")

ClientReply ==
  /\ cpc = "reply" /\ FrameDone(got.down)
  /\ ClientGoes(IF FrameBody(got.down) = Msg2(Key) THEN "header" ELSE "failed")
  /\ UNCHANGED <<up, down, got>>

WriteHeader ==
  /\ cpc = "header" /\ cause /= "lost" /\ Request \in Headers
  /\ WriteUp(Encode(Request)) /\ ClientGoes("tunnel")

\* An encoding error, an error of a write, or the end of the stream.
ClientFail ==
  /\ \/ cpc = "header" /\ Request \notin Headers
     \/ cpc \in {"hello", "hello_body", "reply", "header"} /\ cause = "lost"
     \/ cpc = "reply" /\ spc = "closed" /\ InFlight(down) = <<>> /\ ~FrameDone(got.down)
  /\ ClientGoes("failed") /\ UNCHANGED <<up, down, got>>

AppData ==
  /\ cpc = "tunnel" /\ cause /= "lost" /\ sent < Len(Payload)
  /\ sent' = sent + 1
  /\ WriteUp(<<Payload[sent + 1]>>)
  /\ UNCHANGED <<conf, cpc, spc, cause>>

-----------------------------------------------------------------------------
(* The server.                                                             *)

ServerGoes(step) == spc' = step /\ UNCHANGED <<conf, cpc, sent, cause>>

\* What the server has read after the client's frame, and after the header.
ServerHeader == After(got.up, FrameNeed(got.up))
Delivered == After(ServerHeader, HeaderNeed(ServerHeader))
HeaderDone == Len(ServerHeader) >= HeaderNeed(ServerHeader)

ServerReadFrame ==
  /\ spc = "frame" /\ cause /= "lost" /\ ~FrameDone(got.up)
  /\ ReadUp(FrameNeed(got.up) - Len(got.up)) /\ ServerGoes("frame")

\* The first message is read with the server's key.
ServerHello ==
  /\ spc = "frame" /\ FrameDone(got.up)
  /\ ServerGoes(IF FrameBody(got.up) = Msg1(conf.server.key) THEN "answer" ELSE "closed")
  /\ UNCHANGED <<up, down, got>>

ServerAnswer ==
  /\ spc = "answer" /\ cause /= "lost"
  /\ WriteDown(FrameHeader(Msg2(conf.server.key))) /\ ServerGoes("answer_body")

ServerAnswerBody ==
  /\ spc = "answer_body" /\ cause /= "lost"
  /\ WriteDown(Msg2(conf.server.key)) /\ ServerGoes("header")

ServerReadHeader ==
  /\ spc = "header" /\ cause /= "lost" /\ ~HeaderBad(ServerHeader) /\ ~HeaderDone
  /\ ReadUp(HeaderNeed(ServerHeader) - Len(ServerHeader)) /\ ServerGoes("header")

\* Variant: the token is checked against the channel, not against the UUIDs.
TokenValidForAny(token) == token[2] = Hash(conf.server.key)

TokenValid(token) == token = DeriveToken(conf.server.uuid, Hash(conf.server.key))

\* handle: an error of Decode, the token, and the command.
ServerDecode ==
  LET h == Decode(ServerHeader)
      accepted == ~HeaderBad(ServerHeader) /\ TokenValid(h.token) /\ h.cmd = CmdConnect
  IN  /\ spc = "header" /\ (HeaderBad(ServerHeader) \/ HeaderDone)
      /\ ServerGoes(IF accepted THEN "connect" ELSE "closed")
      /\ UNCHANGED <<up, down, got>>

\* What net.DialTimeout is given.
Dialled ==
  LET h == Decode(ServerHeader)
  IN  [host |-> Canonical(HostText(h.atyp, h.addr)), port |-> h.port]

ServerConnect ==
  /\ spc = "connect"
  /\ ServerGoes("tunnel") /\ UNCHANGED <<up, down, got>>

\* The deadline of the handshake, which only the tcp listener sets, the one of
\* the header, or that of the dial or an error of it.
ServerGivesUp ==
  /\ \/ spc \in {"frame", "answer", "answer_body"} /\ conf.carrier = "tcp"
     \/ spc \in {"header", "connect"}
  /\ spc' = "closed" /\ cause' = IF cause = "none" THEN "gave_up" ELSE cause
  /\ UNCHANGED <<conf, cpc, up, down, got, sent>>

\* The stream has ended, or an error of a read or a write.
ServerFail ==
  /\ \/ spc \in {"frame", "answer", "answer_body", "header"} /\ cause = "lost"
     \/ spc = "frame" /\ ~FrameDone(got.up) /\ cpc = "failed" /\ InFlight(up) = <<>>
     \/ spc = "header" /\ ~HeaderDone /\ cpc = "failed" /\ InFlight(up) = <<>>
  /\ ServerGoes("closed") /\ UNCHANGED <<up, down, got>>

ServerCopy ==
  /\ spc = "tunnel" /\ cause /= "lost"
  /\ ReadUp(CopyBuf) /\ ServerGoes("tunnel")

-----------------------------------------------------------------------------
ClientStep ==
  \/ ParseURI \/ Dial \/ DialFail
  \/ ClientHello \/ ClientHelloBody \/ ClientRead \/ ClientReply
  \/ WriteHeader \/ ClientFail \/ AppData

ServerStep ==
  \/ ServerReadFrame \/ ServerHello \/ ServerAnswer \/ ServerAnswerBody
  \/ ServerReadHeader \/ ServerDecode \/ ServerConnect \/ ServerFail \/ ServerCopy

Next == ClientStep \/ ServerStep \/ ServerGivesUp \/ Lose

Spec == Init /\ [][Next]_vars

\* Both programs run.  No deadline is relied upon.
FairSpec == Spec /\ WF_vars(ClientStep) /\ WF_vars(ServerStep)

-----------------------------------------------------------------------------
(* Properties.                                                             *)

Pipe == [rbuf : Seq(Byte), msgs : Seq(Seq(Byte))]

TypeOK ==
  /\ cpc \in {"uri", "dial", "hello", "hello_body", "reply", "header", "tunnel",
              "failed"}
  /\ spc \in {"idle", "frame", "answer", "answer_body", "header", "connect",
              "tunnel", "closed"}
  /\ up \in Pipe /\ down \in Pipe
  /\ got \in [up : Seq(Byte), down : Seq(Byte)]
  /\ sent \in 0 .. Len(Payload)
  /\ cause \in {"none", "lost", "gave_up"}
  /\ conf.carrier /= "ws" => up.msgs = <<>> /\ down.msgs = <<>>

\* Reads of the frames and of the header leave exactly the application's data
\* to the relay, although the client sends without waiting and the carrier
\* splits and joins as it likes ("reads exactly the bytes that make up the
\* header (no payload)", header.go:91-92; noise.go:164-178).
StreamClean == spc = "tunnel" => IsPrefix(Delivered, SubSeq(Payload, 1, sent))

\* The server dials the host and port that the application asked for, however
\* it spelled them, if the port is one (client.go:66-92, header.go:127-142,
\* main.go:236-265 of the client).
DestinationAgrees ==
  spc \in {"connect", "tunnel"} /\ Decimal(conf.dest.port) < 65536 =>
    Dialled = [host |-> Host, port |-> Decimal(conf.dest.port)]

\* The client's URI belongs to the server, as keygen or a person made it.
Matching ==
  /\ conf.client.key = conf.server.key /\ conf.client.uuid = conf.server.uuid
  /\ CASE conf.edit = "none" -> TRUE
       [] conf.edit = "rawstd" -> Letters[conf.client.key] = {}
       [] conf.edit = "std" -> "+" \notin Letters[conf.client.key]
       [] OTHER -> FALSE
  /\ conf.trusted
  /\ conf.carrier = "tcp" => conf.server.decoy \in {{}, conf.client.decoy}
  /\ conf.dest.atyp = AtypDomain => conf.dest.addr /= <<>>

\* A tunnel comes about for a matching pair and nobody else, and a matching
\* pair fails only if the connection is lost or the server gives up (the
\* checks of uri.go:84-97, noise.go:95-98 and 128-131, server.go:80-83, and
\* sni of tcp/server.go:114-118).
VerdictRight ==
  /\ spc = "tunnel" => Matching
  /\ (cpc = "failed" \/ spc = "closed") /\ cause = "none" => ~Matching

\* Each direction of the carrier is a byte stream (wsStream, ws.go:251-285).
UpStream == INSTANCE ByteStream WITH pending <- InFlight(up), taken <- got.up
DownStream == INSTANCE ByteStream WITH pending <- InFlight(down), taken <- got.down

ImplementsByteStream == UpStream!Spec /\ DownStream!Spec

\* Neither side waits for the other forever, even with no deadline: the
\* lengths each announces are the lengths the other reads, and a side that
\* refuses ends the stream (noise.go:152-178, server.go:54-83).
Settles ==
  <>(cpc \in {"tunnel", "failed"} /\ spc \in {"idle", "tunnel", "closed"})
=============================================================================
