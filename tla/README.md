# TLA+ models of AVANGARD

TLA+ specifications, TLC configurations and machine-checked proofs for the Go
program in this repository: a tunnelling proxy whose client offers SOCKS5 to
local applications and whose server forwards authenticated streams to their
destinations over TCP/TLS, QUIC, WebSocket or a SMUX session.

## The system

| part | state it keeps | operations | what is hard |
|---|---|---|---|
| transport servers (`pkg/transport/{tcp,quic,ws,smuxtcp}`) | accept loop, one goroutine per handshake, channel `out`, channel `done` | `Listen`, `acceptLoop`, `handleConn`/`handleStream`/`handleWS`, `Accept`, `Close` | full channels, stalled peers, a failing `Accept`, concurrent `Close` |
| composite listener (`pkg/tunnel/server.go`) | one goroutine per listener with the item in its hand, channels `out` and `done` | `NewComposite`, `Accept`, `Close` | order and loss across channels, shutdown with blocked senders |
| tunnel server (`pkg/tunnel/server.go`) | one handler per stream, a header decoder, two copies | `Serve`, `handle`, `handleConnect`, `Close` | header timeout against a late header, half-closes, idle relays |
| tunnel client, SOCKS5 (`pkg/tunnel/client.go`, `cmd/avangard-client`) | two copies per connection | `DialTunnel`, `handleSOCKS` | the reply before the dial, two relays that wait for each other |
| TCP front door (`tcp/server.go`, `sni.go`) | peeked bytes, deadlines, two copies to the decoy | `peekClientHelloSNI`, `handleConn`, `forwardDecoy` | split and cut-off records, the end of one copy |
| smux client and server (`pkg/transport/smuxtcp`) | session, raw connection and hash under a mutex; one `acceptStreams` loop per session | `Dial`, `dialOuter`, `Close`; `handleOuter`, `acceptStreams`, `Accept`, `Close` | a session that dies between two steps, many loops and one channel |
| WebSocket stream (`pkg/transport/ws`) | the rest of the last message | `Read`, `Write` | messages that match no read |
| header, token, Noise frames (`pkg/protocol`, `pkg/auth`) | none | `Encode`, `Decode`, `DeriveToken`, `ClientHandshake`, `ServerHandshake`, `readFrame`, `writeFrame` | byte layout, two sides that wait for each other |
| avangard URI, `keygen` (`pkg/uri`, `cmd/avangard-server`) | none | `String`, `Parse` | two encodings printed, two accepted |
| replay filter (`pkg/replay`) | two bloom filters, the instant of the next rotation | `Check`, `maybeRotate` | concurrent checks, rotation, Duration arithmetic |
| AutoProbe, RegionShield | one goroutine per probe, the `Result` | `Run`, `Select` | probes in any order, what a probe result means |
| blocklist, config, uTLS, `selfcert` | none that is shared | parsing and printing | boundary cases of pure functions |

A connection goes through *transport server* → `out` → *composite goroutine* →
composite `out` → `Serve` → `handle`, over channels only; `Close` signals with
the closing of `done` channels. A tunnelled byte goes through *application* →
client copy → tunnel stream → server copy → *destination* and back. The replay
filter has no caller in the repository; the region command calls AutoProbe and
then RegionShield. `PROJECT.json` names every part, what is modelled of it, and
the hazards at their lines.

## The modules

* **FanIn** is the abstract promise of an accept path: per source in order, at
  most once, nothing lost before the source is being closed. A source is a
  listener, or a session.
* **ByteStream** is the abstract promise of one direction of a stream: what is
  read is what was written, in order, each byte once, in pieces of any size.
* **AcceptPipeline** is the path from the sockets to the handlers, one action
  per step of a goroutine. `st[s]` follows a connection; `out[l]`, `cout` are
  the channels of a listener and of the composite, `hand[l]` what the
  composite's goroutine holds between its receive and its send, `done[l]`,
  `cdone` the closed channels, `closer[c]` a goroutine on its way through cancel
  and `Close`. A closer whose listener uses `sync.Once` closes `done` in one
  step (`CloseOnce`); the check-then-close of tcp and quic is two (`CloseCheck`,
  `CloseDone`). `Multi` are the listeners whose connections carry many streams
  (quic): `OpenStream` is a further stream on a connection that is in use,
  which works although the listener's own loop has ended. `ImplementsFanIn`
  maps it to FanIn: what a listener still owes is the part of `cout` that came
  from it, then what its goroutine holds, then `out[l]`.
* **SmuxSession** is the multiplexed transport, both ends. `pc[d]` is the step
  of a call of `Dial`, `mu` who holds `Client.mu`; `session`, `ident` are the
  fields of the Client (the session; the raw connection and the hash, which are
  set together), and `conn[d]`, `tag[d]` what a stream was opened on and what it
  carries. `link[i]` is an outer connection, `isClosed[i]` whether the client's
  session has noticed its end: between the two, `OpenStream` still succeeds.
  `loop[i]`, `hand[i]` are the server's goroutines. It refines FanIn too, with
  the sessions as sources.
* **Tunnel** is one proxied connection from the application to the destination:
  six pipes, the phases of `handleSOCKS` and `handle`, the header decoder, four
  `io.Copy` goroutines, and endpoints that end or close whenever they like.
  `DialTunnel` writes the header, `Reply` is the success reply and the start of
  the client's copies; the tunnel may fail between the two.
  `carrier` is chosen initially: a `Close` of a tcp, ws or smux stream ends both
  of its halves, over quic it ends the writing half only (`CloseStopsRead`).
  Data are numbered chunks.
* **HeaderCodec** is the AVANGARD header as a sequence of bytes: `Encode`, what
  each `io.ReadFull` of `Decode` asks for (`HeaderNeed`), what it rejects, and
  the conversions of a destination (`encodeDest`, `HostString`, `parsePort` with
  its 16 bits). **Uri** is `uri.Parse` and `Config.String`.
* **Establish** composes both with the rest of what happens before a tunnel
  exists, byte by byte: the key and URI of keygen, what a person did to the URI,
  `ParseURI`, `Dial`, the two length-prefixed Noise messages, the header, the
  token, the destination, and the application's data that follow without a
  pause. `up` and `down` hold what the carrier has of each direction: bytes that
  a read cuts anywhere (tcp, quic), or messages and the rest of one
  (`wsStream.Read`). `got` is everything reads have returned, so that a reader's
  position is a function of `got` and nothing else. Both directions refine
  ByteStream.
* **TcpFront** is one connection at the front door of the TCP transport. Chunk 1
  is the header of the first TLS record and the record has `RecLen` chunks;
  `replay` is `peekConn.replay` and `seen` what TLS or the decoy got to read.
  An end of a connection that is closed in order can still be read to its end;
  a reset, which also answers a write to a closed end, may cut off what is on
  its way.
  Its `conf` ranges over all combinations of magic SNIs and decoy.
* **ReplayFilter** is `Filter.Check`: `Check` reads the clock and tests the skew,
  `MaybeRotate`, `Probe` and `Record` are the three critical sections. A filter
  is a set of bits. `Sub` saturates and `Abs` wraps as `time.Duration` does, at
  a width `DurLimit`.
* **RegionShield** is the region command: the probes, their stores, `Select` over
  the three default profiles and the ISP overrides as they stand in the code,
  and the error for a region without a profile, which comes after the probes.
* **MCAcceptPipeline**, **MCReplayFilter**, **MCEstablish** give those modules
  their instances; the others take theirs from the configuration alone.
* **Queues** is the one sequence operator that the refinements of FanIn share:
  the items of a channel that came from one source.
* **AcceptPipelineProofs**, **SmuxSessionProofs**, **TunnelProofs**,
  **EstablishProofs** (with HeaderCodec and Uri), **TcpFrontProofs**,
  **ReplayFilterProofs** and **RegionShieldProofs** hold the theorems;
  **QueueLemmas** holds what they need to know of sequences: flattening,
  selecting, and cutting a sequence in two.

The operators marked `Variant:` in the modules are plausible mistakes in the
code next to them; replacing the definition by its variant violates the
property that `PROJECT.json` lists with it. They take no part in any run or
proof.

## The runs

| run | what it shows | bounds |
|---|---|---|
| Accept | one owner per stream, no channel closed twice, no stop but in a shutdown, refinement of FanIn; a stalled handshake delays nobody, streams reach handlers, shutdown completes | 2 listeners: the first like quic (check-then-close, an `Accept` that may fail, many streams per connection), the second like ws (`sync.Once`); 3 streams (two on the first: order matters), channels of 1 place (every send meets a full channel), 1 closer, as in `run` |
| Smux | streams keep their session's raw connection and hash across reconnects, no connection is lost or cut by a reconnect, refinement of FanIn, every call returns, streams are accepted | 2 calls of `Dial` and 1 of `Close`, 2 outer connections (one reconnect), `out` of 1 place |
| Tunnel | data arrive unaltered and in order, nothing closes without cause, chunks arrive, the wait for a header is bounded, both relays end once the tunnel has failed and both endpoints are gone | both kinds of carrier, 2 chunks each way, pipes of 1 item (every write meets a full pipe) |
| TunnelIdle | **violated**: both endpoints gone, both relays wait for each other | no data needed |
| Establish | a tunnel comes about for a matching pair and nobody else, leads where it was asked to, delivers exactly the application's bytes; both directions refine ByteStream; nobody waits forever | 5 installations on each side, 5 histories of the URI, 3 carriers, a trusted certificate or not, 7 destinations; header fields and payload of 1 or 2 bytes, every way to split them |
| FrontDoor | peeking keeps the byte order, the magic SNI bypasses the decoy, the whole answer of a decoy that ends or closes in order is passed on to a peer that stays open, deadlines and releases | record of 3 chunks, 5 chunks up, 2 down: a cut anywhere, data after the record |
| FrontAnswer | **violated**: a peer that ends its sending half after its request loses the rest of the decoy's answer | as FrontDoor |
| FrontTransparent | **violated**: a cut-off ClientHello reaches the decoy filled up with zeros | as FrontDoor |
| ReplayCheck | no payload twice, no false refusal, the skew window, the inductive invariant | 2 calls, 3 payloads with overlapping bits, 12 instants = two rotations |
| ReplayFarFuture | **violated**: a timestamp ~292 years ahead passes the skew check | one payload whose distance saturates |
| RegionSelect | the mode reported fits the network and the order of the region's chain (no mode is passed over whose probe succeeded), a decision is always made | one alternative port; the other probes do not influence `Select` |
| RegionUDP | **violated**: quic_camouflage is selected on a network that drops UDP, if the TCP/443 probe has not succeeded | none |

The bounds are the smallest at which the interesting cases meet: more streams,
connections, chunks or payloads repeat situations that already occur. Bounds of
the models themselves are `MaxClock`, `MaxFwd`, `MaxBack`, `MaxUp`, `MaxDown`,
`MaxConns` (a later dial fails) and the payload of Establish; `CopyBuf` is the
buffer of `io.Copy` made small. The other constants are parameters of the code.
In Establish the token has 2 bytes, an IPv4 address 1 and an IPv6 address 2, so
that a mapped address has a prefix of 1; the theorems about the header hold for
every length.

The violated runs are disagreements between the code and its own words;
`PROJECT.json` quotes them under "findings". What the passing runs do not claim:

* Two goroutines that close the same tcp or quic server at the same time can
  panic: `NoDoubleClose` does not hold for them. No caller does that (`run` has
  one closing goroutine) and nothing promises that it is safe, so the run has
  the one closer of the program and the theorem `CloseIsSafe` says in `SafeClose`
  what callers have to keep to.
* `AnswerPassedOn` speaks of a peer that keeps its sending half open and of a
  decoy that does not reset the connection; FrontAnswer shows what happens to a
  peer that half-closes.
* `TunnelLossReleases` asks for the relays' end only when both endpoints are gone
  as well: with a silent application the client's relay stays at `wg.Wait`
  (`cmd/avangard-client/main.go:281`) after the tunnel has failed.
* `MagicBypassesDecoy` is about a ClientHello in one TLS record, cut by TCP
  anywhere. One spread over two records is decoyed, since only the first is
  parsed.
* `Memory` and `AtMostOnce` hold if `RotateRate > 2 * (Skew + MaxDelay)`, which
  `New` does not check; with less a replay is accepted.

`CHECK_DEADLOCK FALSE` stands in every configuration because every one of these
systems really stops: a server after its shutdown, a connection when it is
closed, a client when its calls have returned, the clock at `MaxClock`, the
region command after its decision. That nothing stops too early is what the
liveness properties say.

## Fairness

A goroutine that can run does run (weak fairness of its steps), and a timer or
deadline fires (weak fairness of `RejectHeader`, `PeekFail`, `HandshakeFail` of
TcpFront, `HandleOuterFail`, the probe and dial timeouts). In Tunnel the success
reply is written without waiting for anything (`Reply`). A send on a full
channel and a wait for a mutex get strong fairness (`Offer`, `FanSend`, `Lock`
and `Close` of SmuxSession): Go queues those who wait first in, first out, so
that nobody is overtaken forever. The smux client has no deadline in its
handshake and holds the mutex meanwhile; it goes on because the server's 15 s
deadline answers or hangs up, and the model assumes no more than that. Establish
assumes only that both programs run: `Settles` relies on no deadline. Nothing is
assumed of peers, applications, destinations, the decoy, handler lifetimes,
faults and their detection, further streams on a connection, handshakes in
AcceptPipeline (over quic they have no deadline) or the decision to shut down,
except in Tunnel that an endpoint reads what arrives until it closes.

## What is proved

TLAPS proves, for every value of the constants:

* **AcceptPipeline**, under `PipelineAssumption` (which states the types of the
  constants): `TypeCorrect`; `OneOwner`; `StopsOnlyInShutdown`; and
  `CloseIsSafe`, under `SafeClose`: every listener uses `sync.Once`, or there is
  one closing goroutine, as in `avangard-server run`.
  `TypeOK` is not inductive: `FanSend` keeps `cout` in its type only if the
  goroutine that sends holds an item, and a closer indexes a listener only
  before its end; `Positions` adds both. `StopsOnlyOnShutdown` needs
  `ShutdownFirst`: `ErrClosed` exists in a hand or in `cout` only after the
  composite's `done` is closed. `NoDoubleClose` needs `Unclosed`: between its
  check and its `close` a lone closer finds the channel as it left it.
  `SingleOwner` speaks of all places of a stream; its inductive form `Owned` says
  for each place which other places do not hold the stream, and that it is with
  its own listener.
  `FanInImplemented`: every step is a step of FanIn or a stutter. What a
  listener owes is a selection from `cout`, a hand and `out[l]` in a row, so that
  `FanRecv` and `FanSend` move an item along that row without changing it, and
  `Serve` takes the first one of its listener; besides `Owned` the proof needs
  `Served`, that a stream with a handler is in the log of the deliveries.
* **SmuxSession**, under `SmuxAssumption`: `TypeCorrect`,
  `StreamBoundToSession`, `NoConnectionLost`, `NoCollateralDamage`. They share
  the invariant `Sessions` (on top of `Locking`: only the holder of the mutex is
  past `Lock`): the connections are numbered in order of age, the Client's
  session and identity are of the same one whenever a stream can be opened, and
  a working connection that is neither the session's nor dropped is the one the
  running call is dialling. `FanInImplemented` rests on them and on `Opened`: a
  stream in a session's queue or in its goroutine's hand was opened on that
  session, and one not yet opened is nowhere on the way.
* **Tunnel**, under `TunnelAssumption`: `TypeCorrect`, with `Sequenced` (what
  has not been started shows in no pipe); `RelayClosesForCause`, with `Causes`
  (why a copy that has ended did so); and `StreamIsIntact`. The last one is the
  longest argument. An invariant on sequences says where each chunk is: `Forward`
  and `Backward` run through the pipes from the receiver back to the sender and
  say that each holds the control item that belongs to it and then the numbers
  that follow what is further on, as long as the goroutines downstream still
  read; once one has stopped, what is upstream of it cannot arrive and nothing
  is claimed of it. `NoneInvented` bounds every item by what was sent, which
  turns consecutive numbers into a prefix.
* **TcpFront**, under `FrontAssumption`: `TypeCorrect`; `PeekKeepsOrder`, with
  `Arranged`: what was read, followed by what is kept to be read again, is
  consecutive and ends with the last chunk taken from the connection;
  `MagicNeverDecoyed`, with `Routing`: padding, the mark of a cut-off record,
  does not get lost; and `OpenPeerAnswered` (of `AnswerPassedOn`), with
  `Relaying`: why each copy ended.
* **ReplayFilter**, under `ReplayAssumption`: `TypeCorrect`;
  `SkewIsEnforced`, under `NoOverflow` (no timestamp saturates a Duration — the
  run ReplayFarFuture shows that this is needed); `NoReplayAccepted`, under
  `NoOverflow` and `RatesFit` (`RotateRate > 2 * (Skew + MaxDelay)`, which the
  defaults of the code satisfy and `New` does not check); and
  `ReplayVerdictIsRight`.
  `AtMostOnce` says nothing of the filters, so its invariant `Memory` does: an
  accepted payload is in `curr`; or in `prev`, with the next rotation not before
  the payload has expired for every running call; or it has expired. `Memory`
  is an invariant of the run ReplayCheck and of the theorem `MemoryHolds`. A
  call that records a payload found it in neither filter under the write lock,
  and is inside its window, so it cannot have been accepted before.
* **RegionShield**, with no assumption: `TypeCorrect` (which no run checks: the
  type is of use to the proof alone) and `ChainIsRight`, from `ProbesTrue` and
  `DecisionRight`: a stored success agrees with the network, and once a decision
  is made the results are final.
* **The formats** (in EstablishProofs), from `CodecAssumption` alone:
  `ReadsExactly` and `HeaderRoundTrip` for the header,
  `FrameRoundTrip` for the Noise frames up to 65535 bytes, `PortIsDecimal`,
  `DestinationSurvives`, `URIRoundTrip`. The first three speak of every prefix
  of a stream that agrees with the encoding so far, so they hold wherever a
  carrier cuts it.
* **Establish**, under `EstablishAssumption`: `TypeCorrect` (proved, and checked
  by no run: what TLC could refute of it are the widths of bytes, which Go
  enforces); `CleanStream`, the
  relay starts at the application's first byte; `RightDestination`;
  `RightVerdict`, a tunnel exists only between a URI and its server, and such a
  pair fails only for an outside cause; and `StreamsImplemented`, both
  directions of every carrier refine ByteStream. The properties speak of what
  has been read (`got`), which does not say what the next read may return. The
  inductive invariant `Inv` (theorem `Invariance`) therefore speaks of the
  *text* of a direction: what has been read followed by what is in flight.
  `UpLog` and `DownLog` say which text each side has written at each of its
  steps, `Reached` what the server has verified when it is past a step, `Control`
  which steps of the two sides go together, `Held` that a matching pair has not
  given up, and `Configured` and `Carried` are the types. A read takes a prefix
  of a known text, and the three format theorems say what the reader makes of it.
  `Inv` was checked with TLC on the instance of the run Establish before it was
  proved.

`EstablishAssumption` is what the code around it guarantees: a SOCKS5 request
carries one of three address types, each with its length (a domain may be
empty, an empty text is no IP address for `net.ParseIP`); a port is printed by
`strconv`, so it is decimal digits; keys and UUIDs are bytes; and the token is
the UUID's byte followed by the key's, so `TokenLen` is 2.

TLAPS cannot instantiate the library's induction theorems, whose parameter is an
operator. Facts about recursive functions (`FlattenSeq`, the value of a decimal
text) are proved all the same: `QueueLemmas!Induction` speaks of a *set* of
natural numbers and follows from the well-foundedness of `<`.

Model-checked only: the liveness properties (AcceptedPromptly, HandedOver,
ShutdownCompletes, Delivered, HeaderBounded, TunnelLossReleases, AlwaysDecides,
FrontDecides, RelayReleases, CallsReturn, StreamHandled, Settles), since TLAPS
does not reason about fairness and ENABLED, and what the violated runs show.
Every other property of a run is stated by a theorem.

## What is not modelled

* Cryptography (Noise, HMAC, TLS, uTLS) and the protocol libraries (quic-go,
  smux, gorilla/websocket, net/http). In Establish a handshake message is two
  bytes that name the key, and a token the pair of UUID and hash. The kernel's
  connections, the endpoints and the clock are the environment of a model and
  marked external.
* quic: connection loss, idle timeouts and stream limits are quic-go's. The
  client dials once and never replaces a connection that has died, so that it
  has no state of its own to model.
* The 256 streams per session of smuxtcp's package comment: nothing in the code
  enforces them.
* `selfcert`, the YAML configuration and its required fields: sequential, read
  once, no state. The URI's parameters `fp`, `mode`, `region` and `tofu` are
  parsed and carried by Uri, but no dialer uses them. buildDialer offers tcp and
  quic; the ws and smux clients are modelled as the library code they are.
* The accept loop of the socks5 command, which starts independent handlers.
* Blocklist: no caller, one mutex around a map and a sequential function on the
  characters of a string; a model would transcribe it.
* uTLS fingerprints (a table), the transport interfaces (types), the
  installation script.
* In Tunnel the SOCKS5 greeting and request are one item and failure replies are
  left out; in TcpFront the walk over a complete ClientHello is reduced to
  whether it names a magic SNI, and connections have no back-pressure; decoy
  names that are IP addresses or end in a dot are left out of Establish.

## Plan

Done, the most important behaviour first: AcceptPipeline and FanIn;
ReplayFilter; Tunnel; RegionShield and TcpFront; SmuxSession; HeaderCodec, Uri
and Establish with ByteStream; the proofs of every safety property that the
runs check, the refinements included.

Left: the composition of Establish with Tunnel, in which the proved promise of
the first (a clean stream to the right destination) becomes the initial state
of the second; lemmas towards the liveness properties that need no fairness
(no step but the timer's leaves a handler waiting for a header, a finished copy
leaves its twin enabled); and, if the replay filter or the blocklist ever get a
caller, their composition with it.
