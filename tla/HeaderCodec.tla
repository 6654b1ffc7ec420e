---------------------------- MODULE HeaderCodec ----------------------------
(***************************************************************************)
(* The AVANGARD request header (pkg/protocol/header.go) as a sequence of   *)
(* bytes: what Encode writes, what each io.ReadFull of Decode asks for,    *)
(* and the conversions of a destination around it (pkg/tunnel/client.go).  *)
(* The lengths are parameters: 16, 4, 16 and the twelve bytes before an    *)
(* IPv4 address mapped into IPv6, in the code.                             *)
(***************************************************************************)
EXTENDS Integers, Sequences, SequencesExt

CONSTANTS TokenLen, V4Len, V6Len,
          MappedPrefix  \* in front of an IPv4 address mapped into IPv6

MaxByte == 255
MaxPort == 65535
Byte == 0 .. MaxByte
Port == 0 .. MaxPort

ASSUME CodecAssumption ==
  /\ TokenLen \in Nat \ {0} /\ V4Len \in Nat \ {0} /\ V6Len \in Nat \ {0}
  /\ V4Len /= V6Len
  /\ MappedPrefix \in Seq(Byte) /\ V6Len = Len(MappedPrefix) + V4Len

HeaderVersion == 1
CmdConnect == 1
Cmds == 1 .. 4
AtypIPv4 == 1
AtypDomain == 3
AtypIPv6 == 4
Atyps == {AtypIPv4, AtypDomain, AtypIPv6}

AddrLens(atyp) == CASE atyp = AtypIPv4 -> {V4Len}
                    [] atyp = AtypIPv6 -> {V6Len}
                    [] OTHER -> 1 .. MaxByte

\* The headers that Encode accepts.
Headers ==
  {h \in [version : {HeaderVersion}, token : Seq(Byte), cmd : Cmds,
          atyp : Atyps, addr : Seq(Byte), port : Port] :
     Len(h.token) = TokenLen /\ Len(h.addr) \in AddrLens(h.atyp)}

-----------------------------------------------------------------------------
(* Encode.                                                                 *)

EncodeAddr(atyp, addr) == IF atyp = AtypDomain THEN <<Len(addr)>> \o addr ELSE addr

\* Variant: the low byte of the port comes first.
EncodePortLow(port) == <<port % 256, port \div 256>>

EncodePort(port) == <<port \div 256, port % 256>>

Encode(h) == (<<h.version>> \o h.token \o <<h.cmd, h.atyp>>)
               \o EncodeAddr(h.atyp, h.addr) \o EncodePort(h.port)

-----------------------------------------------------------------------------
(* Decode, which reads s: the prefix, the length of a domain, the address  *)
(* and the port, each with a read of its own.                              *)

PrefixLen == TokenLen + 3
Cmd(s) == s[TokenLen + 2]
Atyp(s) == s[TokenLen + 3]

AddrStart(s) == IF Atyp(s) = AtypDomain THEN PrefixLen + 1 ELSE PrefixLen
AddrLen(s) == CASE Atyp(s) = AtypIPv4 -> V4Len
                [] Atyp(s) = AtypIPv6 -> V6Len
                [] OTHER -> s[PrefixLen + 1]
AddrEnd(s) == AddrStart(s) + AddrLen(s)

\* Variant: the port is asked for together with what follows it.
HeaderNeedAhead(s) ==
  CASE Len(s) < PrefixLen -> PrefixLen
    [] Len(s) >= PrefixLen /\ Len(s) < AddrStart(s) -> AddrStart(s)
    [] OTHER -> AddrEnd(s) + 3

\* How many bytes have been asked for once s has been read.
HeaderNeed(s) ==
  CASE Len(s) < PrefixLen -> PrefixLen
    [] Len(s) >= PrefixLen /\ Len(s) < AddrStart(s) -> AddrStart(s)
    [] Len(s) >= PrefixLen /\ Len(s) >= AddrStart(s) /\ Len(s) < AddrEnd(s) ->
         AddrEnd(s)
    [] OTHER -> AddrEnd(s) + 2

\* Decode gives up on what it has read so far.
HeaderBad(s) ==
  /\ Len(s) >= PrefixLen
  /\ \/ s[1] /= HeaderVersion \/ Cmd(s) \notin Cmds \/ Atyp(s) \notin Atyps
     \/ Atyp(s) = AtypDomain /\ Len(s) > PrefixLen /\ s[PrefixLen + 1] = 0

Decode(s) ==
  [version |-> s[1], token |-> SubSeq(s, 2, TokenLen + 1), cmd |-> Cmd(s),
   atyp |-> Atyp(s), addr |-> SubSeq(s, AddrStart(s) + 1, AddrEnd(s)),
   port |-> 256 * s[AddrEnd(s) + 1] + s[AddrEnd(s) + 2]]

-----------------------------------------------------------------------------
(* Destinations.  A host is a text: an IP address, of which val holds the  *)
(* bytes, or a name, of which it holds the letters.                        *)

\* net.IP.To4.
IsMapped(ip) == Len(ip) = V6Len /\ IsPrefix(MappedPrefix, ip)
To4(ip) == IF IsMapped(ip) THEN SubSeq(ip, Len(MappedPrefix) + 1, V6Len) ELSE ip

\* net.IP.String writes a mapped address like the IPv4 address.
IPText(ip) == [isIP |-> TRUE, val |-> To4(ip)]
HostText(atyp, addr) ==
  IF atyp = AtypDomain THEN [isIP |-> FALSE, val |-> addr] ELSE IPText(addr)

EncodeDest(host) ==
  [atyp |-> IF ~host.isIP THEN AtypDomain
            ELSE IF Len(To4(host.val)) = V4Len THEN AtypIPv4 ELSE AtypIPv6,
   addr |-> IF host.isIP THEN To4(host.val) ELSE host.val]

DestEncodable(host) == host.isIP \/ Len(host.val) \in 1 .. MaxByte

\* Ports are texts of decimal digits.
Decimal(text) == FoldLeft(LAMBDA p, c : p * 10 + c, 0, text)
ParsePort(text) == FoldLeft(LAMBDA p, c : (p * 10 + c) % 65536, 0, text)
=============================================================================
