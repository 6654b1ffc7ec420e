--------------------------- MODULE EstablishProofs ---------------------------
(***************************************************************************)
(* Theorems about Establish.  First, those about the formats of            *)
(* HeaderCodec, Uri and the frames, for all headers, frames, hosts and     *)
(* configurations and for every length of token and of address, where the  *)
(* run checks a few.  Then the inductive invariant, Inv, which says what   *)
(* each side has written and read whenever the other is at a given step,   *)
(* and what follows from it for every set of installations, destinations,  *)
(* names and payloads: the safety properties, and that each direction of   *)
(* the carrier implements ByteStream.                                      *)
(***************************************************************************)
EXTENDS Establish, QueueLemmas

\* As inequalities, so that the provers do not list all bytes and ports.
LEMMA Bounds ==
  /\ MaxByte \in Nat /\ 255 <= MaxByte /\ MaxByte <= 255
  /\ MaxPort \in Nat /\ 65535 <= MaxPort /\ MaxPort <= 65535
BY DEF MaxByte, MaxPort

\* Concatenation, one index at a time.
LEMMA Joined ==
  ASSUME NEW S, NEW s \in Seq(S), NEW t \in Seq(S)
  PROVE  /\ s \o t \in Seq(S) /\ Len(s \o t) = Len(s) + Len(t)
         /\ \A i \in 1 .. Len(s) : (s \o t)[i] = s[i]
         /\ \A i \in 1 .. Len(t) : (s \o t)[Len(s) + i] = t[i]
OBVIOUS

\* The fields of a header that Encode accepts.
LEMMA HeaderFields ==
  ASSUME NEW h \in Headers
  PROVE  /\ h.version = 1 /\ h.cmd \in 1 .. 4 /\ h.atyp \in {1, 3, 4}
         /\ h.token \in Seq(Byte) /\ Len(h.token) = TokenLen
         /\ h.addr \in Seq(Byte) /\ Len(h.addr) \in Nat \ {0}
         /\ h.atyp = 1 => Len(h.addr) = V4Len
         /\ h.atyp = 4 => Len(h.addr) = V6Len
         /\ h.atyp = 3 => Len(h.addr) \in 1 .. MaxByte
         /\ h.port \in Port
<1>1. h.version = 1 /\ h.cmd \in 1 .. 4
  BY DEF Headers, HeaderVersion, Cmds
<1>2. h.atyp \in {1, 3, 4} /\ Len(h.addr) \in AddrLens(h.atyp)
  BY DEF Headers, Atyps, AtypIPv4, AtypDomain, AtypIPv6
<1>3. /\ h.token \in Seq(Byte) /\ Len(h.token) = TokenLen
      /\ h.addr \in Seq(Byte) /\ h.port \in Port
  BY DEF Headers
<1>4. /\ h.atyp = 1 => Len(h.addr) = V4Len
      /\ h.atyp = 4 => Len(h.addr) = V6Len
      /\ h.atyp = 3 => Len(h.addr) \in 1 .. MaxByte
  <2>1. h.atyp = AtypIPv4 => AddrLens(h.atyp) = {V4Len}
    BY DEF AddrLens, AtypIPv4, AtypIPv6
  <2>2. h.atyp = AtypIPv6 => AddrLens(h.atyp) = {V6Len}
    BY DEF AddrLens, AtypIPv4, AtypIPv6
  <2>3. h.atyp = AtypDomain => AddrLens(h.atyp) = 1 .. MaxByte
    BY DEF AddrLens, AtypIPv4, AtypIPv6, AtypDomain
  <2>4. QED
    BY <1>2, <2>1, <2>2, <2>3 DEF AtypIPv4, AtypIPv6, AtypDomain
<1>5. Len(h.addr) \in Nat \ {0}
  <2>1. V4Len > 0 /\ V6Len > 0
    BY CodecAssumption
  <2>2. Len(h.addr) \in Nat
    BY <1>3
  <2>3. QED
    BY <1>2, <1>4, <2>1, <2>2
<1>6. QED
  BY <1>1, <1>2, <1>3, <1>4, <1>5

\* The address as it is written.
LEMMA AddrShape ==
  ASSUME NEW h \in Headers
  PROVE  LET a == EncodeAddr(h.atyp, h.addr)
         IN  /\ a \in Seq(Byte)
             /\ h.atyp = 3 => /\ Len(a) = 1 + Len(h.addr) /\ a[1] = Len(h.addr)
                              /\ \A i \in 1 .. Len(h.addr) : a[1 + i] = h.addr[i]
             /\ h.atyp /= 3 => a = h.addr
<1>1. CASE h.atyp /= 3
  BY <1>1, HeaderFields DEF EncodeAddr, AtypDomain
<1>2. CASE h.atyp = 3
  <2> DEFINE one == <<Len(h.addr)>>
  <2>1. Len(h.addr) \in Byte
    BY <1>2, HeaderFields, Bounds DEF Byte
  <2>2. one \in Seq(Byte) /\ Len(one) = 1 /\ one[1] = Len(h.addr)
    BY <2>1
  <2>3. h.addr \in Seq(Byte) /\ Len(h.addr) \in Nat
    BY HeaderFields
  <2>4. EncodeAddr(h.atyp, h.addr) = one \o h.addr
    BY <1>2 DEF EncodeAddr, AtypDomain
  <2> HIDE DEF one
  <2>5. /\ one \o h.addr \in Seq(Byte) /\ Len(one \o h.addr) = 1 + Len(h.addr)
        /\ (one \o h.addr)[1] = Len(h.addr)
        /\ \A i \in 1 .. Len(h.addr) : (one \o h.addr)[1 + i] = h.addr[i]
    BY <2>2, <2>3, Joined
  <2> HIDE DEF one
  <2>6. QED
    <3> DEFINE a == EncodeAddr(h.atyp, h.addr)
    <3>1. a = one \o h.addr
      BY <2>4
    <3> HIDE DEF a
    <3>2. /\ a \in Seq(Byte) /\ Len(a) = 1 + Len(h.addr) /\ a[1] = Len(h.addr)
          /\ \A i \in 1 .. Len(h.addr) : a[1 + i] = h.addr[i]
      BY <2>5, <3>1
    <3>3. QED
      BY <1>2, <3>2 DEF a
<1>3. QED
  BY <1>1, <1>2

\* Where each field of the header is written.
LEMMA EncodeShape ==
  ASSUME NEW h \in Headers
  PROVE  LET a == EncodeAddr(h.atyp, h.addr)
             e == Encode(h)
         IN  /\ e \in Seq(Byte) /\ Len(e) = PrefixLen + Len(a) + 2
             /\ e[1] = 1 /\ e[TokenLen + 2] = h.cmd /\ e[TokenLen + 3] = h.atyp
             /\ \A i \in 1 .. TokenLen : e[1 + i] = h.token[i]
             /\ \A i \in 1 .. Len(a) : e[PrefixLen + i] = a[i]
             /\ e[PrefixLen + Len(a) + 1] = h.port \div 256
             /\ e[PrefixLen + Len(a) + 2] = h.port % 256
<1> DEFINE v == <<h.version>>
           c == <<h.cmd, h.atyp>>
           a == EncodeAddr(h.atyp, h.addr)
           p == EncodePort(h.port)
<1>1. TokenLen \in Nat
  BY CodecAssumption
<1>2. v \in Seq(Byte) /\ Len(v) = 1 /\ v[1] = 1
  <2>1. h.version = 1 /\ h.version \in Byte
    BY HeaderFields, Bounds DEF Byte
  <2>2. QED
    BY <2>1
<1>3. c \in Seq(Byte) /\ Len(c) = 2 /\ c[1] = h.cmd /\ c[2] = h.atyp
  <2>1. h.cmd \in Byte /\ h.atyp \in Byte
    <3>1. h.cmd \in 1 .. 4 /\ h.atyp \in {1, 3, 4}
      BY HeaderFields
    <3>2. \A n \in 1 .. 4 : n \in Byte
      BY Bounds DEF Byte
    <3>3. QED
      BY <3>1, <3>2
  <2>2. QED
    BY <2>1
<1>4. a \in Seq(Byte) /\ Len(a) \in Nat
  BY AddrShape
<1>5. p \in Seq(Byte) /\ Len(p) = 2 /\ p[1] = h.port \div 256 /\ p[2] = h.port % 256
  <2>1. h.port \in Nat /\ h.port <= 65535
    BY HeaderFields, Bounds DEF Port
  <2>2. h.port \div 256 \in Byte /\ h.port % 256 \in Byte
    <3>1. ASSUME NEW n \in Nat, n <= 65535
          PROVE  /\ n \div 256 \in Nat /\ n \div 256 <= 255
                 /\ n % 256 \in Nat /\ n % 256 <= 255
      BY <3>1
    <3>2. QED
      BY <2>1, <3>1, Bounds DEF Byte
  <2>3. QED
    BY <2>2 DEF EncodePort
<1>6. h.token \in Seq(Byte) /\ Len(h.token) = TokenLen
  BY HeaderFields
<1> DEFINE vt == v \o h.token
           vtc == vt \o c
           vtca == vtc \o a
           e == vtca \o p
<1>7. Encode(h) = e
  BY DEF Encode
<1> HIDE DEF v, c, a, p
<1>8. /\ vt \in Seq(Byte) /\ Len(vt) = 1 + TokenLen /\ vt[1] = 1
      /\ \A i \in 1 .. TokenLen : vt[1 + i] = h.token[i]
  <2> HIDE DEF vtc, vtca, e
  <2>1. v \in Seq(Byte) /\ h.token \in Seq(Byte)
    BY <1>2, <1>6
  <2>2. /\ vt \in Seq(Byte) /\ Len(vt) = Len(v) + Len(h.token)
        /\ \A i \in 1 .. Len(v) : vt[i] = v[i]
        /\ \A i \in 1 .. Len(h.token) : vt[Len(v) + i] = h.token[i]
    BY <2>1, Joined
  <2> HIDE DEF vt
  <2>3. QED
    BY <1>1, <1>2, <1>6, <2>2
<1> HIDE DEF vt
<1>9. /\ vtc \in Seq(Byte) /\ Len(vtc) = TokenLen + 3
      /\ vtc[TokenLen + 2] = h.cmd /\ vtc[TokenLen + 3] = h.atyp
      /\ \A i \in 1 .. TokenLen + 1 : vtc[i] = vt[i]
  <2>1. /\ vtc \in Seq(Byte) /\ Len(vtc) = Len(vt) + 2
        /\ vtc[Len(vt) + 1] = h.cmd /\ vtc[Len(vt) + 2] = h.atyp
        /\ \A i \in 1 .. Len(vt) : vtc[i] = vt[i]
    <3>1. vt \in Seq(Byte) /\ c \in Seq(Byte) /\ 1 \in 1 .. Len(c) /\ 2 \in 1 .. Len(c)
      BY <1>3, <1>8
    <3>2. /\ vtc \in Seq(Byte) /\ Len(vtc) = Len(vt) + Len(c)
          /\ \A i \in 1 .. Len(vt) : vtc[i] = vt[i]
          /\ \A i \in 1 .. Len(c) : vtc[Len(vt) + i] = c[i]
      BY <3>1, Joined
    <3> HIDE DEF vtc
    <3>3. QED
      BY <1>3, <3>1, <3>2
  <2> HIDE DEF vtc
  <2>2. /\ Len(vt) = TokenLen + 1 /\ Len(vt) + 1 = TokenLen + 2
        /\ Len(vt) + 2 = TokenLen + 3
    BY <1>1, <1>8
  <2>3. QED
    BY <2>1, <2>2
<1> HIDE DEF vtc
<1>10. /\ vtca \in Seq(Byte) /\ Len(vtca) = TokenLen + 3 + Len(a)
       /\ \A i \in 1 .. TokenLen + 3 : vtca[i] = vtc[i]
       /\ \A i \in 1 .. Len(a) : vtca[TokenLen + 3 + i] = a[i]
  <2>1. /\ vtca \in Seq(Byte) /\ Len(vtca) = Len(vtc) + Len(a)
        /\ \A i \in 1 .. Len(vtc) : vtca[i] = vtc[i]
        /\ \A i \in 1 .. Len(a) : vtca[Len(vtc) + i] = a[i]
    <3>1. vtc \in Seq(Byte)
      BY <1>9
    <3>2. QED
      BY <1>4, <3>1, Joined
  <2> HIDE DEF vtca
  <2>2. QED
    BY <1>9, <2>1
<1> HIDE DEF vtca
<1>11. /\ e \in Seq(Byte) /\ Len(e) = TokenLen + 3 + Len(a) + 2
       /\ \A i \in 1 .. TokenLen + 3 + Len(a) : e[i] = vtca[i]
       /\ e[TokenLen + 3 + Len(a) + 1] = h.port \div 256
       /\ e[TokenLen + 3 + Len(a) + 2] = h.port % 256
  <2>1. /\ e \in Seq(Byte) /\ Len(e) = Len(vtca) + 2
        /\ \A i \in 1 .. Len(vtca) : e[i] = vtca[i]
        /\ e[Len(vtca) + 1] = p[1] /\ e[Len(vtca) + 2] = p[2]
    <3>1. vtca \in Seq(Byte) /\ p \in Seq(Byte) /\ 1 \in 1 .. Len(p) /\ 2 \in 1 .. Len(p)
      BY <1>5, <1>10
    <3>2. /\ e \in Seq(Byte) /\ Len(e) = Len(vtca) + Len(p)
          /\ \A i \in 1 .. Len(vtca) : e[i] = vtca[i]
          /\ \A i \in 1 .. Len(p) : e[Len(vtca) + i] = p[i]
      BY <3>1, Joined
    <3> HIDE DEF e
    <3>3. QED
      BY <1>5, <3>1, <3>2
  <2> HIDE DEF e
  <2>2. QED
    BY <1>5, <1>10, <2>1
<1> HIDE DEF e
<1>12. \A i \in 1 .. TokenLen + 3 : e[i] = vtc[i]
  BY <1>1, <1>4, <1>10, <1>11
<1>13. e[1] = 1 /\ e[TokenLen + 2] = h.cmd /\ e[TokenLen + 3] = h.atyp
  BY <1>1, <1>8, <1>9, <1>12
<1>14. \A i \in 1 .. TokenLen : e[1 + i] = h.token[i]
  BY <1>1, <1>8, <1>9, <1>12
<1>15. \A i \in 1 .. Len(a) : e[TokenLen + 3 + i] = a[i]
  BY <1>1, <1>4, <1>10, <1>11
<1>16. QED
  BY <1>7, <1>11, <1>13, <1>14, <1>15 DEF PrefixLen, a

\* s and t do not differ where both are defined: one is a prefix of the other.
Agree(s, t) == \A i \in 1 .. Len(s) : i <= Len(t) => s[i] = t[i]

\* What a reader of the prefix finds.
LEMMA PrefixRead ==
  ASSUME NEW h \in Headers, NEW s \in Seq(Byte), Agree(s, Encode(h))
  PROVE  /\ PrefixLen \in Nat /\ PrefixLen = TokenLen + 3 /\ TokenLen > 0
         /\ Len(EncodeAddr(h.atyp, h.addr)) \in Nat \ {0}
         /\ Len(s) >= PrefixLen => s[1] = 1 /\ Cmd(s) = h.cmd /\ Atyp(s) = h.atyp
         /\ Len(s) > PrefixLen /\ h.atyp = 3 => s[PrefixLen + 1] = Len(h.addr)
<1> DEFINE a == EncodeAddr(h.atyp, h.addr)
           e == Encode(h)
<1>1. PrefixLen = TokenLen + 3 /\ TokenLen \in Nat /\ TokenLen > 0
  BY CodecAssumption DEF PrefixLen
<1>2. /\ e \in Seq(Byte) /\ Len(e) = PrefixLen + Len(a) + 2
      /\ e[1] = 1 /\ e[TokenLen + 2] = h.cmd /\ e[TokenLen + 3] = h.atyp
      /\ \A i \in 1 .. Len(a) : e[PrefixLen + i] = a[i]
  BY EncodeShape
<1>3. a \in Seq(Byte) /\ Len(a) \in Nat \ {0}
  BY AddrShape, HeaderFields
<1>4. h.atyp = 3 => a[1] = Len(h.addr)
  BY AddrShape
<1>5. \A i \in 1 .. Len(s) : i <= Len(e) => s[i] = e[i]
  BY DEF Agree
<1> HIDE DEF a, e
<1>6. Len(s) >= PrefixLen => s[1] = 1 /\ Cmd(s) = h.cmd /\ Atyp(s) = h.atyp
  BY <1>1, <1>2, <1>3, <1>5 DEF Cmd, Atyp
<1>7. Len(s) > PrefixLen => s[PrefixLen + 1] = a[1]
  <2>1. 1 \in 1 .. Len(a) /\ PrefixLen + 1 <= Len(e)
    BY <1>1, <1>2, <1>3
  <2>2. Len(s) > PrefixLen => PrefixLen + 1 \in 1 .. Len(s)
    BY <1>1
  <2>3. QED
    BY <1>2, <1>5, <2>1, <2>2
<1>8. QED
  BY <1>1, <1>3, <1>4, <1>6, <1>7 DEF a

\* Where it finds the address.
LEMMA AddrRead ==
  ASSUME NEW h \in Headers, NEW s \in Seq(Byte), Agree(s, Encode(h)),
         Len(s) >= PrefixLen
  PROVE  /\ AddrStart(s) = IF h.atyp = 3 THEN PrefixLen + 1 ELSE PrefixLen
         /\ Len(s) >= AddrStart(s) =>
              /\ AddrLen(s) = Len(h.addr)
              /\ AddrEnd(s) = PrefixLen + Len(EncodeAddr(h.atyp, h.addr))
<1>1. PrefixLen \in Nat /\ Atyp(s) = h.atyp
  BY PrefixRead
<1>2. AddrStart(s) = IF h.atyp = 3 THEN PrefixLen + 1 ELSE PrefixLen
  BY <1>1 DEF AddrStart, AtypDomain
<1>3. CASE h.atyp = 3 /\ Len(s) >= AddrStart(s)
  <2>1. s[PrefixLen + 1] = Len(h.addr)
    BY <1>1, <1>2, <1>3, PrefixRead
  <2>2. AddrLen(s) = Len(h.addr)
    BY <1>1, <1>3, <2>1 DEF AddrLen, AtypIPv4, AtypIPv6
  <2>3. Len(EncodeAddr(h.atyp, h.addr)) = 1 + Len(h.addr) /\ Len(h.addr) \in Nat
    BY <1>3, AddrShape, HeaderFields
  <2>4. AddrStart(s) = PrefixLen + 1
    BY <1>2, <1>3
  <2>5. AddrEnd(s) = (PrefixLen + 1) + Len(h.addr)
    BY <2>2, <2>4 DEF AddrEnd
  <2>6. AddrEnd(s) = PrefixLen + Len(EncodeAddr(h.atyp, h.addr))
    <3> DEFINE end == AddrEnd(s)
               n == Len(EncodeAddr(h.atyp, h.addr))
               l == Len(h.addr)
    <3>1. l \in Nat /\ n = 1 + l /\ end = (PrefixLen + 1) + l
      BY <2>3, <2>5
    <3> HIDE DEF end, n, l
    <3>2. end = PrefixLen + n
      BY <1>1, <3>1
    <3>3. QED
      BY <3>2 DEF end, n
  <2>7. QED
    BY <1>2, <2>2, <2>6
<1>4. CASE h.atyp /= 3
  <2>1. EncodeAddr(h.atyp, h.addr) = h.addr
    BY <1>4, AddrShape
  <2>2. h.atyp = 1 => AddrLen(s) = Len(h.addr)
    BY <1>1, HeaderFields DEF AddrLen, AtypIPv4, AtypIPv6
  <2>3. h.atyp = 4 => AddrLen(s) = Len(h.addr)
    BY <1>1, HeaderFields DEF AddrLen, AtypIPv4, AtypIPv6
  <2>4. AddrLen(s) = Len(h.addr)
    BY <1>4, <2>2, <2>3, HeaderFields
  <2>5. QED
    BY <1>2, <1>4, <2>1, <2>4 DEF AddrEnd
<1>5. QED
  BY <1>2, <1>3, <1>4

\* As long as what has been read agrees with a header, Decode does not give
\* up, asks for no byte behind the header and gets as far as its end: "reads
\* exactly the bytes that make up the header" (header.go:91-125, 177-208), for
\* all headers and however the reads are cut.
THEOREM ReadsExactly ==
  ASSUME NEW h \in Headers, NEW s \in Seq(Byte), Agree(s, Encode(h))
  PROVE  /\ ~HeaderBad(s)
         /\ Len(s) < Len(Encode(h)) => HeaderNeed(s) \in Len(s) + 1 .. Len(Encode(h))
         /\ Len(s) >= Len(Encode(h)) => HeaderNeed(s) = Len(Encode(h))
<1> DEFINE n == Len(EncodeAddr(h.atyp, h.addr))
<1>1. /\ PrefixLen \in Nat /\ n \in Nat \ {0} /\ Len(s) \in Nat
      /\ Len(Encode(h)) = PrefixLen + n + 2
  BY PrefixRead, EncodeShape
<1>2. ~HeaderBad(s)
  <2>1. SUFFICES ASSUME Len(s) >= PrefixLen
                 PROVE  /\ s[1] = HeaderVersion /\ Cmd(s) \in Cmds /\ Atyp(s) \in Atyps
                        /\ Atyp(s) = AtypDomain /\ Len(s) > PrefixLen =>
                             s[PrefixLen + 1] /= 0
    BY DEF HeaderBad
  <2>2. s[1] = 1 /\ Cmd(s) = h.cmd /\ Atyp(s) = h.atyp
    BY <2>1, PrefixRead
  <2>3. h.cmd \in 1 .. 4 /\ h.atyp \in {1, 3, 4}
    BY HeaderFields
  <2>4. h.atyp = 3 /\ Len(s) > PrefixLen => s[PrefixLen + 1] /= 0
    BY PrefixRead, HeaderFields
  <2>5. QED
    BY <2>2, <2>3, <2>4 DEF HeaderVersion, Cmds, Atyps, AtypIPv4, AtypDomain, AtypIPv6
<1>3. CASE Len(s) < PrefixLen
  <2>1. HeaderNeed(s) = PrefixLen
    BY <1>1, <1>3 DEF HeaderNeed
  <2> HIDE DEF n
  <2>2. QED
    BY <1>1, <1>2, <1>3, <2>1
<1>4. CASE Len(s) >= PrefixLen
  <2>1. /\ AddrStart(s) = IF h.atyp = 3 THEN PrefixLen + 1 ELSE PrefixLen
        /\ Len(s) >= AddrStart(s) => AddrEnd(s) = PrefixLen + n
    BY <1>4, AddrRead
  <2>2. AddrStart(s) \in Nat /\ AddrStart(s) <= PrefixLen + 1
    BY <1>1, <2>1
  <2> HIDE DEF n
  <2>3. CASE Len(s) < AddrStart(s)
    <3>1. HeaderNeed(s) = AddrStart(s)
      BY <1>1, <1>4, <2>2, <2>3 DEF HeaderNeed
    <3>2. QED
      BY <1>1, <1>2, <1>4, <2>2, <2>3, <3>1
  <2>4. CASE Len(s) >= AddrStart(s) /\ Len(s) < AddrEnd(s)
    <3>1. HeaderNeed(s) = AddrEnd(s)
      BY <1>1, <1>4, <2>1, <2>2, <2>4 DEF HeaderNeed
    <3>2. QED
      BY <1>1, <1>2, <2>1, <2>4, <3>1
  <2>5. CASE Len(s) >= AddrStart(s) /\ Len(s) >= AddrEnd(s)
    <3>1. HeaderNeed(s) = AddrEnd(s) + 2
      BY <1>1, <1>4, <2>1, <2>2, <2>5 DEF HeaderNeed
    <3>2. QED
      BY <1>1, <1>2, <2>1, <2>5, <3>1
  <2>6. QED
    BY <1>1, <2>1, <2>2, <2>3, <2>4, <2>5
<1>5. QED
  BY <1>1, <1>3, <1>4

\* Decode returns the header that was encoded, whatever follows it (header.go:
\* 69-89, 91-125).
THEOREM HeaderRoundTrip ==
  ASSUME NEW h \in Headers, NEW s \in Seq(Byte), Agree(s, Encode(h)),
         Len(s) >= Len(Encode(h))
  PROVE  Decode(s) = h
<1> DEFINE a == EncodeAddr(h.atyp, h.addr)
           e == Encode(h)
           L == PrefixLen
<1>1. /\ L \in Nat /\ L = TokenLen + 3 /\ TokenLen > 0 /\ TokenLen \in Nat
      /\ Len(a) \in Nat \ {0} /\ Len(s) \in Nat
      /\ Len(e) = L + Len(a) + 2
  BY PrefixRead, EncodeShape, CodecAssumption
<1>2. /\ \A i \in 1 .. TokenLen : e[1 + i] = h.token[i]
      /\ \A i \in 1 .. Len(a) : e[L + i] = a[i]
      /\ e[L + Len(a) + 1] = h.port \div 256 /\ e[L + Len(a) + 2] = h.port % 256
  BY EncodeShape
<1>3. \A i \in 1 .. Len(e) : s[i] = e[i]
  BY <1>1 DEF Agree
<1>4. /\ Len(s) >= L /\ Len(s) >= AddrStart(s)
      /\ AddrEnd(s) = L + Len(a) /\ AddrLen(s) = Len(h.addr)
      /\ AddrStart(s) = IF h.atyp = 3 THEN L + 1 ELSE L
  <2>1. AddrStart(s) = IF h.atyp = 3 THEN L + 1 ELSE L
    BY <1>1, AddrRead
  <2> HIDE DEF a, e
  <2>2. Len(s) >= L /\ Len(s) >= AddrStart(s)
    BY <1>1, <2>1 DEF e
  <2>3. QED
    BY <2>1, <2>2, AddrRead DEF a
<1>5. s[1] = h.version /\ Cmd(s) = h.cmd /\ Atyp(s) = h.atyp
  BY <1>4, PrefixRead, HeaderFields
<1> HIDE DEF a, e, L
<1>6. SubSeq(s, 2, TokenLen + 1) = h.token
  <2> DEFINE t == SubSeq(s, 2, TokenLen + 1)
  <2>1. /\ t \in Seq(Byte) /\ Len(t) = TokenLen
        /\ \A i \in 1 .. TokenLen : t[i] = s[1 + i]
    <3>1. TokenLen \in Nat /\ s \in Seq(Byte) /\ TokenLen + 1 <= Len(s)
      BY <1>1, <1>4
    <3>2. \A i \in 2 .. TokenLen + 1 : s[i] \in Byte
      BY <3>1
    <3>3. t \in Seq(Byte)
      BY <3>1, <3>2
    <3>4. Len(t) = TokenLen
      BY <3>1
    <3>5. \A i \in 1 .. TokenLen : t[i] = s[1 + i]
      BY <3>1
    <3>6. QED
      BY <3>3, <3>4, <3>5
  <2> HIDE DEF t
  <2>2. \A i \in 1 .. TokenLen : s[1 + i] = h.token[i]
    BY <1>1, <1>2, <1>3
  <2>3. h.token \in Seq(Byte) /\ Len(h.token) = TokenLen
    BY HeaderFields
  <2>4. \A i \in 1 .. TokenLen : t[i] = h.token[i]
    BY <2>1, <2>2
  <2>5. t = h.token
    BY <2>1, <2>3, <2>4, SeqEqual
  <2>6. QED
    BY <2>5 DEF t
<1>7. SubSeq(s, AddrStart(s) + 1, AddrEnd(s)) = h.addr
  <2> DEFINE k == AddrStart(s)
             t == SubSeq(s, k + 1, k + Len(h.addr))
  <2>1. h.addr \in Seq(Byte) /\ Len(h.addr) \in Nat
    BY HeaderFields
  <2>2. k \in Nat /\ k + Len(h.addr) = AddrEnd(s)
    BY <1>1, <1>4 DEF AddrEnd
  <2>3. \A i \in 1 .. Len(h.addr) : s[k + i] = h.addr[i]
    <3>1. CASE h.atyp = 3
      <4>1. /\ Len(a) = 1 + Len(h.addr)
            /\ \A i \in 1 .. Len(h.addr) : a[1 + i] = h.addr[i]
        BY <3>1, AddrShape DEF a
      <4>2. k = L + 1
        BY <1>4, <3>1
      <4> HIDE DEF k
      <4>3. ASSUME NEW i \in 1 .. Len(h.addr)
            PROVE  s[k + i] = h.addr[i]
        <5>1. 1 + i \in 1 .. Len(a) /\ L + (1 + i) \in 1 .. Len(e)
          <6>1. 1 + i \in 1 .. Len(a)
            BY <2>1, <4>1
          <6>2. QED
            BY <1>1, <6>1
        <5>2. s[L + (1 + i)] = h.addr[i]
          BY <1>2, <1>3, <4>1, <5>1
        <5>3. k + i = L + (1 + i)
          BY <1>1, <4>2
        <5>4. QED
          BY <5>2, <5>3
      <4>4. QED
        BY <4>3 DEF k
    <3>2. CASE h.atyp /= 3
      <4>1. a = h.addr /\ k = L
        BY <1>4, <3>2, AddrShape DEF a
      <4> HIDE DEF k
      <4>2. \A i \in 1 .. Len(a) : L + i \in 1 .. Len(e)
        BY <1>1
      <4>3. QED
        BY <1>2, <1>3, <4>1, <4>2 DEF k
    <3>3. QED
      BY <3>1, <3>2
  <2>4. t \in Seq(Byte) /\ Len(t) = Len(h.addr) /\ \A i \in 1 .. Len(h.addr) : t[i] = s[k + i]
    <3> HIDE DEF k
    <3>1. k + Len(h.addr) <= Len(s)
      BY <1>1, <1>4, <2>2 DEF e
    <3>2. \A i \in k + 1 .. k + Len(h.addr) : s[i] \in Byte
      BY <2>1, <2>2, <3>1
    <3>3. QED
      BY <2>1, <2>2, <3>1, <3>2
  <2> HIDE DEF t, k
  <2>5. \A i \in 1 .. Len(t) : t[i] = h.addr[i]
    BY <2>3, <2>4
  <2>6. t = h.addr
    BY <2>1, <2>4, <2>5, SeqEqual
  <2>7. QED
    BY <2>2, <2>6 DEF t, k
<1>8. 256 * s[AddrEnd(s) + 1] + s[AddrEnd(s) + 2] = h.port
  <2> DEFINE high == s[AddrEnd(s) + 1]
             low == s[AddrEnd(s) + 2]
             n == h.port
  <2>1. n \in Nat
    BY HeaderFields, Bounds DEF Port
  <2>2. high = n \div 256 /\ low = n % 256
    BY <1>1, <1>2, <1>3, <1>4
  <2>3. high \in Nat /\ low \in Nat
    BY <2>1, <2>2
  <2> HIDE DEF high, low, n
  <2>4. 256 * high + low = n
    BY <2>1, <2>2, <2>3
  <2>5. QED
    BY <2>4 DEF high, low, n
<1>9. h = [version |-> h.version, token |-> h.token, cmd |-> h.cmd,
           atyp |-> h.atyp, addr |-> h.addr, port |-> h.port]
  BY DEF Headers
<1>10. QED
  BY <1>5, <1>6, <1>7, <1>8, <1>9 DEF Decode

-----------------------------------------------------------------------------
(* The frames of the handshake.                                            *)

\* A frame is its length and its body.
LEMMA FrameShape ==
  ASSUME NEW body \in Seq(Byte), Len(body) <= MaxPort
  PROVE  LET f == FrameHeader(body) \o body
         IN  /\ f \in Seq(Byte) /\ Len(f) = 2 + Len(body)
             /\ 256 * f[1] + f[2] = Len(body)
             /\ \A i \in 1 .. Len(body) : f[2 + i] = body[i]
<1> DEFINE high == Len(body) \div 256
           low == Len(body) % 256
           n == Len(body)
           head == FrameHeader(body)
           f == head \o body
<1>1. n \in Nat /\ n <= 65535
  BY Bounds
<1>2. high \in Nat /\ high <= 255 /\ low \in Nat /\ low <= 255
  BY <1>1
<1>3. high = n \div 256 /\ low = n % 256
  OBVIOUS
<1>4. head = <<high, low>>
  BY DEF FrameHeader
<1> HIDE DEF high, low, n, head
<1>5. 256 * high + low = n
  BY <1>1, <1>2, <1>3
<1>6. head \in Seq(Byte) /\ Len(head) = 2 /\ head[1] = high /\ head[2] = low
  <2>1. high \in Byte /\ low \in Byte
    BY <1>2, Bounds DEF Byte
  <2>2. QED
    BY <1>4, <2>1
<1>7. /\ f \in Seq(Byte) /\ Len(f) = Len(head) + Len(body)
      /\ \A i \in 1 .. Len(head) : f[i] = head[i]
      /\ \A i \in 1 .. Len(body) : f[Len(head) + i] = body[i]
  <2>1. head \in Seq(Byte) /\ body \in Seq(Byte)
    BY <1>6
  <2> HIDE DEF f
  <2>2. f = head \o body
    BY DEF f
  <2>3. /\ head \o body \in Seq(Byte) /\ Len(head \o body) = Len(head) + Len(body)
        /\ \A i \in 1 .. Len(head) : (head \o body)[i] = head[i]
        /\ \A i \in 1 .. Len(body) : (head \o body)[Len(head) + i] = body[i]
    BY <2>1, Joined
  <2>4. QED
    BY <2>2, <2>3
<1> HIDE DEF f
<1>8. f[1] = high /\ f[2] = low
  BY <1>6, <1>7
<1>9. 256 * f[1] + f[2] = n
  BY <1>5, <1>8
<1>10. QED
  BY <1>6, <1>7, <1>9 DEF f, n, head

\* readFrame asks for the two bytes of the length and then for the body that
\* writeFrame sent, and returns it, however the carrier cuts it up
\* (noise.go:152-178).
THEOREM FrameRoundTrip ==
  ASSUME NEW body \in Seq(Byte), Len(body) <= MaxPort,
         NEW s \in Seq(Byte), Agree(s, FrameHeader(body) \o body)
  PROVE  /\ Len(s) < 2 + Len(body) => FrameNeed(s) \in Len(s) + 1 .. 2 + Len(body)
         /\ Len(s) >= 2 + Len(body) => /\ FrameNeed(s) = 2 + Len(body)
                                       /\ FrameBody(s) = body
<1> DEFINE f == FrameHeader(body) \o body
           n == Len(body)
<1>1. /\ Len(f) = 2 + n /\ 256 * f[1] + f[2] = n /\ n \in Nat /\ Len(s) \in Nat
      /\ \A i \in 1 .. n : f[2 + i] = body[i]
  BY FrameShape
<1>2. \A i \in 1 .. Len(s) : i <= Len(f) => s[i] = f[i]
  BY DEF Agree
<1> HIDE DEF f, n
<1>3. CASE Len(s) < 2
  <2>1. FrameNeed(s) = 2
    BY <1>3 DEF FrameNeed
  <2>2. QED
    BY <1>1, <1>3, <2>1 DEF n
<1>4. CASE Len(s) >= 2
  <2>1. s[1] = f[1] /\ s[2] = f[2]
    BY <1>1, <1>2, <1>4
  <2>2. FrameNeed(s) = 2 + 256 * s[1] + s[2]
    BY <1>1, <1>4 DEF FrameNeed
  <2>3. s[1] \in Nat /\ s[2] \in Nat
    BY <1>4, Bounds DEF Byte
  <2>4. FrameNeed(s) = 2 + n
    BY <1>1, <2>1, <2>2, <2>3
  <2>5. ASSUME Len(s) >= 2 + n
        PROVE  SubSeq(s, 3, 2 + n) = body
    <3> DEFINE t == SubSeq(s, 3, 2 + n)
    <3>1. \A i \in 3 .. 2 + n : s[i] \in Byte
      BY <1>1, <2>5
    <3>2. t \in Seq(Byte) /\ Len(t) = n /\ \A i \in 1 .. n : t[i] = s[2 + i]
      BY <1>1, <3>1
    <3> HIDE DEF t
    <3>3. \A i \in 1 .. n : 2 + i \in 1 .. Len(s) /\ 2 + i <= Len(f)
      BY <1>1, <2>5
    <3>4. \A i \in 1 .. Len(t) : t[i] = body[i]
      BY <1>1, <1>2, <3>2, <3>3
    <3>5. t = body
      BY <3>2, <3>4, SeqEqual DEF n
    <3>6. QED
      BY <3>5 DEF t
  <2>6. QED
    BY <1>1, <1>4, <2>4, <2>5 DEF FrameBody, n
<1>5. QED
  BY <1>1, <1>3, <1>4

-----------------------------------------------------------------------------
(* Destinations and the URI.                                               *)

\* To4 of an IPv4 address is that address.
LEMMA To4Idempotent ==
  ASSUME NEW ip \in Seq(Byte)
  PROVE  To4(To4(ip)) = To4(ip)
<1>1. CASE ~IsMapped(ip)
  BY <1>1 DEF To4
<1>2. CASE IsMapped(ip)
  <2>1. To4(ip) = SubSeq(ip, Len(MappedPrefix) + 1, V6Len)
    BY <1>2 DEF To4
  <2>2. /\ Len(MappedPrefix) \in Nat /\ V4Len \in Nat
        /\ V6Len = Len(MappedPrefix) + V4Len /\ V4Len /= V6Len
    BY CodecAssumption
  <2>3. Len(SubSeq(ip, Len(MappedPrefix) + 1, V6Len)) = V4Len
    <3> DEFINE k == Len(MappedPrefix)
    <3>1. Len(ip) = V6Len /\ \A i \in k + 1 .. V6Len : ip[i] \in Byte
      BY <1>2, <2>2 DEF IsMapped
    <3> HIDE DEF k
    <3>2. k \in Nat /\ V6Len = k + V4Len
      BY <2>2 DEF k
    <3>3. Len(SubSeq(ip, k + 1, V6Len)) = V4Len
      BY <2>2, <3>1, <3>2
    <3>4. QED
      BY <3>3 DEF k
  <2>4. ~IsMapped(To4(ip))
    BY <2>1, <2>2, <2>3 DEF IsMapped
  <2>5. QED
    BY <2>4 DEF To4
<1>3. QED
  BY <1>1, <1>2

\* What the server dials is what the client was asked for, an IPv4 address
\* mapped into IPv6 in its short form (client.go:66-92, header.go:127-142).
THEOREM DestinationSurvives ==
  ASSUME NEW host \in [isIP : BOOLEAN, val : Seq(Byte)]
  PROVE  LET dest == EncodeDest(host)
         IN  HostText(dest.atyp, dest.addr) = IF host.isIP THEN IPText(host.val) ELSE host
<1> DEFINE dest == EncodeDest(host)
<1>1. CASE host.isIP
  <2>1. dest.atyp /= AtypDomain /\ dest.addr = To4(host.val)
    BY <1>1 DEF EncodeDest, AtypDomain, AtypIPv4, AtypIPv6
  <2> HIDE DEF dest
  <2>2. HostText(dest.atyp, dest.addr) = IPText(To4(host.val))
    BY <2>1 DEF HostText
  <2>3. IPText(To4(host.val)) = IPText(host.val)
    BY To4Idempotent DEF IPText
  <2>4. QED
    BY <1>1, <2>2, <2>3 DEF dest
<1>2. CASE ~host.isIP
  <2>1. dest.atyp = AtypDomain /\ dest.addr = host.val
    BY <1>2 DEF EncodeDest
  <2>2. host = [isIP |-> FALSE, val |-> host.val]
    BY <1>2
  <2> HIDE DEF dest
  <2>3. HostText(dest.atyp, dest.addr) = host
    BY <2>1, <2>2 DEF HostText
  <2>4. QED
    BY <1>2, <2>3 DEF dest
<1>3. QED
  BY <1>1, <1>2

\* Parse takes out of a URI what String put in, for a configuration that names
\* its mode and region; Parse never returns one that does not (uri.go:71-140).
THEOREM URIRoundTrip ==
  ASSUME NEW uuid, NEW host, NEW port, NEW pk, NEW name, NEW params,
         params \in [Params -> SUBSET STRING],
         params["mode"] /= {}, params["region"] /= {}
  PROVE  LET c == [uuid |-> uuid, host |-> host, port |-> port,
                   params |-> params, pk |-> pk, name |-> name]
         IN  Parsable(String(c)) /\ Parse(String(c)) = c
<1> DEFINE c == [uuid |-> uuid, host |-> host, port |-> port,
                 params |-> params, pk |-> pk, name |-> name]
           u == String(c)
<1>1. /\ u.scheme = "avangard" /\ u.user = {uuid} /\ u.host = {host} /\ u.port = {port}
      /\ u.query = params /\ u.fragment = name
      /\ u.pk = {PkText(k, "rawurl", 32) : k \in pk}
  BY DEF String
<1> HIDE DEF u
<1>2. Parsable(u)
  BY <1>1 DEF Parsable, Decodes, PkText
<1>3. [u.query EXCEPT !["mode"] = OrAuto(@), !["region"] = OrAuto(@)] = params
  BY <1>1 DEF OrAuto, Params
<1>4. {text.key : text \in u.pk} = pk
  <2>1. ASSUME NEW k
        PROVE  PkText(k, "rawurl", 32).key = k
    BY DEF PkText
  <2>2. ASSUME NEW x \in {text.key : text \in u.pk}
        PROVE  x \in pk
    <3>1. PICK k \in pk : x = PkText(k, "rawurl", 32).key
      BY <1>1
    <3>2. QED
      BY <2>1, <3>1
  <2>3. ASSUME NEW k \in pk
        PROVE  k \in {text.key : text \in u.pk}
    BY <1>1, <2>1
  <2>4. QED
    BY <2>2, <2>3
<1>5. Parse(u) = c
  BY <1>1, <1>3, <1>4 DEF Parse
<1>6. QED
  BY <1>2, <1>5 DEF u

-----------------------------------------------------------------------------
(* The carrier.                                                            *)

\* What a pipe of the carrier looks like.
Shaped(pipe) == pipe \in Pipe /\ (conf.carrier /= "ws" => pipe.msgs = <<>>)

\* The parts of a pipe are sequences of bytes.
LEMMA PipeParts ==
  ASSUME NEW pipe \in Pipe
  PROVE  /\ pipe.rbuf \in Seq(Byte) /\ pipe.msgs \in Seq(Seq(Byte))
         /\ InFlight(pipe) \in Seq(Byte)
         /\ pipe.msgs = <<>> => InFlight(pipe) = pipe.rbuf
<1> DEFINE B == Seq(Byte)
<1>1. pipe.rbuf \in B /\ pipe.msgs \in Seq(B)
  BY DEF Pipe
<1>2. FlattenSeq(pipe.msgs) \in Seq(Byte)
  BY <1>1, FlattenTyped
<1>3. pipe.msgs = <<>> => InFlight(pipe) = pipe.rbuf
  BY <1>1, FlattenEmpty, ConcatEmptySeq DEF InFlight
<1>4. QED
  BY <1>1, <1>2, <1>3, ConcatProperties DEF InFlight

\* What is written follows what is in flight.
LEMMA WriteAppends ==
  ASSUME NEW pipe, Shaped(pipe), NEW bytes \in Seq(Byte)
  PROVE  /\ Shaped(Written(pipe, bytes))
         /\ InFlight(Written(pipe, bytes)) = InFlight(pipe) \o bytes
<1> DEFINE B == Seq(Byte)
           left == Written(pipe, bytes)
<1>1. pipe \in Pipe /\ pipe.rbuf \in B /\ pipe.msgs \in Seq(B)
  BY PipeParts DEF Shaped
<1>2. CASE conf.carrier = "ws"
  <2>1. left = [pipe EXCEPT !.msgs = Append(@, bytes)]
    BY <1>2 DEF Written
  <2>2. Append(pipe.msgs, bytes) \in Seq(B)
    <3> HIDE DEF B
    <3>1. QED
      BY <1>1, AppendProperties DEF B
  <2>3. left \in Pipe /\ left.rbuf = pipe.rbuf /\ left.msgs = Append(pipe.msgs, bytes)
    BY <1>1, <2>1, <2>2 DEF Pipe
  <2>4. FlattenSeq(left.msgs) = FlattenSeq(pipe.msgs) \o bytes
    BY <1>1, <2>3, FlattenAppend
  <2>5. FlattenSeq(pipe.msgs) \in Seq(Byte)
    BY <1>1, FlattenTyped
  <2>6. (pipe.rbuf \o FlattenSeq(pipe.msgs)) \o bytes
          = pipe.rbuf \o (FlattenSeq(pipe.msgs) \o bytes)
    <3> DEFINE a == pipe.rbuf
               f == FlattenSeq(pipe.msgs)
    <3>1. a \in B /\ f \in B
      BY <1>1, <2>5
    <3> HIDE DEF a, f, left
    <3>2. (a \o f) \o bytes = a \o (f \o bytes)
      BY <3>1, Regroup
    <3>3. QED
      BY <3>2 DEF a, f
  <2>7. QED
    BY <1>2, <2>3, <2>4, <2>6 DEF Shaped, InFlight
<1>3. CASE conf.carrier /= "ws"
  <2>1. left = [pipe EXCEPT !.rbuf = @ \o bytes] /\ pipe.msgs = <<>>
    BY <1>3 DEF Written, Shaped
  <2>2. pipe.rbuf \o bytes \in B
    BY <1>1, ConcatProperties
  <2>3. left \in Pipe /\ left.rbuf = pipe.rbuf \o bytes /\ left.msgs = pipe.msgs
    BY <1>1, <2>1, <2>2 DEF Pipe
  <2>4. InFlight(left) = left.rbuf /\ InFlight(pipe) = pipe.rbuf
    BY <1>1, <2>1, <2>3, PipeParts
  <2>5. QED
    BY <1>3, <2>1, <2>3, <2>4 DEF Shaped
<1>4. QED
  BY <1>2, <1>3

\* A cut is made after so many bytes.
LEMMA BytesCutAt ==
  ASSUME NEW f, NEW a \in Seq(Byte), NEW c \in Seq(Byte), NEW n, Cut(f, a, c), Len(a) = n
  PROVE  n \in 0 .. Len(f) /\ a = SubSeq(f, 1, n) /\ c = After(f, n)
<1>1. /\ Len(a) \in 0 .. Len(f) /\ a = SubSeq(f, 1, Len(a))
      /\ c = SubSeq(f, Len(a) + 1, Len(f))
  BY CutAt
<1>2. QED
  BY <1>1 DEF After

\* Whatever a read returns is the beginning of what is in flight, and the rest
\* stays.
LEMMA ReadTakes ==
  ASSUME NEW pipe, Shaped(pipe), NEW want \in Nat, NEW r \in Reads(pipe, want)
  PROVE  /\ Shaped(r.left)
         /\ \E n \in 0 .. Len(InFlight(pipe)) :
              /\ r.data = SubSeq(InFlight(pipe), 1, n)
              /\ InFlight(r.left) = After(InFlight(pipe), n)
<1> DEFINE B == Seq(Byte)
           f == InFlight(pipe)
<1>1. /\ pipe \in Pipe /\ pipe.rbuf \in B /\ pipe.msgs \in Seq(B) /\ f \in B
      /\ pipe.msgs = <<>> => f = pipe.rbuf
  BY PipeParts DEF Shaped
<1>2. f /= <<>>
  BY DEF Reads
<1>3. CASE conf.carrier /= "ws"
  <2>1. PICK n \in 1 .. Least(want, Len(pipe.rbuf)) :
          r = [data |-> SubSeq(pipe.rbuf, 1, n),
               left |-> [pipe EXCEPT !.rbuf = After(@, n)]]
    BY <1>2, <1>3 DEF Reads
  <2>2. f = pipe.rbuf /\ pipe.msgs = <<>>
    BY <1>1, <1>3 DEF Shaped
  <2>3. Len(f) \in Nat /\ n \in 0 .. Len(f)
    BY <1>1, <2>1, <2>2 DEF Least
  <2> HIDE DEF f
  <2>4. After(f, n) \in B
    BY <1>1, <2>3, SplitAt DEF After
  <2>5. r.left = [pipe EXCEPT !.rbuf = After(f, n)] /\ r.data = SubSeq(f, 1, n)
    BY <2>1, <2>2
  <2>6. r.left \in Pipe /\ r.left.rbuf = After(f, n) /\ r.left.msgs = <<>>
    BY <1>1, <2>2, <2>4, <2>5 DEF Pipe
  <2>7. InFlight(r.left) = After(f, n)
    BY <2>6, PipeParts
  <2>8. QED
    BY <1>3, <2>3, <2>5, <2>6, <2>7 DEF Shaped, f
<1>4. CASE conf.carrier = "ws"
  <2> DEFINE fresh == pipe.rbuf = <<>>
             msg == IF pipe.rbuf /= <<>> THEN pipe.rbuf ELSE Head(pipe.msgs)
             rest == IF pipe.rbuf /= <<>> THEN pipe.msgs ELSE Tail(pipe.msgs)
             n == Least(want, Len(msg))
             g == FlattenSeq(rest)
  <2>1. r = [data |-> SubSeq(msg, 1, n), left |-> [rbuf |-> After(msg, n), msgs |-> rest]]
    BY <1>2, <1>4 DEF Reads, MessageRead
  <2>2. pipe.rbuf = <<>> => pipe.msgs /= <<>>
    BY <1>1, <1>2
  <2>3. msg \in B /\ rest \in Seq(B)
    <3> HIDE DEF B
    <3>1. pipe.rbuf = <<>> => Head(pipe.msgs) \in B /\ Tail(pipe.msgs) \in Seq(B)
      BY <1>1, <2>2, HeadTailProperties
    <3>2. QED
      BY <1>1, <3>1
  <2>4. g \in B
    BY <2>3, FlattenTyped
  <2>5. f = msg \o g
    <3>1. CASE pipe.rbuf /= <<>>
      BY <3>1 DEF InFlight
    <3>2. CASE pipe.rbuf = <<>>
      <4>1. FlattenSeq(pipe.msgs) = Head(pipe.msgs) \o FlattenSeq(Tail(pipe.msgs))
        BY <1>1, <2>2, <3>2, FlattenHead
      <4>2. FlattenSeq(pipe.msgs) \in B
        BY <1>1, FlattenTyped
      <4>3. f = FlattenSeq(pipe.msgs)
        BY <3>2, <4>2, ConcatEmptySeq DEF InFlight
      <4>4. QED
        BY <3>2, <4>1, <4>3
    <3>3. QED
      BY <3>1, <3>2
  <2> HIDE DEF f, msg, rest, g
  <2>6. Len(msg) \in Nat /\ n \in 0 .. Len(msg)
    BY <2>3 DEF Least
  <2> HIDE DEF n
  <2> DEFINE a == SubSeq(msg, 1, n)
             b == After(msg, n)
  <2>7. a \in B /\ b \in B /\ a \o b = msg /\ Len(a) = n
    BY <2>3, <2>6, SplitAt DEF After
  <2> HIDE DEF a, b
  <2>8. b \o g \in B /\ Cut(f, a, b \o g)
    <3>1. Cut(msg, a, b)
      BY <2>7 DEF Cut
    <3>2. Cut(msg \o g, a, b \o g)
      BY <2>4, <2>7, <3>1, CutGrows
    <3>3. QED
      BY <2>4, <2>5, <2>7, <3>2, ConcatProperties
  <2>9. /\ n \in 0 .. Len(f) /\ a = SubSeq(f, 1, n) /\ b \o g = After(f, n)
    <3> DEFINE c == b \o g
    <3>1. c \in Seq(Byte) /\ a \in Seq(Byte) /\ Cut(f, a, c) /\ Len(a) = n
      BY <2>7, <2>8
    <3> HIDE DEF c, B
    <3>2. n \in 0 .. Len(f) /\ a = SubSeq(f, 1, n) /\ c = After(f, n)
      BY <3>1, BytesCutAt
    <3>3. QED
      BY <3>2 DEF c
  <2>10. /\ r.data = a /\ r.left.rbuf = b /\ r.left.msgs = rest
         /\ r.left = [rbuf |-> b, msgs |-> rest]
    BY <2>1 DEF a, b
  <2>11. r.left \in Pipe /\ InFlight(r.left) = b \o g
    BY <2>3, <2>7, <2>10 DEF Pipe, InFlight, g
  <2>12. QED
    BY <1>4, <2>9, <2>10, <2>11 DEF Shaped, f
<1>5. QED
  BY <1>3, <1>4

-----------------------------------------------------------------------------
(* The installation, the URI and who may dial.                             *)

Configured ==
  conf \in [client : Installs, server : Installs, edit : Edits,
            carrier : Carriers, trusted : BOOLEAN, dest : Dests]

\* The client can use the URI; it may dial.
Usable == Parsable(URI) /\ Config.pk /= {}
Ready == Usable /\ DestEncodable(Host) /\ Admitted

\* What was done to the URI leaves it a URI.
Legible ==
  CASE conf.edit = "none" -> TRUE
    [] conf.edit = "rawstd" -> Letters[conf.client.key] = {}
    [] conf.edit = "std" -> "+" \notin Letters[conf.client.key]
    [] OTHER -> FALSE

\* The URI that the client gets.
LEMMA URIFields ==
  ASSUME Configured
  PROVE  /\ URI.scheme = "avangard" /\ URI.user = {conf.client.uuid}
         /\ URI.host = {"127.0.0.1"} /\ URI.port = {"443"}
         /\ URI.query["sni"] = conf.client.decoy
         /\ URI.pk = CASE conf.edit = "none" -> {PkText(conf.client.key, "rawurl", 32)}
                       [] conf.edit = "rawstd" -> {PkText(conf.client.key, "rawstd", 32)}
                       [] conf.edit = "std" -> {PkText(conf.client.key, "std", 32)}
                       [] conf.edit = "short" -> {PkText(conf.client.key, "rawurl", 31)}
                       [] OTHER -> {}
         /\ URI.query \in [Params -> {URI.query[p] : p \in Params}]
<1> DEFINE x == conf.client
           c == KeygenConfig(x)
           u == String(c)
<1>1. conf.edit \in Edits
  BY DEF Configured
<1>2. /\ c.uuid = x.uuid /\ c.host = "127.0.0.1" /\ c.port = "443"
      /\ c.params["sni"] = x.decoy /\ c.pk = {x.key} /\ DOMAIN c.params = Params
      /\ c.params = [p \in Params |-> c.params[p]]
  BY DEF KeygenConfig, Params
<1> HIDE DEF c
<1>3. /\ u.scheme = "avangard" /\ u.user = {x.uuid}
      /\ u.host = {"127.0.0.1"} /\ u.port = {"443"} /\ u.query = c.params
      /\ u.pk = {PkText(k, "rawurl", 32) : k \in {x.key}}
      /\ u = [scheme |-> u.scheme, user |-> u.user, host |-> u.host, port |-> u.port,
              query |-> u.query, pk |-> u.pk, fragment |-> u.fragment]
  BY <1>2 DEF String
<1>4. u.pk = {PkText(x.key, "rawurl", 32)}
  BY <1>3
<1>5. URI = Edited(u)
  BY DEF URI, u, c
<1> HIDE DEF u, x
<1>6. ASSUME NEW e, NEW n
      PROVE  /\ {PkText(text.key, e, n) : text \in u.pk} = {PkText(x.key, e, n)}
             /\ {PkText(text.key, text.encoding, n) : text \in u.pk}
                  = {PkText(x.key, "rawurl", n)}
  BY <1>4 DEF PkText
<1>7. /\ URI.scheme = u.scheme /\ URI.user = u.user /\ URI.host = u.host
      /\ URI.port = u.port /\ URI.query = u.query
      /\ URI.pk = CASE conf.edit = "none" -> u.pk
                    [] conf.edit \in {"rawstd", "std"} ->
                         {PkText(text.key, conf.edit, 32) : text \in u.pk}
                    [] conf.edit = "short" ->
                         {PkText(text.key, text.encoding, 31) : text \in u.pk}
                    [] OTHER -> {}
  <2> DEFINE pk1 == {PkText(text.key, conf.edit, 32) : text \in u.pk}
             pk2 == {PkText(text.key, text.encoding, 31) : text \in u.pk}
  <2>1. Edited(u) = CASE conf.edit = "none" -> u
                      [] conf.edit \in {"rawstd", "std"} -> [u EXCEPT !.pk = pk1]
                      [] conf.edit = "short" -> [u EXCEPT !.pk = pk2]
                      [] conf.edit = "no_key" -> [u EXCEPT !.pk = {}]
    BY DEF Edited
  <2> HIDE DEF pk1, pk2
  <2>2. QED
    BY <1>1, <1>3, <1>5, <2>1 DEF Edits, pk1, pk2
<1>8. URI.pk = CASE conf.edit = "none" -> {PkText(x.key, "rawurl", 32)}
                 [] conf.edit = "rawstd" -> {PkText(x.key, "rawstd", 32)}
                 [] conf.edit = "std" -> {PkText(x.key, "std", 32)}
                 [] conf.edit = "short" -> {PkText(x.key, "rawurl", 31)}
                 [] OTHER -> {}
  <2>1. /\ {PkText(text.key, "rawstd", 32) : text \in u.pk} = {PkText(x.key, "rawstd", 32)}
        /\ {PkText(text.key, "std", 32) : text \in u.pk} = {PkText(x.key, "std", 32)}
        /\ {PkText(text.key, text.encoding, 31) : text \in u.pk}
             = {PkText(x.key, "rawurl", 31)}
    BY <1>6
  <2>2. CASE conf.edit = "none"
    BY <1>4, <1>7, <2>2
  <2>3. CASE conf.edit = "rawstd"
    BY <1>7, <2>1, <2>3
  <2>4. CASE conf.edit = "std"
    BY <1>7, <2>1, <2>4
  <2>5. CASE conf.edit = "short"
    BY <1>7, <2>1, <2>5
  <2>6. CASE conf.edit = "no_key"
    BY <1>7, <2>6
  <2>7. QED
    BY <1>1, <2>2, <2>3, <2>4, <2>5, <2>6 DEF Edits
<1>9. URI.query["sni"] = x.decoy
  BY <1>2, <1>3, <1>7
<1>10. URI.query \in [Params -> {URI.query[p] : p \in Params}]
  BY <1>2, <1>3, <1>7
<1>11. QED
  BY <1>3, <1>7, <1>8, <1>9, <1>10 DEF x

\* Whoever can use the URI has the key, the UUID and the decoy that it was
\* printed for; and everybody can use a legible one.
LEMMA URIUsable ==
  ASSUME Configured
  PROVE  /\ Usable <=> Legible
         /\ Usable => /\ Key = conf.client.key /\ Config.uuid = conf.client.uuid
                      /\ Config.params["sni"] = conf.client.decoy
<1> DEFINE x == conf.client
           u == URI
<1>1. /\ u.scheme = "avangard" /\ u.user = {x.uuid}
      /\ u.host = {"127.0.0.1"} /\ u.port = {"443"} /\ u.query["sni"] = x.decoy
      /\ u.pk = CASE conf.edit = "none" -> {PkText(x.key, "rawurl", 32)}
                  [] conf.edit = "rawstd" -> {PkText(x.key, "rawstd", 32)}
                  [] conf.edit = "std" -> {PkText(x.key, "std", 32)}
                  [] conf.edit = "short" -> {PkText(x.key, "rawurl", 31)}
                  [] OTHER -> {}
      /\ u.query \in [Params -> {u.query[p] : p \in Params}]
  BY URIFields
<1>2. conf.edit \in Edits
  BY DEF Configured
<1>3. Usable <=> Parsable(u) /\ {text.key : text \in u.pk} /= {}
  BY DEF Usable, Config, Parse
<1>4. Parsable(u) <=> \A text \in u.pk : Decodes(text) /\ text.size = 32
  <2> HIDE DEF u
  <2>1. QED
    BY <1>1 DEF Parsable
<1>5. Config.pk = {text.key : text \in u.pk}
  BY DEF Config, Parse
<1>6. Config.uuid = x.uuid
  <2>1. Config.uuid = CHOOSE y \in u.user : TRUE
    BY DEF Config, Parse
  <2> HIDE DEF u, x
  <2>2. QED
    BY <1>1, <2>1
<1>7. Config.params["sni"] = x.decoy
  <2>1. Config.params = [u.query EXCEPT !["mode"] = OrAuto(@), !["region"] = OrAuto(@)]
    BY DEF Config, Parse
  <2> HIDE DEF u, x
  <2>2. "sni" \in Params
    BY DEF Params
  <2>3. QED
    BY <1>1, <2>1, <2>2
<1> HIDE DEF u, x
<1>8. ASSUME NEW e, NEW n, u.pk = {PkText(x.key, e, n)}
      PROVE  /\ {text.key : text \in u.pk} = {x.key}
             /\ Parsable(u) <=> Decodes(PkText(x.key, e, n)) /\ n = 32
  <2>1. PkText(x.key, e, n).key = x.key /\ PkText(x.key, e, n).size = n
    BY DEF PkText
  <2>2. QED
    BY <1>4, <1>8, <2>1
<1>9. ASSUME NEW e, NEW n, u.pk = {PkText(x.key, e, n)}
      PROVE  /\ Key = x.key
             /\ Usable <=> Decodes(PkText(x.key, e, n)) /\ n = 32
  <2>1. Config.pk = {x.key}
    BY <1>5, <1>8, <1>9
  <2>2. Key = x.key
    BY <2>1 DEF Key
  <2>3. QED
    BY <1>3, <1>5, <1>8, <1>9, <2>1, <2>2
<1>10. ASSUME NEW e
       PROVE  Decodes(PkText(x.key, e, 32)) <=>
                \/ e = "rawurl"
                \/ e = "rawstd" /\ Letters[x.key] = {}
                \/ e = "std" /\ "+" \notin Letters[x.key]
  BY DEF Decodes, PkText
<1>11. (Usable <=> Legible) /\ (Usable => Key = x.key)
  <2>1. CASE conf.edit = "none"
    <3>1. u.pk = {PkText(x.key, "rawurl", 32)}
      BY <1>1, <2>1
    <3>2. QED
      BY <1>9, <1>10, <2>1, <3>1 DEF Legible
  <2>2. CASE conf.edit = "rawstd"
    <3>1. u.pk = {PkText(x.key, "rawstd", 32)}
      BY <1>1, <2>2
    <3>2. Legible <=> Letters[x.key] = {}
      BY <2>2 DEF Legible, x
    <3>3. QED
      BY <1>9, <1>10, <3>1, <3>2
  <2>3. CASE conf.edit = "std"
    <3>1. u.pk = {PkText(x.key, "std", 32)}
      BY <1>1, <2>3
    <3>2. Legible <=> "+" \notin Letters[x.key]
      BY <2>3 DEF Legible, x
    <3>3. QED
      BY <1>9, <1>10, <3>1, <3>2
  <2>4. CASE conf.edit = "short"
    <3>1. u.pk = {PkText(x.key, "rawurl", 31)} /\ ~Legible
      BY <1>1, <2>4 DEF Legible
    <3>2. QED
      BY <1>9, <3>1
  <2>5. CASE conf.edit = "no_key"
    <3>1. u.pk = {} /\ ~Legible
      BY <1>1, <2>5 DEF Legible
    <3>2. QED
      BY <1>3, <3>1
  <2>6. QED
    BY <1>2, <2>1, <2>2, <2>3, <2>4, <2>5 DEF Edits
<1>12. QED
  BY <1>6, <1>7, <1>11 DEF x

-----------------------------------------------------------------------------
(* Ports, which are texts, by induction on their digits.                   *)

\* The functions by which FoldLeft defines the two readings of a port.
Wide(f, text) ==
  f = [s \in SUBSET (DOMAIN text) |->
         IF s = {} THEN 0 ELSE f[s \ {Max(s)}] * 10 + text[Max(s)]]
Short(f, text) ==
  f = [s \in SUBSET (DOMAIN text) |->
         IF s = {} THEN 0 ELSE (f[s \ {Max(s)}] * 10 + text[Max(s)]) % 65536]

\* FoldLeft, unfolded, for the number.
LEMMA WideFold ==
  ASSUME NEW text
  PROVE  Decimal(text) = (CHOOSE f : Wide(f, text))[DOMAIN text]
BY DEF Decimal, FoldLeft, MapThenFoldSet, Wide

\* The same for its last 16 bits.
LEMMA ShortFold ==
  ASSUME NEW text
  PROVE  ParsePort(text) = (CHOOSE f : Short(f, text))[DOMAIN text]
BY DEF ParsePort, FoldLeft, MapThenFoldSet, Short

\* One digit more, in numbers and in 16 bits.
Digit(p, c, size) ==
  IF size = "any" THEN p * 10 + c ELSE (p * 10 + c) % 65536
Digits(f, text, n, size) ==
  f = [s \in SUBSET (1 .. n) |->
         IF s = {} THEN 0 ELSE Digit(f[s \ {Max(s)}], text[Max(s)], size)]

DigitsValue(f, text, s, size) ==
  IF s = {} THEN 0 ELSE Digit(f[s \ {Max(s)}], text[Max(s)], size)

\* Such a function, one digit at a time.
LEMMA DigitsAt ==
  ASSUME NEW f, NEW text, NEW n, NEW size, Digits(f, text, n, size),
         NEW s \in SUBSET (1 .. n)
  PROVE  f[s] = DigitsValue(f, text, s, size)
<1> DEFINE value(t) == IF t = {} THEN 0 ELSE Digit(f[t \ {Max(t)}], text[Max(t)], size)
           g == [t \in SUBSET (1 .. n) |-> value(t)]
<1>1. f = g
  BY DEF Digits
<1> HIDE DEF value
<1>2. g[s] = value(s)
  OBVIOUS
<1> HIDE DEF g
<1>3. f[s] = value(s)
  BY <1>1, <1>2
<1>4. QED
  BY <1>3 DEF value, DigitsValue

\* The digits are numbered, the last highest.
LEMMA LastIsMax ==
  ASSUME NEW n \in Nat, NEW s \in SUBSET (1 .. n + 1), n + 1 \in s
  PROVE  Max(s) = n + 1
<1>1. \A y \in s : y \in Int /\ n + 1 >= y
  OBVIOUS
<1>2. \A x \in s : (\A y \in s : x >= y) => x = n + 1
  BY <1>1
<1>3. QED
  BY <1>1, <1>2 DEF Max

\* The function exists.
LEMMA DigitsExists ==
  ASSUME NEW text, NEW size
  PROVE  \A n \in Nat : \E f : Digits(f, text, n, size)
<1> DEFINE T == {n \in Nat : \E f : Digits(f, text, n, size)}
<1>1. 0 \in T
  <2> DEFINE f == [s \in SUBSET (1 .. 0) |-> 0]
             v(s) == IF s = {} THEN 0 ELSE Digit(f[s \ {Max(s)}], text[Max(s)], size)
  <2>1. ASSUME NEW s \in SUBSET (1 .. 0) PROVE v(s) = 0
    <3>1. s = {}
      OBVIOUS
    <3>2. QED
      BY <3>1
  <2>2. f = [s \in SUBSET (1 .. 0) |-> v(s)]
    <3> HIDE DEF v
    <3>1. QED
      BY <2>1
  <2>3. Digits(f, text, 0, size)
    BY <2>2 DEF Digits
  <2> HIDE DEF f
  <2>4. QED
    BY <2>3
<1>2. ASSUME NEW n \in Nat, n \in T
      PROVE  n + 1 \in T
  <2>1. PICK f : Digits(f, text, n, size)
    BY <1>2
  <2> DEFINE m == n + 1
             new(s) == Digit(f[s \ {m}], text[m], size)
             g == [s \in SUBSET (1 .. m) |-> IF m \in s THEN new(s) ELSE f[s]]
             v(s) == IF s = {} THEN 0 ELSE Digit(g[s \ {Max(s)}], text[Max(s)], size)
  <2>2. ASSUME NEW s \in SUBSET (1 .. m) PROVE g[s] = v(s)
    <3>1. CASE m \in s
      <4>1. Max(s) = m /\ s /= {}
        BY <3>1, LastIsMax
      <4>2. s \ {m} \in SUBSET (1 .. m) /\ m \notin s \ {m}
        OBVIOUS
      <4>3. g[s] = new(s)
        BY <3>1
      <4>4. g[s \ {m}] = f[s \ {m}]
        BY <4>2
      <4> HIDE DEF g, m
      <4>5. QED
        BY <4>1, <4>3, <4>4
    <3>2. CASE m \notin s
      <4>1. s \in SUBSET (1 .. n)
        <5>1. \A i \in 1 .. m : i = m \/ i \in 1 .. n
          OBVIOUS
        <5>2. QED
          BY <3>2, <5>1
      <4>2. g[s] = f[s]
        BY <3>2
      <4>3. g[s \ {Max(s)}] = f[s \ {Max(s)}]
        <5> DEFINE r == s \ {Max(s)}
        <5>1. r \in SUBSET (1 .. m) /\ m \notin r
          BY <3>2
        <5> HIDE DEF r
        <5>2. g[r] = f[r]
          BY <5>1
        <5>3. QED
          BY <5>2 DEF r
      <4>4. f[s] = IF s = {} THEN 0 ELSE Digit(f[s \ {Max(s)}], text[Max(s)], size)
        BY <2>1, <4>1, DigitsAt DEF DigitsValue
      <4> HIDE DEF g
      <4>5. QED
        BY <4>2, <4>3, <4>4
    <3>3. QED
      BY <3>1, <3>2
  <2>3. g = [s \in SUBSET (1 .. m) |-> v(s)]
    <3>1. g = [s \in SUBSET (1 .. m) |-> g[s]]
      OBVIOUS
    <3> HIDE DEF g, v
    <3>2. QED
      BY <2>2, <3>1
  <2>4. Digits(g, text, m, size)
    BY <2>3 DEF Digits
  <2> HIDE DEF g
  <2>5. QED
    BY <2>4
<1> HIDE DEF T
<1>3. \A n \in Nat : n \in T
  BY <1>1, <1>2, Induction
<1>4. QED
  BY <1>3 DEF T

\* It is the one that FoldLeft chooses.
LEMMA DigitsFold ==
  ASSUME NEW text \in Seq(0 .. 9)
  PROVE  /\ \E f : Digits(f, text, Len(text), "any") /\ Decimal(text) = f[1 .. Len(text)]
         /\ \E f : Digits(f, text, Len(text), "word") /\ ParsePort(text) = f[1 .. Len(text)]
<1>1. DOMAIN text = 1 .. Len(text) /\ Len(text) \in Nat
  OBVIOUS
<1>2. ASSUME NEW f PROVE Digits(f, text, Len(text), "any") <=> Wide(f, text)
  BY <1>1 DEF Digits, Digit, Wide
<1>3. ASSUME NEW f PROVE Digits(f, text, Len(text), "word") <=> Short(f, text)
  BY <1>1 DEF Digits, Digit, Short
<1> DEFINE W == CHOOSE f : Wide(f, text)
           P == CHOOSE f : Short(f, text)
<1>4. Wide(W, text)
  <2>1. \E f : Wide(f, text)
    BY <1>1, <1>2, DigitsExists
  <2>2. QED
    BY <2>1
<1>5. Short(P, text)
  <2>1. \E f : Short(f, text)
    BY <1>1, <1>3, DigitsExists
  <2>2. QED
    BY <2>1
<1>6. Decimal(text) = W[1 .. Len(text)] /\ ParsePort(text) = P[1 .. Len(text)]
  BY <1>1, WideFold, ShortFold
<1> HIDE DEF W, P
<1>7. QED
  BY <1>2, <1>3, <1>4, <1>5, <1>6

LEMMA NextDigit ==
  ASSUME NEW f, NEW text, NEW l \in Nat, NEW size, Digits(f, text, l, size),
         NEW n \in Nat, n + 1 <= l
  PROVE  f[1 .. n + 1] = Digit(f[1 .. n], text[n + 1], size)
<1> DEFINE s == 1 .. n + 1
<1>1. s \in SUBSET (1 .. l) /\ s \in SUBSET (1 .. n + 1) /\ n + 1 \in s /\ s /= {}
  <2>1. \A i \in 1 .. n + 1 : i \in 1 .. l
    OBVIOUS
  <2>2. n + 1 \in 1 .. n + 1
    OBVIOUS
  <2>3. QED
    BY <2>1, <2>2
<1>2. Max(s) = n + 1
  BY <1>1, LastIsMax
<1>3. s \ {Max(s)} = 1 .. n
  BY <1>2
<1> HIDE DEF s
<1>4. f[s] = DigitsValue(f, text, s, size)
  <2>1. s \in SUBSET (1 .. l)
    BY <1>1
  <2>2. QED
    BY <2>1, DigitsAt
<1>5. f[s] = Digit(f[1 .. n], text[n + 1], size)
  BY <1>1, <1>2, <1>3, <1>4 DEF DigitsValue
<1>6. QED
  BY <1>5 DEF s

LEMMA OneDigit ==
  ASSUME NEW p \in Nat, NEW q, q = p % 65536, NEW c \in 0 .. 9
  PROVE  (q * 10 + c) % 65536 = (p * 10 + c) % 65536
OBVIOUS

\* q is p in 16 bits.
Word(q, p) == q = p % 65536

LEMMA WordIsPort ==
  ASSUME NEW q, NEW p \in Nat, Word(q, p)
  PROVE  q \in Port
<1>1. p % 65536 \in Nat /\ p % 65536 <= 65535
  OBVIOUS
<1>2. q \in Nat /\ q <= 65535
  BY <1>1 DEF Word
<1>3. QED
  BY <1>2, Bounds DEF Port

LEMMA SmallWord ==
  ASSUME NEW q, NEW p \in Nat, Word(q, p), p < 65536
  PROVE  q = p
<1>1. p % 65536 = p
  OBVIOUS
<1>2. QED
  BY <1>1 DEF Word

LEMMA WordStep ==
  ASSUME NEW p \in Nat, NEW q, Word(q, p), NEW c \in 0 .. 9
  PROVE  Digit(p, c, "any") \in Nat /\ Word(Digit(q, c, "word"), Digit(p, c, "any"))
<1>1. Digit(p, c, "any") = p * 10 + c /\ Digit(q, c, "word") = (q * 10 + c) % 65536
  BY DEF Digit
<1>2. (q * 10 + c) % 65536 = (p * 10 + c) % 65536 /\ p * 10 + c \in Nat
  BY OneDigit DEF Word
<1> DEFINE a == p * 10 + c
           w == (q * 10 + c) % 65536
<1>3. Word(w, a) /\ a \in Nat
  BY <1>2 DEF Word
<1>4. Digit(p, c, "any") = a /\ Digit(q, c, "word") = w
  BY <1>1
<1> HIDE DEF a, w
<1>5. QED
  BY <1>3, <1>4

LEMMA PortStep ==
  ASSUME NEW text, NEW l \in Nat, NEW n \in Nat, n + 1 <= l, text[n + 1] \in 0 .. 9,
         NEW f, Digits(f, text, l, "any"), NEW g, Digits(g, text, l, "word"),
         f[1 .. n] \in Nat, Word(g[1 .. n], f[1 .. n])
  PROVE  f[1 .. n + 1] \in Nat /\ Word(g[1 .. n + 1], f[1 .. n + 1])
<1>1. f[1 .. n + 1] = Digit(f[1 .. n], text[n + 1], "any")
  BY NextDigit
<1>2. g[1 .. n + 1] = Digit(g[1 .. n], text[n + 1], "word")
  BY NextDigit
<1>3. QED
  BY <1>1, <1>2, WordStep

\* parsePort (client.go:82-92) computes the decimal number in 16 bits.
THEOREM PortIsDecimal ==
  ASSUME NEW text \in Seq(0 .. 9)
  PROVE  Decimal(text) \in Nat /\ Word(ParsePort(text), Decimal(text))
<1>1. PICK f : Digits(f, text, Len(text), "any") /\ Decimal(text) = f[1 .. Len(text)]
  BY DigitsFold
<1>2. PICK g : Digits(g, text, Len(text), "word") /\ ParsePort(text) = g[1 .. Len(text)]
  BY DigitsFold
<1> DEFINE l == Len(text)
           T == {n \in Nat : n <= l => /\ f[1 .. n] \in Nat
                                       /\ Word(g[1 .. n], f[1 .. n])}
<1>3. l \in Nat
  OBVIOUS
<1>4. 0 \in T
  <2>1. 1 .. 0 = {} /\ {} \in SUBSET (1 .. l)
    OBVIOUS
  <2>2. f[{}] = 0 /\ g[{}] = 0
    BY <1>1, <1>2, <2>1, DigitsAt DEF DigitsValue
  <2>3. QED
    BY <2>1, <2>2 DEF Word
<1>5. ASSUME NEW n \in Nat, n \in T
      PROVE  n + 1 \in T
  <2> SUFFICES ASSUME n + 1 <= l
               PROVE  f[1 .. n + 1] \in Nat /\ Word(g[1 .. n + 1], f[1 .. n + 1])
    OBVIOUS
  <2>1. f[1 .. n] \in Nat /\ Word(g[1 .. n], f[1 .. n]) /\ text[n + 1] \in 0 .. 9
    BY <1>3, <1>5
  <2> HIDE DEF T
  <2>2. QED
    BY <1>1, <1>2, <1>3, <2>1, PortStep
<1> HIDE DEF T
<1>6. \A n \in Nat : n \in T
  BY <1>4, <1>5, Induction
<1>7. f[1 .. l] \in Nat /\ Word(g[1 .. l], f[1 .. l])
  BY <1>3, <1>6 DEF T
<1>8. QED
  BY <1>1, <1>2, <1>7

-----------------------------------------------------------------------------
(* Destinations and the request.                                           *)

\* To4 yields an address of one of the two lengths.
LEMMA To4Shape ==
  ASSUME NEW ip \in Seq(Byte), Len(ip) \in {V4Len, V6Len}
  PROVE  To4(ip) \in Seq(Byte) /\ Len(To4(ip)) \in {V4Len, V6Len}
<1>1. CASE ~IsMapped(ip)
  BY <1>1 DEF To4
<1>2. CASE IsMapped(ip)
  <2> DEFINE k == Len(MappedPrefix)
  <2>1. k \in Nat /\ V4Len \in Nat /\ V6Len = k + V4Len /\ Len(ip) = V6Len
    BY <1>2, CodecAssumption DEF IsMapped
  <2> HIDE DEF k
  <2>2. k \in 0 .. Len(ip) /\ Len(ip) - k = V4Len
    BY <2>1
  <2>3. LET r == SubSeq(ip, k + 1, Len(ip))
        IN  r \in Seq(Byte) /\ Len(r) = Len(ip) - k
    BY <2>2, SplitAt
  <2>4. To4(ip) = SubSeq(ip, k + 1, V6Len)
    BY <1>2 DEF To4, k
  <2>5. QED
    BY <2>1, <2>2, <2>3, <2>4
<1>3. QED
  BY <1>1, <1>2

\* A text is of the kind that net.IP.String and net.SplitHostPort give.
Proper(host) ==
  /\ host \in [isIP : BOOLEAN, val : Seq(Byte)]
  /\ host.isIP => Len(host.val) \in {V4Len, V6Len} /\ host = IPText(host.val)
  /\ ~host.isIP => host.val \notin DOMAIN Spelled

\* The text of an IP address denotes what it was made of.
LEMMA ProperIP ==
  ASSUME NEW ip \in Seq(Byte), Len(ip) \in {V4Len, V6Len}
  PROVE  IPText(ip).isIP /\ Proper(IPText(ip))
<1> DEFINE v == To4(ip)
<1>1. v \in Seq(Byte) /\ Len(v) \in {V4Len, V6Len} /\ To4(v) = v
  BY To4Shape, To4Idempotent
<1>2. IPText(ip) = [isIP |-> TRUE, val |-> v] /\ IPText(v) = [isIP |-> TRUE, val |-> To4(v)]
  BY DEF IPText
<1> HIDE DEF v
<1>3. QED
  BY <1>1, <1>2 DEF Proper

\* The host is proper, and encodable unless its name is empty.
LEMMA HostShape ==
  ASSUME Configured
  PROVE  /\ Proper(Host)
         /\ DestEncodable(Host) <=> (conf.dest.atyp = AtypDomain => conf.dest.addr /= <<>>)
<1> DEFINE d == conf.dest
           a == d.addr
<1>1. /\ d.atyp \in Atyps /\ a \in Seq(Byte)
      /\ Len(a) \in AddrLens(d.atyp) \/ (d.atyp = AtypDomain /\ a = <<>>)
  BY EstablishAssumption DEF Configured
<1>2. ASSUME NEW name \in DOMAIN Spelled
      PROVE  /\ name /= <<>> /\ Spelled[name] \in Seq(Byte)
             /\ Len(Spelled[name]) \in {V4Len, V6Len}
  BY EstablishAssumption
<1>3. Host = Canonical(HostText(d.atyp, a))
  BY DEF Host
<1> HIDE DEF a
<1>4. CASE d.atyp /= AtypDomain
  <2>1. Len(a) \in {V4Len, V6Len}
    BY <1>1, <1>4 DEF AddrLens, Atyps, AtypIPv4, AtypIPv6, AtypDomain
  <2>2. HostText(d.atyp, a) = IPText(a)
    BY <1>4 DEF HostText
  <2>3. IPText(a).isIP /\ Proper(IPText(a))
    BY <1>1, <2>1, ProperIP
  <2>4. Host = IPText(a)
    BY <1>3, <2>2, <2>3 DEF Canonical
  <2>5. QED
    BY <1>4, <2>3, <2>4 DEF DestEncodable
<1>5. CASE d.atyp = AtypDomain
  <2> DEFINE name == [isIP |-> FALSE, val |-> a]
  <2>1. HostText(d.atyp, a) = name
    BY <1>5 DEF HostText
  <2>2. Host = IF a \in DOMAIN Spelled THEN IPText(Spelled[a]) ELSE name
    BY <1>3, <2>1 DEF Canonical
  <2>3. CASE a \in DOMAIN Spelled
    <3>1. a /= <<>> /\ Spelled[a] \in Seq(Byte) /\ Len(Spelled[a]) \in {V4Len, V6Len}
      BY <1>2, <2>3
    <3>2. Host.isIP /\ Proper(Host)
      BY <2>2, <2>3, <3>1, ProperIP
    <3>3. QED
      BY <3>1, <3>2 DEF DestEncodable, a
  <2>4. CASE a \notin DOMAIN Spelled
    <3>1. Host = name
      BY <2>2, <2>4
    <3>2. Proper(Host)
      BY <1>1, <2>4, <3>1 DEF Proper
    <3>3. Len(a) \in 1 .. MaxByte \/ a = <<>>
      BY <1>1, <1>5 DEF AddrLens, AtypIPv4, AtypIPv6, AtypDomain
    <3>4. a = <<>> => Len(a) \notin 1 .. MaxByte
      BY Bounds
    <3>5. DestEncodable(Host) <=> a /= <<>>
      BY <3>1, <3>3, <3>4 DEF DestEncodable
    <3>6. QED
      BY <1>5, <3>2, <3>5 DEF a
  <2>5. QED
    BY <2>3, <2>4
<1>6. QED
  BY <1>4, <1>5

\* The header that the client writes is one, and names the token, the host and
\* the port that were asked for.
LEMMA RequestShape ==
  ASSUME Configured, Usable, DestEncodable(Host)
  PROVE  /\ Request \in Headers /\ Request.cmd = CmdConnect
         /\ Request.token = <<conf.client.uuid, conf.client.key>>
         /\ Canonical(HostText(Request.atyp, Request.addr)) = Host
         /\ Decimal(conf.dest.port) \in Nat
         /\ Word(Request.port, Decimal(conf.dest.port))
<1> DEFINE dest == EncodeDest(Host)
           token == DeriveToken(Config.uuid, Hash(Key))
           port == ParsePort(conf.dest.port)
<1>1. Proper(Host)
  BY HostShape
<1>2. token = <<conf.client.uuid, conf.client.key>>
  BY URIUsable DEF DeriveToken, Hash
<1>3. conf.client.uuid \in Byte /\ conf.client.key \in Byte /\ TokenLen = 2
  BY EstablishAssumption DEF Configured
<1>4. token \in Seq(Byte) /\ Len(token) = TokenLen
  <2> HIDE DEF token
  <2>1. QED
    BY <1>2, <1>3
<1>5. conf.dest.port \in Seq(0 .. 9)
  BY EstablishAssumption DEF Configured
<1>6. Decimal(conf.dest.port) \in Nat /\ Word(port, Decimal(conf.dest.port))
  BY <1>5, PortIsDecimal
<1>7. port \in Port
  <2> HIDE DEF port
  <2>1. QED
    BY <1>6, WordIsPort
<1>8. dest.atyp \in Atyps /\ dest.addr \in Seq(Byte) /\ Len(dest.addr) \in AddrLens(dest.atyp)
  <2>1. CASE Host.isIP
    <3>1. To4(Host.val) \in Seq(Byte) /\ Len(To4(Host.val)) \in {V4Len, V6Len}
      BY <1>1, <2>1, To4Shape DEF Proper
    <3>2. /\ dest.addr = To4(Host.val)
          /\ dest.atyp = IF Len(To4(Host.val)) = V4Len THEN AtypIPv4 ELSE AtypIPv6
      BY <2>1 DEF EncodeDest
    <3> HIDE DEF dest
    <3>3. QED
      BY <3>1, <3>2 DEF AddrLens, Atyps, AtypIPv4, AtypIPv6
  <2>2. CASE ~Host.isIP
    <3>1. dest.addr = Host.val /\ dest.atyp = AtypDomain
      BY <2>2 DEF EncodeDest
    <3>2. Host.val \in Seq(Byte) /\ Len(Host.val) \in 1 .. MaxByte
      BY <1>1, <2>2 DEF Proper, DestEncodable
    <3> HIDE DEF dest
    <3>3. QED
      BY <3>1, <3>2 DEF AddrLens, Atyps, AtypIPv4, AtypIPv6, AtypDomain
  <2>3. QED
    BY <2>1, <2>2
<1>9. Request = [version |-> HeaderVersion, token |-> token, cmd |-> CmdConnect,
                 atyp |-> dest.atyp, addr |-> dest.addr, port |-> port]
  BY DEF Request
<1>10. HostText(dest.atyp, dest.addr) = Host
  <2>1. HostText(dest.atyp, dest.addr) = IF Host.isIP THEN IPText(Host.val) ELSE Host
    BY <1>1, DestinationSurvives DEF Proper
  <2>2. QED
    BY <1>1, <2>1 DEF Proper
<1>11. Canonical(Host) = Host
  BY <1>1 DEF Canonical, Proper
<1> HIDE DEF dest, token, port
<1>12. CmdConnect \in Cmds
  BY DEF CmdConnect, Cmds
<1>13. Request \in Headers
  BY <1>4, <1>7, <1>8, <1>9, <1>12 DEF Headers
<1>14. QED
  BY <1>2, <1>6, <1>9, <1>10, <1>11, <1>13

-----------------------------------------------------------------------------
(* The inductive invariant.                                                *)

Carried == Shaped(up) /\ Shaped(down) /\ got \in [up : Seq(Byte), down : Seq(Byte)]

UpText == got.up \o InFlight(up)
DownText == got.down \o InFlight(down)

Hello(key) == FrameHeader(Msg1(key)) \o Msg1(key)
Reply(key) == FrameHeader(Msg2(key)) \o Msg2(key)

\* Where the two programs are.
Control ==
  /\ cpc \in {"uri", "dial", "hello", "hello_body", "reply", "header", "tunnel",
              "failed"}
  /\ spc \in {"idle", "frame", "answer", "answer_body", "header", "connect",
              "tunnel", "closed"}
  /\ sent \in 0 .. Len(Payload) /\ cause \in {"none", "lost", "gave_up"}
  /\ cpc = "dial" => Usable
  /\ cpc \notin {"uri", "dial", "failed"} \/ spc /= "idle" => Ready
  /\ cpc \in {"uri", "dial"} => spc = "idle"

\* What the client has written, read or not.
UpLog ==
  /\ cpc \in {"uri", "dial", "hello"} => UpText = <<>>
  /\ cpc = "hello_body" => UpText = FrameHeader(Msg1(Key))
  /\ cpc \in {"reply", "header"} => UpText = Hello(Key)
  /\ cpc = "tunnel" => UpText = (Hello(Key) \o Encode(Request)) \o SubSeq(Payload, 1, sent)
  /\ cpc = "failed" => \/ UpText = <<>> \/ UpText = FrameHeader(Msg1(Key))
                       \/ UpText = Hello(Key)
  /\ cpc /= "tunnel" => sent = 0

\* What the server has written, read or not.
DownLog ==
  /\ spc \in {"idle", "frame", "answer"} => DownText = <<>>
  /\ spc = "answer_body" => DownText = FrameHeader(Msg2(conf.server.key))
  /\ spc \in {"header", "connect", "tunnel"} => DownText = Reply(conf.server.key)
  /\ spc = "closed" => \/ DownText = <<>> \/ DownText = FrameHeader(Msg2(conf.server.key))
                       \/ DownText = Reply(conf.server.key)

\* What the server has read and verified.
Reached ==
  /\ spc \in {"answer", "answer_body", "header", "connect", "tunnel"} =>
       Len(got.up) >= 4 /\ Key = conf.server.key
  /\ spc \in {"connect", "tunnel"} =>
       /\ cpc = "tunnel" /\ conf.client.uuid = conf.server.uuid
       /\ Len(got.up) >= 4 + Len(Encode(Request))

Held == Matching /\ cause = "none" => cpc /= "failed" /\ spc /= "closed"

Inv == Configured /\ Carried /\ Control /\ UpLog /\ DownLog /\ Reached /\ Held

-----------------------------------------------------------------------------
\* What follows from the installations, the URI and the destination alone
\* stays as it is.
LEMMA Rigid ==
  ASSUME conf' = conf
  PROVE  /\ Configured' = Configured /\ Usable' = Usable /\ Ready' = Ready
         /\ Matching' = Matching /\ Key' = Key /\ Host' = Host /\ Request' = Request
<1>1. URI' = URI
  BY DEF URI, Edited
<1>2. Config' = Config
  BY <1>1 DEF Config
<1>3. Key' = Key
  BY <1>2 DEF Key
<1>4. Host' = Host
  BY DEF Host
<1>5. Request' = Request
  BY <1>2, <1>3, <1>4 DEF Request
<1>6. Usable' = Usable
  BY <1>1, <1>2 DEF Usable
<1>7. Ready' = Ready
  BY <1>2, <1>4, <1>6 DEF Ready, Admitted
<1>8. Configured' = Configured /\ Matching' = Matching
  BY DEF Configured, Matching
<1>9. QED
  BY <1>3, <1>4, <1>5, <1>6, <1>7, <1>8

\* The frames of the handshake have two bytes of length and two of message.
LEMMA Messages ==
  ASSUME Configured
  PROVE  /\ \A k \in Byte : /\ Msg1(k) \in Seq(Byte) /\ Msg2(k) \in Seq(Byte)
                            /\ Len(Msg1(k)) = 2 /\ Len(Msg2(k)) = 2
                            /\ FrameHeader(Msg1(k)) \in Seq(Byte)
                            /\ FrameHeader(Msg2(k)) \in Seq(Byte)
                            /\ Len(FrameHeader(Msg1(k))) = 2
                            /\ Len(FrameHeader(Msg2(k))) = 2
                            /\ Hello(k) \in Seq(Byte) /\ Len(Hello(k)) = 4
                            /\ Reply(k) \in Seq(Byte) /\ Len(Reply(k)) = 4
         /\ conf.server.key \in Byte /\ conf.client.key \in Byte
<1>1. ASSUME NEW k \in Byte, NEW n \in {1, 2}
      PROVE  /\ <<k, n>> \in Seq(Byte) /\ Len(<<k, n>>) = 2
             /\ FrameHeader(<<k, n>>) \in Seq(Byte) /\ Len(FrameHeader(<<k, n>>)) = 2
             /\ FrameHeader(<<k, n>>) \o <<k, n>> \in Seq(Byte)
             /\ Len(FrameHeader(<<k, n>>) \o <<k, n>>) = 4
  <2>1. n \in Byte
    BY Bounds DEF Byte
  <2>2. <<k, n>> \in Seq(Byte) /\ Len(<<k, n>>) = 2
    BY <2>1
  <2> DEFINE m == <<k, n>>
             h == FrameHeader(m)
  <2>3. h = <<0, 2>>
    <3>1. Len(m) = 2
      BY <2>2
    <3>2. h = <<Len(m) \div 256, Len(m) % 256>>
      BY DEF FrameHeader
    <3> HIDE DEF m, h
    <3>3. QED
      BY <3>1, <3>2
  <2>4. h \in Seq(Byte) /\ Len(h) = 2
    <3>1. 0 \in Byte /\ 2 \in Byte
      BY Bounds DEF Byte
    <3> HIDE DEF h
    <3>2. QED
      BY <2>3, <3>1
  <2> HIDE DEF m, h
  <2>5. h \o m \in Seq(Byte) /\ Len(h \o m) = 4
    <3>1. m \in Seq(Byte) /\ Len(m) = 2
      BY <2>2 DEF m
    <3>2. h \o m \in Seq(Byte) /\ Len(h \o m) = Len(h) + Len(m)
      BY <2>4, <3>1, ConcatProperties
    <3>3. QED
      BY <2>4, <3>1, <3>2
  <2>6. QED
    BY <2>2, <2>4, <2>5 DEF m, h
<1>2. conf.server.key \in Byte /\ conf.client.key \in Byte
  BY EstablishAssumption DEF Configured
<1>3. QED
  BY <1>1, <1>2 DEF Msg1, Msg2, Hello, Reply

-----------------------------------------------------------------------------
(* What steps do to the carrier.                                           *)

\* What has been read and what is in flight are what has been written.
LEMMA Texts ==
  ASSUME Carried
  PROVE  /\ InFlight(up) \in Seq(Byte) /\ got.up \in Seq(Byte)
         /\ InFlight(down) \in Seq(Byte) /\ got.down \in Seq(Byte)
         /\ Cut(UpText, got.up, InFlight(up)) /\ Cut(DownText, got.down, InFlight(down))
<1>1. InFlight(up) \in Seq(Byte) /\ InFlight(down) \in Seq(Byte)
  BY PipeParts DEF Carried, Shaped
<1>2. QED
  BY <1>1 DEF Carried, Cut, UpText, DownText

\* A write of the client adds to what it has written, and nothing else
\* changes.
LEMMA WroteUp ==
  ASSUME Carried, NEW bytes \in Seq(Byte), WriteUp(bytes), conf' = conf
  PROVE  /\ Carried' /\ got' = got /\ down' = down
         /\ UpText' = UpText \o bytes /\ DownText' = DownText
         /\ InFlight(up)' = InFlight(up) \o bytes
<1>1. up' = Written(up, bytes) /\ got' = got /\ down' = down
  BY DEF WriteUp
<1>2. Shaped(up) /\ Shaped(down) /\ got \in [up : Seq(Byte), down : Seq(Byte)]
  BY DEF Carried
<1>3. Shaped(Written(up, bytes)) /\ InFlight(Written(up, bytes)) = InFlight(up) \o bytes
  BY <1>2, WriteAppends
<1>4. Shaped(up)' /\ Shaped(down)'
  BY <1>1, <1>2, <1>3 DEF Shaped
<1>5. InFlight(up)' = InFlight(up) \o bytes
  BY <1>1, <1>3
<1>6. UpText' = UpText \o bytes
  <2>1. Cut(UpText \o bytes, got.up, InFlight(up) \o bytes)
    BY Texts, CutGrows
  <2>2. UpText' = got.up \o InFlight(up)'
    BY <1>1 DEF UpText
  <2>3. QED
    BY <1>5, <2>1, <2>2, Zenon DEF Cut
<1>7. DownText' = DownText
  BY <1>1 DEF DownText
<1>8. QED
  BY <1>1, <1>2, <1>4, <1>5, <1>6, <1>7 DEF Carried

\* A write of the server does the same.
LEMMA WroteDown ==
  ASSUME Carried, NEW bytes \in Seq(Byte), WriteDown(bytes), conf' = conf
  PROVE  /\ Carried' /\ got' = got /\ up' = up
         /\ DownText' = DownText \o bytes /\ UpText' = UpText
         /\ InFlight(down)' = InFlight(down) \o bytes
<1>1. down' = Written(down, bytes) /\ got' = got /\ up' = up
  BY DEF WriteDown
<1>2. Shaped(up) /\ Shaped(down) /\ got \in [up : Seq(Byte), down : Seq(Byte)]
  BY DEF Carried
<1>3. Shaped(Written(down, bytes)) /\ InFlight(Written(down, bytes)) = InFlight(down) \o bytes
  BY <1>2, WriteAppends
<1>4. Shaped(up)' /\ Shaped(down)'
  BY <1>1, <1>2, <1>3 DEF Shaped
<1>5. InFlight(down)' = InFlight(down) \o bytes
  BY <1>1, <1>3
<1>6. DownText' = DownText \o bytes
  <2>1. Cut(DownText \o bytes, got.down, InFlight(down) \o bytes)
    BY Texts, CutGrows
  <2>2. DownText' = got.down \o InFlight(down)'
    BY <1>1 DEF DownText
  <2>3. QED
    BY <1>5, <2>1, <2>2, Zenon DEF Cut
<1>7. UpText' = UpText
  BY <1>1 DEF UpText
<1>8. QED
  BY <1>1, <1>2, <1>4, <1>5, <1>6, <1>7 DEF Carried

\* The beginning of f moves from there to the end of g.
Moved(f, g, f2, g2) ==
  \E n \in 0 .. Len(f) : g2 = g \o SubSeq(f, 1, n) /\ f2 = After(f, n)

\* A read of the server moves bytes from the carrier to it.
LEMMA TookUp ==
  ASSUME Carried, NEW want \in Nat, ReadUp(want), conf' = conf
  PROVE  /\ Carried' /\ got.down' = got.down /\ down' = down
         /\ UpText' = UpText /\ DownText' = DownText /\ Len(got.up') >= Len(got.up)
         /\ Moved(InFlight(up), got.up, InFlight(up)', got.up')
<1> DEFINE f == InFlight(up)
           g == got.up
<1>1. PICK r \in Reads(up, want) :
        up' = r.left /\ got' = [got EXCEPT !.up = @ \o r.data] /\ down' = down
  BY DEF ReadUp
<1>2. Shaped(up) /\ Shaped(down) /\ got \in [up : Seq(Byte), down : Seq(Byte)]
  BY DEF Carried
<1>3. PICK n \in 0 .. Len(f) : r.data = SubSeq(f, 1, n) /\ InFlight(r.left) = After(f, n)
  BY <1>2, ReadTakes
<1>4. Shaped(r.left)
  BY <1>2, ReadTakes
<1>5. Shaped(up)' /\ Shaped(down)'
  BY <1>1, <1>2, <1>4 DEF Shaped
<1>6. got.up' = g \o r.data /\ got.down' = got.down
  BY <1>1, <1>2
<1>7. f \in Seq(Byte) /\ g \in Seq(Byte) /\ Cut(UpText, g, f)
  BY Texts
<1> HIDE DEF f, g
<1>8. /\ r.data \in Seq(Byte) /\ Cut(UpText, g \o r.data, After(f, n))
  BY <1>3, <1>7, SplitAt, CutMoves DEF After
<1>9. g \o r.data \in Seq(Byte) /\ Len(g \o r.data) >= Len(g)
  <2>1. g \o r.data \in Seq(Byte) /\ Len(g \o r.data) = Len(g) + Len(r.data)
    BY <1>7, <1>8, ConcatProperties
  <2>2. Len(g) \in Nat /\ Len(r.data) \in Nat
    BY <1>7, <1>8
  <2>3. QED
    BY <2>1, <2>2
<1>10. got' \in [up : Seq(Byte), down : Seq(Byte)]
  BY <1>1, <1>2, <1>9 DEF g
<1>11. UpText' = UpText
  <2>1. InFlight(up)' = After(f, n)
    BY <1>1, <1>3
  <2>2. UpText' = got.up' \o InFlight(up)'
    BY DEF UpText
  <2>3. QED
    BY <1>6, <1>8, <2>1, <2>2 DEF Cut
<1>12. DownText' = DownText
  BY <1>1, <1>6 DEF DownText
<1>13. Moved(f, g, InFlight(up)', got.up')
  BY <1>1, <1>3, <1>6 DEF Moved
<1>14. QED
  BY <1>1, <1>5, <1>6, <1>9, <1>10, <1>11, <1>12, <1>13 DEF Carried, f, g

\* A read of the client does the same.
LEMMA TookDown ==
  ASSUME Carried, NEW want \in Nat, ReadDown(want), conf' = conf
  PROVE  /\ Carried' /\ got.up' = got.up /\ up' = up
         /\ DownText' = DownText /\ UpText' = UpText /\ Len(got.down') >= Len(got.down)
         /\ Moved(InFlight(down), got.down, InFlight(down)', got.down')
<1> DEFINE f == InFlight(down)
           g == got.down
<1>1. PICK r \in Reads(down, want) :
        down' = r.left /\ got' = [got EXCEPT !.down = @ \o r.data] /\ up' = up
  BY DEF ReadDown
<1>2. Shaped(up) /\ Shaped(down) /\ got \in [up : Seq(Byte), down : Seq(Byte)]
  BY DEF Carried
<1>3. PICK n \in 0 .. Len(f) : r.data = SubSeq(f, 1, n) /\ InFlight(r.left) = After(f, n)
  BY <1>2, ReadTakes
<1>4. Shaped(r.left)
  BY <1>2, ReadTakes
<1>5. Shaped(up)' /\ Shaped(down)'
  BY <1>1, <1>2, <1>4 DEF Shaped
<1>6. got.down' = g \o r.data /\ got.up' = got.up
  BY <1>1, <1>2
<1>7. f \in Seq(Byte) /\ g \in Seq(Byte) /\ Cut(DownText, g, f)
  BY Texts
<1> HIDE DEF f, g
<1>8. /\ r.data \in Seq(Byte) /\ Cut(DownText, g \o r.data, After(f, n))
  BY <1>3, <1>7, SplitAt, CutMoves DEF After
<1>9. g \o r.data \in Seq(Byte) /\ Len(g \o r.data) >= Len(g)
  <2>1. g \o r.data \in Seq(Byte) /\ Len(g \o r.data) = Len(g) + Len(r.data)
    BY <1>7, <1>8, ConcatProperties
  <2>2. Len(g) \in Nat /\ Len(r.data) \in Nat
    BY <1>7, <1>8
  <2>3. QED
    BY <2>1, <2>2
<1>10. got' \in [up : Seq(Byte), down : Seq(Byte)]
  BY <1>1, <1>2, <1>9 DEF g
<1>11. DownText' = DownText
  <2>1. InFlight(down)' = After(f, n)
    BY <1>1, <1>3
  <2>2. DownText' = got.down' \o InFlight(down)'
    BY DEF DownText
  <2>3. QED
    BY <1>6, <1>8, <2>1, <2>2 DEF Cut
<1>12. UpText' = UpText
  BY <1>1, <1>6 DEF UpText
<1>13. Moved(f, g, InFlight(down)', got.down')
  BY <1>1, <1>3, <1>6 DEF Moved
<1>14. QED
  BY <1>1, <1>5, <1>6, <1>9, <1>10, <1>11, <1>12, <1>13 DEF Carried, f, g

-----------------------------------------------------------------------------
(* What the readers find.                                                  *)

\* Nothing has been written, or the first of two parts, or both.
Partly(w, a, b) == w = <<>> \/ w = a \/ Cut(w, a, b)

\* The first part of a cut is a beginning.
LEMMA CutBegins ==
  ASSUME NEW S, NEW s, NEW p \in Seq(S), NEW q \in Seq(S), Cut(s, p, q)
  PROVE  Agree(p, s) /\ Len(p) <= Len(s)
<1>1. \A i \in 1 .. Len(p) : (p \o q)[i] = p[i]
  BY Joined
<1>2. \A i \in 1 .. Len(p) : s[i] = p[i]
  BY <1>1, Zenon DEF Cut
<1>3. Len(s) = Len(p) + Len(q) /\ Len(p) \in Nat /\ Len(q) \in Nat
  BY CutSizes
<1>4. QED
  BY <1>2, <1>3 DEF Agree

\* What has been read of it agrees with the two parts.
LEMMA ReadBegins ==
  ASSUME NEW S, NEW p \in Seq(S), NEW q \in Seq(S), NEW a \in Seq(S), NEW b \in Seq(S),
         NEW w, Cut(w, p, q), Partly(w, a, b)
  PROVE  Agree(p, a \o b) /\ Len(p) <= Len(a \o b)
<1> DEFINE f == a \o b
<1>1. f \in Seq(S) /\ Len(f) = Len(a) + Len(b) /\ Len(a) \in Nat /\ Len(b) \in Nat
  BY ConcatProperties
<1>2. w \in Seq(S) /\ Len(w) = Len(p) + Len(q) /\ Len(p) \in Nat /\ Len(q) \in Nat
  BY CutSizes, Zenon
<1> HIDE DEF f
<1>4. CASE w = <<>>
  <2>1. Len(p) = 0
    BY <1>2, <1>4
  <2>2. QED
    BY <1>1, <2>1 DEF Agree, f
<1>5. ASSUME NEW q2 \in Seq(S), Cut(f, p, q2)
      PROVE  Agree(p, f) /\ Len(p) <= Len(f)
  BY <1>5, CutBegins
<1>6. CASE w = a
  <2>1. Cut(a, p, q)
    BY <1>6
  <2>2. Cut(f, p, q \o b)
    BY <2>1, CutGrows DEF f
  <2>3. q \o b \in Seq(S)
    BY ConcatProperties
  <2>4. QED
    BY <1>5, <2>2, <2>3 DEF f
<1>7. CASE Cut(w, a, b)
  <2>1. Cut(f, p, q)
    BY <1>7 DEF Cut, f
  <2>2. QED
    BY <1>5, <2>1 DEF f
<1>8. QED
  BY <1>4, <1>6, <1>7 DEF Partly

\* A frame of two bytes, read as far as s.
LEMMA TwoByteFrame ==
  ASSUME NEW body \in Seq(Byte), Len(body) = 2, NEW s \in Seq(Byte),
         Agree(s, FrameHeader(body) \o body)
  PROVE  /\ FrameDone(s) <=> Len(s) >= 4
         /\ ~FrameDone(s) => FrameNeed(s) - Len(s) \in Nat
         /\ FrameDone(s) => FrameNeed(s) = 4 /\ FrameBody(s) = body
<1>1. Len(body) <= MaxPort
  BY Bounds
<1>2. /\ Len(s) < 2 + Len(body) => FrameNeed(s) \in Len(s) + 1 .. 2 + Len(body)
      /\ Len(s) >= 2 + Len(body) => FrameNeed(s) = 2 + Len(body) /\ FrameBody(s) = body
  BY <1>1, FrameRoundTrip
<1>3. Len(s) \in Nat
  OBVIOUS
<1> DEFINE need == FrameNeed(s)
           l == Len(s)
<1>4. /\ l < 4 => need \in l + 1 .. 4
      /\ l >= 4 => need = 4 /\ FrameBody(s) = body
  BY <1>2
<1>5. FrameDone(s) <=> l >= 2 /\ l >= need
  BY DEF FrameDone
<1>6. l \in Nat
  BY <1>3
<1> HIDE DEF need, l
<1>7. QED
  BY <1>4, <1>5, <1>6 DEF need, l

\* The client has read part of the answer, of which nothing else follows.
LEMMA ReplyRead ==
  ASSUME Configured, Carried, Control, DownLog
  PROVE  /\ FrameDone(got.down) <=> Len(got.down) >= 4
         /\ ~FrameDone(got.down) => FrameNeed(got.down) - Len(got.down) \in Nat
         /\ FrameDone(got.down) => FrameBody(got.down) = Msg2(conf.server.key)
<1> DEFINE m == Msg2(conf.server.key)
           h == FrameHeader(m)
<1>1. m \in Seq(Byte) /\ h \in Seq(Byte) /\ Len(m) = 2
  BY Messages
<1>2. Partly(DownText, h, m)
  BY DEF Control, DownLog, Partly, Cut, Reply
<1>3. /\ got.down \in Seq(Byte) /\ InFlight(down) \in Seq(Byte)
      /\ Cut(DownText, got.down, InFlight(down))
  BY Texts
<1> DEFINE g == got.down
           q == InFlight(down)
           w == DownText
<1>4. Agree(g, h \o m)
  <2> HIDE DEF g, q, w, h, m
  <2>1. g \in Seq(Byte) /\ q \in Seq(Byte) /\ Cut(w, g, q)
    BY <1>3 DEF g, q, w
  <2>2. Partly(w, h, m)
    BY <1>2 DEF w
  <2>3. QED
    BY <1>1, <2>1, <2>2, ReadBegins
<1>5. Agree(g, FrameHeader(m) \o m) /\ g \in Seq(Byte)
  BY <1>3, <1>4
<1> HIDE DEF m
<1>6. QED
  BY <1>1, <1>5, TwoByteFrame DEF m

\* Who dials has a key, a destination that fits, and a request.
LEMMA ReadyParts ==
  ASSUME Configured, Ready
  PROVE  /\ Usable /\ DestEncodable(Host) /\ Admitted
         /\ Key = conf.client.key /\ Key \in Byte
         /\ Request \in Headers /\ Encode(Request) \in Seq(Byte) /\ Len(Encode(Request)) > 0
<1>1. Usable /\ DestEncodable(Host) /\ Admitted
  BY DEF Ready
<1>2. Key = conf.client.key /\ Key \in Byte
  BY <1>1, URIUsable, Messages
<1>3. Request \in Headers
  BY <1>1, RequestShape
<1> DEFINE e == Encode(Request)
           n == Len(EncodeAddr(Request.atyp, Request.addr))
<1>4. e \in Seq(Byte) /\ Len(e) = PrefixLen + n + 2
  BY <1>3, EncodeShape
<1>5. n \in Nat
  BY <1>3, AddrShape
<1>6. PrefixLen \in Nat
  BY CodecAssumption DEF PrefixLen
<1> HIDE DEF e, n
<1>7. e \in Seq(Byte) /\ Len(e) > 0
  BY <1>4, <1>5, <1>6
<1>8. QED
  BY <1>1, <1>2, <1>3, <1>7 DEF e

\* What has been sent of the payload.
SentData == SubSeq(Payload, 1, sent)

\* The data that has been sent is so many bytes.
LEMMA SentShape ==
  ASSUME Control
  PROVE  SentData \in Seq(Byte) /\ Len(SentData) = sent /\ sent \in Nat
<1>1. Payload \in Seq(Byte) /\ sent \in 0 .. Len(Payload)
  BY EstablishAssumption DEF Control
<1>2. SubSeq(Payload, 1, sent) \in Seq(Byte) /\ Len(SubSeq(Payload, 1, sent)) = sent
  BY <1>1, SplitAt
<1>3. QED
  BY <1>1, <1>2 DEF SentData

\* The server has read part of the client's message, or that and more.
LEMMA HelloRead ==
  ASSUME Configured, Carried, Control, UpLog, spc /= "idle"
  PROVE  /\ Ready
         /\ FrameDone(got.up) <=> Len(got.up) >= 4
         /\ ~FrameDone(got.up) => FrameNeed(got.up) - Len(got.up) \in Nat
         /\ FrameDone(got.up) => FrameNeed(got.up) = 4 /\ FrameBody(got.up) = Msg1(Key)
         /\ cpc /= "tunnel" => Len(got.up) <= 4
<1>1. Ready
  BY DEF Control
<1>2. Key \in Byte /\ Encode(Request) \in Seq(Byte)
  BY <1>1, ReadyParts
<1> DEFINE m == Msg1(Key)
           h == FrameHeader(m)
           g == got.up
           q == InFlight(up)
           w == UpText
<1>3. m \in Seq(Byte) /\ h \in Seq(Byte) /\ Len(m) = 2 /\ Len(h \o m) = 4 /\ h \o m \in Seq(Byte)
  BY <1>2, Messages DEF Hello
<1>4. g \in Seq(Byte) /\ q \in Seq(Byte) /\ Cut(w, g, q)
  BY Texts
<1>5. Agree(g, h \o m) /\ (cpc /= "tunnel" => Len(g) <= 4)
  <2>1. CASE cpc /= "tunnel"
    <3>1. Partly(w, h, m)
      BY <2>1 DEF Control, UpLog, Partly, Cut, Hello
    <3> HIDE DEF m, h, g, q, w
    <3>2. Agree(g, h \o m) /\ Len(g) <= Len(h \o m)
      BY <1>3, <1>4, <3>1, ReadBegins
    <3>3. QED
      BY <1>3, <3>2
  <2>2. CASE cpc = "tunnel"
    <3> DEFINE e == Encode(Request)
               d == SentData
               f == h \o m
    <3>1. w = (f \o e) \o d
      BY <2>2 DEF UpLog, Hello, SentData
    <3>2. e \in Seq(Byte) /\ d \in Seq(Byte)
      BY <1>2, SentShape
    <3>3. f \in Seq(Byte)
      BY <1>3
    <3> HIDE DEF e, d, f, w, g, q, m, h
    <3>4. (f \o e) \o d = f \o (e \o d)
      BY <3>2, <3>3, ConcatAssociative
    <3>5. e \o d \in Seq(Byte)
      BY <3>2, ConcatProperties
    <3>6. \A i \in 1 .. Len(g) : i <= Len(f) => g[i] = f[i]
      <4> DEFINE t == e \o d
      <4>1. t \in Seq(Byte)
        BY <3>5
      <4>2. Cut(w, f, t)
        BY <3>1, <3>4, Zenon DEF Cut
      <4> HIDE DEF t
      <4>3. QED
        BY <1>4, <3>3, <4>1, <4>2, FirstPart
    <3>7. QED
      BY <2>2, <3>6 DEF Agree, f
  <2>3. QED
    BY <2>1, <2>2
<1> HIDE DEF m, h, g, q, w
<1>6. /\ FrameDone(g) <=> Len(g) >= 4
      /\ ~FrameDone(g) => FrameNeed(g) - Len(g) \in Nat
      /\ FrameDone(g) => FrameNeed(g) = 4 /\ FrameBody(g) = m
  BY <1>3, <1>4, <1>5, TwoByteFrame DEF h
<1>7. QED
  BY <1>1, <1>5, <1>6 DEF g, m

\* The server has read the whole message, and part of the header or all of it.
LEMMA HeaderRead ==
  ASSUME Configured, Carried, Control, UpLog, spc /= "idle", Len(got.up) >= 4
  PROVE  /\ ServerHeader \in Seq(Byte) /\ Len(ServerHeader) = Len(got.up) - 4
         /\ ~HeaderBad(ServerHeader)
         /\ HeaderDone <=> Len(got.up) >= 4 + Len(Encode(Request))
         /\ ~HeaderDone => HeaderNeed(ServerHeader) - Len(ServerHeader) \in Nat
         /\ HeaderDone => /\ cpc = "tunnel" /\ Decode(ServerHeader) = Request
                          /\ Delivered \in Seq(Byte) /\ Cut(SentData, Delivered, InFlight(up))
<1> DEFINE g == got.up
           q == InFlight(up)
           w == UpText
           e == Encode(Request)
           d == SentData
           s == ServerHeader
           f == Hello(Key)
           l == Len(e)
<1>1. Ready /\ Key \in Byte /\ Request \in Headers /\ e \in Seq(Byte) /\ l > 0 /\ l \in Nat
  BY HelloRead, ReadyParts
<1>2. /\ g \in Seq(Byte) /\ q \in Seq(Byte) /\ Cut(w, g, q)
      /\ d \in Seq(Byte) /\ f \in Seq(Byte) /\ Len(f) = 4
  BY <1>1, Texts, SentShape, Messages
<1>3. FrameNeed(g) = 4 /\ Len(g) \in Nat /\ 4 <= Len(g) /\ (cpc /= "tunnel" => Len(g) <= 4)
  BY HelloRead
<1>4. s = SubSeq(g, 5, Len(g))
  BY <1>3 DEF ServerHeader, After
<1>5. cpc = "tunnel" => w = (f \o e) \o d
  BY DEF UpLog, SentData
<1>6. HeaderDone <=> Len(s) >= HeaderNeed(s)
  BY DEF HeaderDone
<1>7. Delivered = SubSeq(s, HeaderNeed(s) + 1, Len(s))
  BY DEF Delivered, After
<1> HIDE DEF g, q, w, e, d, s, f
<1>8. s \in Seq(Byte) /\ Len(s) = Len(g) - 4
  <2>1. 4 \in 0 .. Len(g)
    BY <1>3
  <2>2. LET r == SubSeq(g, 4 + 1, Len(g)) IN r \in Seq(Byte) /\ Len(r) = Len(g) - 4
    BY <1>2, <2>1, SplitAt
  <2>3. QED
    BY <1>4, <2>2
<1>9. cpc = "tunnel" => Cut(e \o d, s, q)
  <2>1. SUFFICES ASSUME cpc = "tunnel" PROVE Cut(e \o d, s, q)
    OBVIOUS
  <2>2. (f \o e) \o d = f \o (e \o d) /\ e \o d \in Seq(Byte)
    <3>1. e \in Seq(Byte) /\ d \in Seq(Byte) /\ f \in Seq(Byte)
      BY <1>1, <1>2
    <3>2. e \o d \in Seq(Byte)
      BY <3>1, ConcatProperties
    <3>3. (f \o e) \o d = f \o (e \o d)
      BY <3>1, ConcatAssociative
    <3>4. QED
      BY <3>2, <3>3
  <2>3. Cut(w, f, e \o d)
    BY <1>5, <2>1, <2>2, Zenon DEF Cut
  <2>4. Len(g) >= Len(f)
    BY <1>2, <1>3
  <2>5. Cut(e \o d, SubSeq(g, Len(f) + 1, Len(g)), q)
    BY <1>2, <2>2, <2>3, <2>4, Remainder
  <2>6. SubSeq(g, Len(f) + 1, Len(g)) = s
    BY <1>2, <1>4
  <2>7. QED
    BY <2>5, <2>6
<1>10. Agree(s, e)
  <2>1. CASE cpc = "tunnel"
    <3>1. Cut(e \o d, e, d)
      BY DEF Cut
    <3>2. \A i \in 1 .. Len(s) : i <= Len(e) => s[i] = e[i]
      BY <1>1, <1>2, <1>8, <1>9, <2>1, <3>1, FirstPart
    <3>3. QED
      BY <3>2 DEF Agree
  <2>2. CASE cpc /= "tunnel"
    <3>1. Len(s) = 0
      BY <1>3, <1>8, <2>2
    <3>2. QED
      BY <3>1 DEF Agree
  <2>3. QED
    BY <2>1, <2>2
<1>11. /\ ~HeaderBad(s)
       /\ Len(s) < l => HeaderNeed(s) \in Len(s) + 1 .. l
       /\ Len(s) >= l => HeaderNeed(s) = l
  BY <1>1, <1>8, <1>10, ReadsExactly DEF e
<1>12. Len(s) >= l => Decode(s) = Request
  BY <1>1, <1>8, <1>10, HeaderRoundTrip DEF e
<1> HIDE DEF l
<1>13. /\ HeaderDone <=> Len(s) >= l
       /\ ~HeaderDone => HeaderNeed(s) - Len(s) \in Nat
       /\ HeaderDone <=> Len(g) >= 4 + l
  <2>1. Len(s) \in Nat /\ Len(g) \in Nat
    BY <1>2, <1>8
  <2> DEFINE k == Len(s)
             need == HeaderNeed(s)
  <2>2. /\ k < l => need \in k + 1 .. l
        /\ k >= l => need = l
        /\ HeaderDone <=> k >= need
        /\ k = Len(g) - 4
    BY <1>6, <1>8, <1>11
  <2>3. k \in Nat /\ l \in Nat /\ Len(g) \in Nat
    BY <1>1, <2>1
  <2> HIDE DEF k, need
  <2>4. QED
    BY <2>2, <2>3 DEF k, need
<1>14. ASSUME HeaderDone
       PROVE  cpc = "tunnel" /\ Decode(s) = Request
              /\ Delivered \in Seq(Byte) /\ Cut(d, Delivered, q)
  <2>1. cpc = "tunnel"
    BY <1>1, <1>3, <1>8, <1>13, <1>14
  <2>2. Decode(s) = Request /\ HeaderNeed(s) = l /\ Len(s) >= l
    BY <1>11, <1>12, <1>13, <1>14
  <2>3. Delivered = SubSeq(s, Len(e) + 1, Len(s)) /\ Len(s) >= Len(e)
    BY <1>7, <2>2 DEF l
  <2>4. Cut(e \o d, e, d) /\ Cut(e \o d, s, q)
    BY <1>9, <2>1 DEF Cut
  <2>5. LET r == SubSeq(s, Len(e) + 1, Len(s)) IN r \in Seq(Byte) /\ Cut(d, r, q)
    BY <1>1, <1>2, <1>8, <2>3, <2>4, Remainder
  <2>6. QED
    BY <2>1, <2>2, <2>3, <2>5
<1>15. QED
  BY <1>8, <1>11, <1>13, <1>14 DEF s, g, d, q, e, l

-----------------------------------------------------------------------------
(* What matches, and what steps leave alone.                               *)

\* A matching client gets as far as dialling, with the server's key.
LEMMA MatchingReady ==
  ASSUME Configured, Matching
  PROVE  Ready /\ Key = conf.server.key /\ conf.client.uuid = conf.server.uuid
<1>1. Legible /\ conf.trusted /\ conf.client.key = conf.server.key
      /\ conf.client.uuid = conf.server.uuid
  BY DEF Matching, Legible
<1>2. Usable /\ Key = conf.client.key /\ Config.params["sni"] = conf.client.decoy
  BY <1>1, URIUsable
<1>3. DestEncodable(Host)
  BY HostShape DEF Matching
<1>4. conf.carrier = "tcp" => conf.server.decoy \in {{}, conf.client.decoy}
  BY DEF Matching
<1>5. Admitted
  BY <1>1, <1>2, <1>4 DEF Admitted
<1>6. QED
  BY <1>1, <1>2, <1>3, <1>5 DEF Ready

\* A step that leaves the carrier alone leaves what has been written and read.
LEMMA Quiet ==
  ASSUME Carried, conf' = conf, UNCHANGED <<up, down, got>>
  PROVE  Carried' /\ UpText' = UpText /\ DownText' = DownText /\ got' = got
BY DEF Carried, Shaped, UpText, DownText

\* A step at which the client does not write keeps its log.
LEMMA UpLogKept ==
  ASSUME UpLog, conf' = conf, UpText' = UpText, sent' = sent,
         \/ cpc' = cpc
         \/ cpc = "uri" /\ cpc' = "dial"
         \/ cpc = "dial" /\ cpc' = "hello"
         \/ cpc = "reply" /\ cpc' = "header"
         \/ cpc' = "failed" /\ cpc \in {"uri", "dial", "hello", "hello_body", "reply", "header"}
  PROVE  UpLog'
<1> DEFINE k == Key
           e == Encode(Request)
           w == UpText
<1>1. k' = k /\ e' = e /\ w' = w
  BY Rigid
<1>2. Hello(k)' = Hello(k) /\ FrameHeader(Msg1(k))' = FrameHeader(Msg1(k))
  BY <1>1
<1> HIDE DEF k, e, w
<1>3. QED
  BY <1>1, <1>2 DEF UpLog, k, e, w

\* A step at which the server does not write keeps its log.
LEMMA DownLogKept ==
  ASSUME DownLog, conf' = conf, DownText' = DownText,
         \/ spc' = spc
         \/ spc = "idle" /\ spc' = "frame"
         \/ spc = "frame" /\ spc' = "answer"
         \/ spc = "header" /\ spc' = "connect"
         \/ spc = "connect" /\ spc' = "tunnel"
         \/ spc' = "closed" /\ spc \in {"idle", "frame", "answer", "answer_body", "header",
                                        "connect", "tunnel"}
  PROVE  DownLog'
BY DEF DownLog

\* What the server has verified stays verified.
LEMMA ReachedKept ==
  ASSUME Configured, Carried, Control, Reached, conf' = conf, Carried', Len(got.up') >= Len(got.up),
         cpc' = cpc \/ cpc /= "tunnel",
         \/ spc' = spc
         \/ spc' \in {"idle", "frame", "closed"}
         \/ spc = "answer" /\ spc' = "answer_body"
         \/ spc = "answer_body" /\ spc' = "header"
         \/ spc = "connect" /\ spc' = "tunnel"
  PROVE  Reached'
<1> DEFINE n == Len(got.up)
           l == Len(Encode(Request))
           k == Key
<1>1. k' = k /\ l' = l
  BY Rigid
<1>2. n \in Nat /\ n' \in Nat /\ n' >= n
  BY DEF Carried
<1>3. /\ spc \in {"answer", "answer_body", "header", "connect", "tunnel"} =>
           n >= 4 /\ k = conf.server.key
      /\ spc \in {"connect", "tunnel"} =>
           cpc = "tunnel" /\ conf.client.uuid = conf.server.uuid /\ n >= 4 + l
  BY DEF Reached
<1>4. spc \in {"connect", "tunnel"} => l \in Nat
  BY ReadyParts DEF Control
<1> HIDE DEF n, l, k
<1>5. QED
  BY <1>1, <1>2, <1>3, <1>4 DEF Reached, n, l, k

-----------------------------------------------------------------------------
(* Init and the steps.                                                     *)

\* The invariant holds when neither program has done anything.
LEMMA InitInv == Init => Inv
<1> SUFFICES ASSUME Init PROVE Inv
  OBVIOUS
<1>1. Configured
  BY DEF Init, Configured
<1>2. InFlight(Empty) = <<>> /\ Empty \in Pipe /\ Empty.msgs = <<>>
  <2>1. FlattenSeq(<<>>) = <<>>
    BY FlattenEmpty
  <2>2. <<>> \in Seq(Byte) /\ <<>> \in Seq(Seq(Byte))
    OBVIOUS
  <2>3. QED
    BY <2>1, <2>2 DEF Empty, Pipe, InFlight
<1>3. Carried /\ UpText = <<>> /\ DownText = <<>>
  BY <1>2 DEF Init, Carried, Shaped, UpText, DownText
<1>4. Control /\ UpLog /\ DownLog /\ Reached /\ Held
  <2>1. Len(Payload) \in Nat
    BY EstablishAssumption
  <2>2. QED
    BY <1>3, <2>1 DEF Init, Control, UpLog, DownLog, Reached, Held
<1>5. QED
  BY <1>1, <1>3, <1>4 DEF Inv

-----------------------------------------------------------------------------
(* Steps that leave the carrier alone.                                     *)

\* What it takes for such a step to preserve the invariant.
LEMMA QuietStep ==
  ASSUME Inv, conf' = conf, sent' = sent, UNCHANGED <<up, down, got>>, Control', Held',
         \/ cpc' = cpc
         \/ cpc = "uri" /\ cpc' = "dial"
         \/ cpc = "dial" /\ cpc' = "hello"
         \/ cpc = "reply" /\ cpc' = "header"
         \/ cpc' = "failed" /\ cpc \in {"uri", "dial", "hello", "hello_body", "reply", "header"},
         \/ spc' = spc
         \/ spc = "idle" /\ spc' = "frame"
         \/ spc = "frame" /\ spc' = "answer" /\ Reached'
         \/ spc = "header" /\ spc' = "connect" /\ Reached'
         \/ spc = "connect" /\ spc' = "tunnel"
         \/ spc' = "closed" /\ spc \in {"idle", "frame", "answer", "answer_body", "header",
                                        "connect", "tunnel"}
  PROVE  Inv'
<1>1. Configured /\ Carried /\ Control /\ UpLog /\ DownLog /\ Reached
  BY DEF Inv
<1>2. Carried' /\ UpText' = UpText /\ DownText' = DownText /\ got' = got
  BY <1>1, Quiet
<1>3. Configured'
  BY <1>1, Rigid
<1>4. UpLog'
  BY <1>1, <1>2, UpLogKept
<1>5. DownLog'
  BY <1>1, <1>2, DownLogKept
<1>6. Len(got.up') >= Len(got.up)
  <2>1. Len(got.up) \in Nat
    BY <1>1 DEF Carried
  <2>2. QED
    BY <1>2, <2>1
<1>7. Reached'
  BY <1>1, <1>2, <1>6, ReachedKept
<1>8. QED
  BY <1>2, <1>3, <1>4, <1>5, <1>7 DEF Inv

\* The client gets past its URI just when it is usable.
LEMMA ParseURIStep == Inv /\ ParseURI => Inv'
<1> SUFFICES ASSUME Inv, ParseURI PROVE Inv'
  OBVIOUS
<1>1. /\ cpc = "uri" /\ cpc' = IF Usable THEN "dial" ELSE "failed"
      /\ UNCHANGED <<conf, spc, sent, cause, up, down, got>>
  BY DEF ParseURI, ClientGoes, Usable
<1>2. Control /\ Held /\ Configured
  BY DEF Inv
<1>3. Usable' = Usable /\ Ready' = Ready /\ Matching' = Matching
  BY <1>1, Rigid
<1>4. Control'
  BY <1>1, <1>2, <1>3 DEF Control
<1>5. Matching => Usable
  BY <1>2, MatchingReady DEF Ready
<1>6. Held'
  BY <1>1, <1>2, <1>3, <1>5 DEF Held
<1>7. QED
  BY <1>1, <1>4, <1>6, QuietStep

\* It dials just when it is ready.
LEMMA DialStep == Inv /\ (Dial \/ DialFail) => Inv'
<1> SUFFICES ASSUME Inv, Dial \/ DialFail PROVE Inv'
  OBVIOUS
<1>1. Control /\ Held /\ Configured
  BY DEF Inv
<1>2. conf' = conf
  BY DEF Dial, DialFail, ClientGoes
<1>3. Usable' = Usable /\ Ready' = Ready /\ Matching' = Matching
  BY <1>2, Rigid
<1>4. CASE Dial
  <2>1. /\ cpc = "dial" /\ cpc' = "hello" /\ spc' = "frame" /\ DestEncodable(Host) /\ Admitted
        /\ UNCHANGED <<sent, cause, up, down, got>>
    BY <1>4 DEF Dial
  <2>2. spc = "idle" /\ Ready
    BY <1>1, <2>1 DEF Control, Ready
  <2>3. Control'
    BY <1>1, <1>3, <2>1, <2>2 DEF Control
  <2>4. Held'
    BY <1>1, <1>3, <2>1, <2>2 DEF Held
  <2>5. QED
    BY <1>2, <2>1, <2>2, <2>3, <2>4, QuietStep
<1>5. CASE DialFail
  <2>1. /\ cpc = "dial" /\ cpc' = "failed" /\ UNCHANGED <<spc, sent, cause, up, down, got>>
        /\ cause = "lost" \/ ~Ready
    BY <1>5 DEF DialFail, ClientGoes, Ready
  <2>2. Control'
    BY <1>1, <1>3, <2>1 DEF Control
  <2>3. Held'
    BY <1>1, <1>3, <2>1, MatchingReady DEF Held
  <2>4. QED
    BY <1>2, <2>1, <2>2, <2>3, QuietStep
<1>6. QED
  BY <1>4, <1>5

\* It goes on just when the answer is that of its key.
LEMMA ClientReplyStep == Inv /\ ClientReply => Inv'
<1> SUFFICES ASSUME Inv, ClientReply PROVE Inv'
  OBVIOUS
<1>1. Configured /\ Carried /\ Control /\ DownLog /\ Held
  BY DEF Inv
<1>2. /\ cpc = "reply" /\ FrameDone(got.down)
      /\ cpc' = IF FrameBody(got.down) = Msg2(Key) THEN "header" ELSE "failed"
      /\ UNCHANGED <<conf, spc, sent, cause, up, down, got>>
  BY DEF ClientReply, ClientGoes
<1>3. FrameBody(got.down) = Msg2(conf.server.key)
  BY <1>1, <1>2, ReplyRead
<1>4. Ready' = Ready /\ Usable' = Usable /\ Matching' = Matching
  BY <1>2, Rigid
<1>5. Control'
  BY <1>1, <1>2, <1>4 DEF Control
<1>6. Matching => Key = conf.server.key
  BY <1>1, MatchingReady
<1>7. Matching => cpc' = "header"
  BY <1>2, <1>3, <1>6
<1>8. Held'
  BY <1>1, <1>2, <1>4, <1>7 DEF Held
<1>9. QED
  BY <1>2, <1>5, <1>8, QuietStep

\* It fails because of the connection or the server.
LEMMA ClientFailStep == Inv /\ ClientFail => Inv'
<1> SUFFICES ASSUME Inv, ClientFail PROVE Inv'
  OBVIOUS
<1>1. Configured /\ Control /\ Held
  BY DEF Inv
<1>2. /\ cpc \in {"hello", "hello_body", "reply", "header"} /\ cpc' = "failed"
      /\ UNCHANGED <<conf, spc, sent, cause, up, down, got>>
      /\ (cpc = "header" /\ Request \notin Headers) \/ cause = "lost" \/ spc = "closed"
  BY DEF ClientFail, ClientGoes
<1>3. Ready' = Ready /\ Usable' = Usable /\ Matching' = Matching
  BY <1>2, Rigid
<1>4. Request \in Headers
  BY <1>1, <1>2, ReadyParts DEF Control
<1>5. Control'
  BY <1>1, <1>2, <1>3 DEF Control
<1>6. Held'
  BY <1>1, <1>2, <1>3, <1>4 DEF Held
<1>7. QED
  BY <1>2, <1>5, <1>6, QuietStep

\* The server answers just the owner of its key.
LEMMA ServerHelloStep == Inv /\ ServerHello => Inv'
<1> SUFFICES ASSUME Inv, ServerHello PROVE Inv'
  OBVIOUS
<1>1. Configured /\ Carried /\ Control /\ UpLog /\ Reached /\ Held
  BY DEF Inv
<1>2. /\ spc = "frame" /\ FrameDone(got.up)
      /\ spc' = IF FrameBody(got.up) = Msg1(conf.server.key) THEN "answer" ELSE "closed"
      /\ UNCHANGED <<conf, cpc, sent, cause, up, down, got>>
  BY DEF ServerHello, ServerGoes
<1>3. Len(got.up) >= 4 /\ FrameBody(got.up) = Msg1(Key)
  BY <1>1, <1>2, HelloRead
<1>4. Ready' = Ready /\ Usable' = Usable /\ Matching' = Matching /\ Key' = Key
  BY <1>2, Rigid
<1>5. Control'
  BY <1>1, <1>2, <1>4 DEF Control
<1>6. spc' = "answer" <=> Key = conf.server.key
  BY <1>2, <1>3 DEF Msg1
<1>7. Held'
  BY <1>1, <1>2, <1>4, <1>6, MatchingReady DEF Held
<1>8. spc' = "answer" => Reached'
  BY <1>2, <1>3, <1>4, <1>6 DEF Reached
<1>9. QED
  BY <1>2, <1>5, <1>7, <1>8, QuietStep

\* It connects just for its own UUID.
LEMMA ServerDecodeStep == Inv /\ ServerDecode => Inv'
<1> SUFFICES ASSUME Inv, ServerDecode PROVE Inv'
  OBVIOUS
<1>1. Configured /\ Carried /\ Control /\ UpLog /\ Reached /\ Held
  BY DEF Inv
<1> DEFINE h == Decode(ServerHeader)
           accepted == ~HeaderBad(ServerHeader) /\ TokenValid(h.token) /\ h.cmd = CmdConnect
<1>2. /\ spc = "header" /\ (HeaderBad(ServerHeader) \/ HeaderDone)
      /\ spc' = IF accepted THEN "connect" ELSE "closed"
      /\ UNCHANGED <<conf, cpc, sent, cause, up, down, got>>
  BY DEF ServerDecode, ServerGoes
<1>3. Len(got.up) >= 4 /\ Key = conf.server.key
  BY <1>1, <1>2 DEF Reached
<1>4. /\ ~HeaderBad(ServerHeader) /\ HeaderDone /\ cpc = "tunnel" /\ h = Request
      /\ Len(got.up) >= 4 + Len(Encode(Request))
  BY <1>1, <1>2, <1>3, HeaderRead
<1>5. Ready /\ Key = conf.client.key
  BY <1>1, <1>2, ReadyParts DEF Control
<1>6. h.token = <<conf.client.uuid, conf.client.key>> /\ h.cmd = CmdConnect
  BY <1>1, <1>4, <1>5, RequestShape DEF Ready
<1>7. accepted <=> conf.client.uuid = conf.server.uuid
  BY <1>3, <1>4, <1>5, <1>6 DEF TokenValid, DeriveToken, Hash
<1> HIDE DEF accepted, h
<1>8. /\ Ready' = Ready /\ Usable' = Usable /\ Matching' = Matching /\ Key' = Key
      /\ Request' = Request
  BY <1>2, Rigid
<1>9. Control'
  BY <1>1, <1>2, <1>8 DEF Control
<1>10. Held'
  BY <1>1, <1>2, <1>7, <1>8, MatchingReady DEF Held
<1>11. spc' = "connect" => Reached'
  <2>1. SUFFICES ASSUME spc' = "connect" PROVE Reached'
    OBVIOUS
  <2>2. conf.client.uuid = conf.server.uuid
    BY <1>2, <1>7, <2>1
  <2> DEFINE l == Len(Encode(Request))
  <2>3. l' = l
    BY <1>8
  <2>4. Len(got.up) >= 4 + l
    BY <1>4
  <2> HIDE DEF l
  <2>5. QED
    BY <1>2, <1>3, <1>4, <1>8, <2>2, <2>3, <2>4 DEF Reached, l
<1>12. QED
  BY <1>2, <1>9, <1>10, <1>11, QuietStep

\* The other ends of the server have a cause.
LEMMA ServerEndStep ==
  Inv /\ (ServerConnect \/ ServerGivesUp \/ ServerFail \/ Lose) => Inv'
<1> SUFFICES ASSUME Inv, ServerConnect \/ ServerGivesUp \/ ServerFail \/ Lose PROVE Inv'
  OBVIOUS
<1>1. Control /\ Held
  BY DEF Inv
<1>2. /\ UNCHANGED <<conf, cpc, sent, up, down, got>>
      /\ \/ spc = "connect" /\ spc' = "tunnel" /\ cause' = cause
         \/ /\ spc \in {"frame", "answer", "answer_body", "header", "connect"}
            /\ spc' = "closed" /\ cause' \in {"lost", "gave_up"}
         \/ /\ spc \in {"frame", "answer", "answer_body", "header"}
            /\ spc' = "closed" /\ cause' = cause /\ (cause = "lost" \/ cpc = "failed")
         \/ cause' = "lost" /\ spc' = spc
  BY <1>1 DEF ServerConnect, ServerGivesUp, ServerFail, Lose, ServerGoes, Control
<1>3. Ready' = Ready /\ Usable' = Usable /\ Matching' = Matching
  BY <1>2, Rigid
<1>4. Control'
  BY <1>1, <1>2, <1>3 DEF Control
<1>5. Held'
  BY <1>1, <1>2, <1>3 DEF Held
<1>6. QED
  BY <1>2, <1>4, <1>5, QuietStep

-----------------------------------------------------------------------------
(* Steps that write.                                                       *)

\* What it takes for a step of the client that writes to preserve the invariant.
LEMMA WriteUpStep ==
  ASSUME Inv, NEW bytes \in Seq(Byte), WriteUp(bytes), conf' = conf, spc' = spc, cause' = cause,
         Control', UpLog', cpc' /= "failed", cpc \in {"hello", "hello_body", "header", "tunnel"},
         cpc' = cpc \/ cpc /= "tunnel"
  PROVE  Inv'
<1>1. Configured /\ Carried /\ Control /\ DownLog /\ Reached /\ Held
  BY DEF Inv
<1>2. Carried' /\ got' = got /\ DownText' = DownText
  BY <1>1, WroteUp
<1>3. Configured' /\ Matching' = Matching
  BY <1>1, Rigid
<1>4. DownLog'
  BY <1>1, <1>2, DownLogKept
<1>5. Len(got.up') >= Len(got.up)
  <2>1. Len(got.up) \in Nat
    BY <1>1 DEF Carried
  <2>2. QED
    BY <1>2, <2>1
<1>6. Reached'
  BY <1>1, <1>2, <1>5, ReachedKept
<1>7. Held'
  BY <1>1, <1>3 DEF Held
<1>8. QED
  BY <1>2, <1>3, <1>4, <1>6, <1>7 DEF Inv

\* The handshake and the header are written in order.
LEMMA ClientWriteStep == Inv /\ (ClientHello \/ ClientHelloBody \/ WriteHeader) => Inv'
<1> SUFFICES ASSUME Inv, ClientHello \/ ClientHelloBody \/ WriteHeader PROVE Inv'
  OBVIOUS
<1> DEFINE k == Key
           e == Encode(Request)
           w == UpText
           m == Msg1(k)
           h == FrameHeader(m)
           f == Hello(k)
<1>1. Configured /\ Carried /\ Control /\ UpLog
  BY DEF Inv
<1>2. UNCHANGED <<conf, spc, sent, cause>> /\ cpc \in {"hello", "hello_body", "header"}
  BY DEF ClientHello, ClientHelloBody, WriteHeader, ClientGoes
<1>3. Ready /\ Usable
  BY <1>1, <1>2, ReadyParts DEF Control
<1>4. k \in Byte /\ e \in Seq(Byte)
  BY <1>1, <1>3, ReadyParts
<1>5. m \in Seq(Byte) /\ h \in Seq(Byte) /\ f \in Seq(Byte) /\ f = h \o m
  BY <1>1, <1>4, Messages DEF Hello
<1>6. Ready' = Ready /\ Usable' = Usable /\ k' = k /\ e' = e
  BY <1>2, Rigid
<1>7. m' = m /\ h' = h /\ f' = f
  BY <1>6
<1>8. sent = 0 /\ (cpc = "hello" => w = <<>>) /\ (cpc = "hello_body" => w = h)
      /\ (cpc = "header" => w = f)
  BY <1>1, <1>2 DEF UpLog
<1>9. ASSUME cpc' \in {"hello_body", "reply", "tunnel"},
             cpc' = "hello_body" => w' = h, cpc' = "reply" => w' = f,
             cpc' = "tunnel" => w' = (f \o e) \o SubSeq(Payload, 1, sent)
      PROVE  Control' /\ UpLog'
  <2>1. Control'
    BY <1>1, <1>2, <1>3, <1>6, <1>9 DEF Control
  <2>2. UpLog'
    <3> HIDE DEF k, e, w, h, f, m
    <3>1. QED
      BY <1>2, <1>6, <1>7, <1>8, <1>9 DEF UpLog, k, e, w, h, f, m
  <2>3. QED
    BY <2>1, <2>2
<1>10. CASE ClientHello
  <2>1. cpc = "hello" /\ cpc' = "hello_body" /\ WriteUp(h)
    BY <1>10 DEF ClientHello, ClientGoes
  <2>2. w' = w \o h
    BY <1>1, <1>2, <1>5, <2>1, WroteUp
  <2>3. w' = h
    <3> HIDE DEF w, h
    <3>1. w = <<>>
      BY <1>8, <2>1
    <3>2. <<>> \o h = h
      BY <1>5
    <3>3. QED
      BY <2>2, <3>1, <3>2, Zenon
  <2>4. Control' /\ UpLog'
    BY <1>9, <2>1, <2>3
  <2> HIDE DEF h
  <2>5. QED
    BY <1>2, <1>5, <2>1, <2>4, WriteUpStep
<1>11. CASE ClientHelloBody
  <2>1. cpc = "hello_body" /\ cpc' = "reply" /\ WriteUp(m)
    BY <1>11 DEF ClientHelloBody, ClientGoes
  <2>2. w' = w \o m
    BY <1>1, <1>2, <1>5, <2>1, WroteUp
  <2>3. w' = f
    <3> HIDE DEF w, h, m, f
    <3>1. w = h
      BY <1>8, <2>1
    <3>2. QED
      BY <1>5, <2>2, <3>1, Zenon
  <2>4. Control' /\ UpLog'
    BY <1>9, <2>1, <2>3
  <2> HIDE DEF m
  <2>5. QED
    BY <1>2, <1>5, <2>1, <2>4, WriteUpStep
<1>12. CASE WriteHeader
  <2>1. cpc = "header" /\ cpc' = "tunnel" /\ WriteUp(e)
    BY <1>12 DEF WriteHeader, ClientGoes
  <2>2. w' = w \o e
    BY <1>1, <1>2, <1>4, <2>1, WroteUp
  <2>3. w' = (f \o e) \o SubSeq(Payload, 1, sent)
    <3> HIDE DEF w, f, e
    <3>1. w = f
      BY <1>8, <2>1
    <3>2. SubSeq(Payload, 1, sent) = <<>>
      <4>1. Payload \in Seq(Byte) /\ sent = 0
        BY <1>8, EstablishAssumption
      <4>2. QED
        BY <4>1
    <3>3. f \o e \in Seq(Byte)
      BY <1>4, <1>5, ConcatProperties
    <3>4. (f \o e) \o <<>> = f \o e
      BY <3>3
    <3>5. QED
      BY <2>2, <3>1, <3>2, <3>4, Zenon
  <2>4. Control' /\ UpLog'
    BY <1>9, <2>1, <2>3
  <2> HIDE DEF e
  <2>5. QED
    BY <1>2, <1>4, <2>1, <2>4, WriteUpStep
<1>13. QED
  BY <1>10, <1>11, <1>12

\* The payload is written in order, behind the header.
LEMMA AppDataStep == Inv /\ AppData => Inv'
<1> SUFFICES ASSUME Inv, AppData PROVE Inv'
  OBVIOUS
<1> DEFINE e == Encode(Request)
           w == UpText
           f == Hello(Key)
           p == Payload
           b == <<p[sent + 1]>>
           d == SubSeq(p, 1, sent)
<1>1. Configured /\ Carried /\ Control /\ UpLog
  BY DEF Inv
<1>2. /\ cpc = "tunnel" /\ sent < Len(p) /\ sent' = sent + 1 /\ WriteUp(b)
      /\ UNCHANGED <<conf, cpc, spc, cause>>
  BY DEF AppData
<1>3. Ready /\ Key \in Byte /\ e \in Seq(Byte)
  BY <1>1, <1>2, ReadyParts DEF Control
<1>4. f \in Seq(Byte)
  BY <1>1, <1>3, Messages
<1>5. p \in Seq(Byte) /\ sent \in 0 .. Len(p) /\ Len(p) \in Nat
  BY <1>1, EstablishAssumption DEF Control
<1>6. b \in Seq(Byte) /\ d \in Seq(Byte) /\ SubSeq(p, 1, sent + 1) = d \o b
  <2> HIDE DEF p
  <2>1. p[sent + 1] \in Byte
    BY <1>2, <1>5
  <2>2. b \in Seq(Byte)
    BY <2>1
  <2>3. d \in Seq(Byte)
    BY <1>5, SplitAt
  <2>4. SubSeq(p, 1, sent + 1) = Append(d, p[sent + 1])
    BY <1>2, <1>5
  <2>5. Append(d, p[sent + 1]) = d \o b
    <3> HIDE DEF d
    <3>1. QED
      BY <2>1, <2>3
  <2>6. QED
    BY <2>2, <2>3, <2>4, <2>5
<1>7. e' = e /\ f' = f /\ Ready' = Ready /\ Usable' = Usable
  BY <1>2, Rigid
<1>8. w = (f \o e) \o d
  BY <1>1, <1>2 DEF UpLog
<1>9. w' = w \o b
  BY <1>1, <1>2, <1>6, WroteUp
<1>10. w' = (f \o e) \o SubSeq(p, 1, sent')
  <2> HIDE DEF e, w, f, b, d, p
  <2>1. f \o e \in Seq(Byte)
    BY <1>3, <1>4, ConcatProperties
  <2> DEFINE g == f \o e
  <2>2. g \in Seq(Byte)
    BY <2>1
  <2> HIDE DEF g
  <2>3. (g \o d) \o b = g \o (d \o b)
    BY <1>6, <2>2, ConcatAssociative
  <2>4. QED
    BY <1>2, <1>6, <1>8, <1>9, <2>3, Zenon DEF g
<1>11. Control'
  BY <1>1, <1>2, <1>5, <1>7 DEF Control
<1>12. UpLog'
  <2> HIDE DEF e, w, f
  <2>1. QED
    BY <1>2, <1>7, <1>10 DEF UpLog, e, w, f
<1> HIDE DEF b
<1>13. QED
  BY <1>2, <1>6, <1>11, <1>12, WriteUpStep

\* The answer is written in order.
LEMMA ServerWriteStep == Inv /\ (ServerAnswer \/ ServerAnswerBody) => Inv'
<1> SUFFICES ASSUME Inv, ServerAnswer \/ ServerAnswerBody PROVE Inv'
  OBVIOUS
<1> DEFINE w == DownText
           m == Msg2(conf.server.key)
           h == FrameHeader(m)
           f == Reply(conf.server.key)
<1>1. Configured /\ Carried /\ Control /\ UpLog /\ DownLog /\ Reached /\ Held
  BY DEF Inv
<1>2. UNCHANGED <<conf, cpc, sent, cause>> /\ spc \in {"answer", "answer_body"}
  BY DEF ServerAnswer, ServerAnswerBody, ServerGoes
<1>3. m \in Seq(Byte) /\ h \in Seq(Byte) /\ f \in Seq(Byte) /\ f = h \o m
  BY <1>1, Messages DEF Reply
<1>4. m' = m /\ h' = h /\ f' = f
  BY <1>2
<1>5. (spc = "answer" => w = <<>>) /\ (spc = "answer_body" => w = h)
  BY <1>1 DEF DownLog
<1>6. Ready' = Ready /\ Usable' = Usable /\ Matching' = Matching /\ Configured'
  BY <1>1, <1>2, Rigid
<1>7. ASSUME NEW bytes \in Seq(Byte), WriteDown(bytes),
             \/ spc = "answer" /\ spc' = "answer_body" /\ w' = h
             \/ spc = "answer_body" /\ spc' = "header" /\ w' = f
      PROVE  Inv'
  <2>1. Carried' /\ got' = got /\ UpText' = UpText
    BY <1>1, <1>2, <1>7, WroteDown
  <2>2. Control' /\ Held'
    BY <1>1, <1>2, <1>6, <1>7 DEF Control, Held
  <2>3. UpLog'
    BY <1>1, <1>2, <2>1, UpLogKept
  <2>4. DownLog'
    <3> HIDE DEF w, h, f, m
    <3>1. QED
      BY <1>4, <1>7 DEF DownLog, w, f, h, m
  <2>5. Len(got.up') >= Len(got.up)
    <3>1. Len(got.up) \in Nat
      BY <1>1 DEF Carried
    <3>2. QED
      BY <2>1, <3>1
  <2>6. Reached'
    BY <1>1, <1>2, <1>7, <2>1, <2>5, ReachedKept
  <2>7. QED
    BY <1>6, <2>1, <2>2, <2>3, <2>4, <2>6 DEF Inv
<1>8. CASE ServerAnswer
  <2>1. spc = "answer" /\ spc' = "answer_body" /\ WriteDown(h)
    BY <1>8 DEF ServerAnswer, ServerGoes
  <2>2. w' = w \o h
    BY <1>1, <1>2, <1>3, <2>1, WroteDown
  <2>3. w' = h
    <3> HIDE DEF w, h
    <3>1. w = <<>>
      BY <1>5, <2>1
    <3>2. <<>> \o h = h
      BY <1>3
    <3>3. QED
      BY <2>2, <3>1, <3>2, Zenon
  <2> HIDE DEF w, h
  <2>4. QED
    BY <1>3, <1>7, <2>1, <2>3
<1>9. CASE ServerAnswerBody
  <2>1. spc = "answer_body" /\ spc' = "header" /\ WriteDown(m)
    BY <1>9 DEF ServerAnswerBody, ServerGoes
  <2>2. w' = w \o m
    BY <1>1, <1>2, <1>3, <2>1, WroteDown
  <2>3. w' = f
    <3> HIDE DEF w, h, m, f
    <3>1. w = h
      BY <1>5, <2>1
    <3>2. QED
      BY <1>3, <2>2, <3>1, Zenon
  <2> HIDE DEF w, h, m, f
  <2>4. QED
    BY <1>3, <1>7, <2>1, <2>3
<1>10. QED
  BY <1>8, <1>9

-----------------------------------------------------------------------------
(* Steps that read.                                                        *)

\* A step that only moves bytes from the carrier to its reader preserves the
\* invariant.
LEMMA ReadStep ==
  ASSUME Inv, UNCHANGED <<conf, cpc, spc, sent, cause>>, Carried', UpText' = UpText,
         DownText' = DownText, Len(got.up') >= Len(got.up)
  PROVE  Inv'
<1>1. Configured /\ Carried /\ Control /\ UpLog /\ DownLog /\ Reached /\ Held
  BY DEF Inv
<1>2. Configured' /\ Ready' = Ready /\ Usable' = Usable /\ Matching' = Matching
  BY <1>1, Rigid
<1>3. Control' /\ Held'
  BY <1>1, <1>2 DEF Control, Held
<1>4. UpLog'
  BY <1>1, UpLogKept
<1>5. DownLog'
  BY <1>1, DownLogKept
<1>6. Reached'
  BY <1>1, ReachedKept
<1>7. QED
  BY <1>2, <1>3, <1>4, <1>5, <1>6 DEF Inv

\* What the readers ask for is a number.
LEMMA Wanted ==
  ASSUME Inv
  PROVE  /\ ServerReadFrame => FrameNeed(got.up) - Len(got.up) \in Nat
         /\ ServerReadHeader => HeaderNeed(ServerHeader) - Len(ServerHeader) \in Nat
         /\ ClientRead => FrameNeed(got.down) - Len(got.down) \in Nat
         /\ CopyBuf \in Nat
<1>1. Configured /\ Carried /\ Control /\ UpLog /\ DownLog /\ Reached
  BY DEF Inv
<1>2. ASSUME ServerReadFrame PROVE FrameNeed(got.up) - Len(got.up) \in Nat
  BY <1>1, <1>2, HelloRead DEF ServerReadFrame
<1>3. ASSUME ServerReadHeader PROVE HeaderNeed(ServerHeader) - Len(ServerHeader) \in Nat
  <2>1. spc = "header" /\ ~HeaderDone
    BY <1>3 DEF ServerReadHeader
  <2>2. Len(got.up) >= 4
    BY <1>1, <2>1 DEF Reached
  <2>3. QED
    BY <1>1, <2>1, <2>2, HeaderRead
<1>4. ASSUME ClientRead PROVE FrameNeed(got.down) - Len(got.down) \in Nat
  BY <1>1, <1>4, ReplyRead DEF ClientRead
<1>5. CopyBuf \in Nat
  BY EstablishAssumption
<1>6. QED
  BY <1>2, <1>3, <1>4, <1>5

\* Reads of the server preserve the invariant.
LEMMA ServerReadsStep ==
  Inv /\ (ServerReadFrame \/ ServerReadHeader \/ ServerCopy) => Inv'
<1> SUFFICES ASSUME Inv, ServerReadFrame \/ ServerReadHeader \/ ServerCopy PROVE Inv'
  OBVIOUS
<1>1. Carried
  BY DEF Inv
<1>2. UNCHANGED <<conf, cpc, spc, sent, cause>>
  BY DEF ServerReadFrame, ServerReadHeader, ServerCopy, ServerGoes
<1>3. \E want \in Nat : ReadUp(want)
  BY Wanted DEF ServerReadFrame, ServerReadHeader, ServerCopy
<1>4. PICK want \in Nat : ReadUp(want)
  BY <1>3
<1>5. Carried' /\ UpText' = UpText /\ DownText' = DownText /\ Len(got.up') >= Len(got.up)
  BY <1>1, <1>2, <1>4, TookUp
<1>6. QED
  BY <1>2, <1>5, ReadStep

\* Reads of the client preserve the invariant.
LEMMA ClientReadStep == Inv /\ ClientRead => Inv'
<1> SUFFICES ASSUME Inv, ClientRead PROVE Inv'
  OBVIOUS
<1>1. Carried
  BY DEF Inv
<1>2. UNCHANGED <<conf, cpc, spc, sent, cause>>
  BY DEF ClientRead, ClientGoes
<1>3. PICK want \in Nat : ReadDown(want)
  BY Wanted DEF ClientRead
<1>4. Carried' /\ UpText' = UpText /\ DownText' = DownText /\ got.up' = got.up
  BY <1>1, <1>2, <1>3, TookDown
<1>5. Len(got.up') >= Len(got.up)
  <2>1. Len(got.up) \in Nat
    BY <1>1 DEF Carried
  <2>2. QED
    BY <1>4, <2>1
<1>6. QED
  BY <1>2, <1>4, <1>5, ReadStep

-----------------------------------------------------------------------------
\* Every step of either program, and the loss of the connection, preserves it.
LEMMA NextInv == Inv /\ [Next]_vars => Inv'
<1> SUFFICES ASSUME Inv, [Next]_vars PROVE Inv'
  OBVIOUS
<1>1. CASE ClientStep
  BY <1>1, ParseURIStep, DialStep, ClientWriteStep, ClientReadStep, ClientReplyStep,
     ClientFailStep, AppDataStep DEF ClientStep
<1>2. CASE ServerStep
  BY <1>2, ServerReadsStep, ServerHelloStep, ServerWriteStep, ServerDecodeStep, ServerEndStep
     DEF ServerStep
<1>3. CASE ServerGivesUp \/ Lose
  BY <1>3, ServerEndStep
<1>4. CASE UNCHANGED vars
  <2>1. Carried /\ Len(got.up) \in Nat
    BY DEF Inv, Carried
  <2>2. Carried' /\ UpText' = UpText /\ DownText' = DownText /\ got' = got
    BY <1>4, <2>1, Quiet DEF vars
  <2>3. Len(got.up') >= Len(got.up)
    BY <2>1, <2>2
  <2>4. QED
    BY <1>4, <2>2, <2>3, ReadStep DEF vars
<1>5. QED
  BY <1>1, <1>2, <1>3, <1>4 DEF Next

\* What each side has written, read and verified fits the step the other is at
\* (frames and header of noise.go, header.go and server.go).
THEOREM Invariance == Spec => []Inv
BY InitInv, NextInv, PTL DEF Spec

-----------------------------------------------------------------------------
(* What follows.                                                           *)

\* Nothing but bytes, whatever has been read, written and tried (keygen to
\* relay).
THEOREM TypeCorrect == Spec => []TypeOK
<1>1. Inv => TypeOK
  BY DEF Inv, Carried, Control, Shaped, TypeOK
<1>2. QED
  BY <1>1, Invariance, PTL

\* The relay starts at the application's first byte, whatever the sizes of
\* tokens, addresses and reads (readFrame, Decode, then io.Copy).
THEOREM CleanStream == Spec => []StreamClean
<1>1. Inv => StreamClean
  <2> SUFFICES ASSUME Inv, spc = "tunnel" PROVE IsPrefix(Delivered, SentData)
    BY DEF StreamClean, SentData
  <2>1. Configured /\ Carried /\ Control /\ UpLog /\ Reached
    BY DEF Inv
  <2>2. Len(got.up) >= 4 /\ Len(got.up) >= 4 + Len(Encode(Request))
    BY <2>1 DEF Reached
  <2>3. Delivered \in Seq(Byte) /\ Cut(SentData, Delivered, InFlight(up))
    BY <2>1, <2>2, HeaderRead
  <2>4. InFlight(up) \in Seq(Byte)
    BY <2>1, Texts
  <2> DEFINE d == Delivered
             t == SentData
             n == Len(d)
  <2> HIDE DEF d, t
  <2>5. n \in 0 .. Len(t) /\ d = SubSeq(t, 1, n)
    BY <2>3, <2>4, CutAt DEF d, t
  <2>6. d \in Seq(Byte) /\ t \in Seq(Byte)
    BY <2>1, <2>3, SentShape DEF d, t
  <2>7. SubSeq(d, 1, n) = d
    BY <2>6
  <2>8. n <= Len(t)
    BY <2>5, <2>6
  <2>9. QED
    BY <2>5, <2>7, <2>8 DEF IsPrefix, d, t
<1>2. QED
  BY <1>1, Invariance, PTL

\* The server dials what the application asked for: the address survives
\* handleSOCKS, encodeDest, Encode, Decode and the way back to a text.
THEOREM RightDestination == Spec => []DestinationAgrees
<1>1. Inv => DestinationAgrees
  <2> SUFFICES ASSUME Inv, spc \in {"connect", "tunnel"}, Decimal(conf.dest.port) < 65536
               PROVE  Dialled = [host |-> Host, port |-> Decimal(conf.dest.port)]
    BY DEF DestinationAgrees
  <2>1. Configured /\ Carried /\ Control /\ UpLog /\ Reached
    BY DEF Inv
  <2>2. Len(got.up) >= 4 /\ Len(got.up) >= 4 + Len(Encode(Request))
    BY <2>1 DEF Reached
  <2>3. Decode(ServerHeader) = Request
    BY <2>1, <2>2, HeaderRead
  <2>4. Usable /\ DestEncodable(Host)
    BY <2>1, ReadyParts DEF Control
  <2>5. /\ Canonical(HostText(Request.atyp, Request.addr)) = Host
        /\ Decimal(conf.dest.port) \in Nat
        /\ Word(Request.port, Decimal(conf.dest.port))
    BY <2>1, <2>4, RequestShape
  <2>6. Request.port = Decimal(conf.dest.port)
    BY <2>5, SmallWord
  <2>7. Dialled = [host |-> Canonical(HostText(Request.atyp, Request.addr)),
                   port |-> Request.port]
    BY <2>3 DEF Dialled
  <2>8. QED
    BY <2>5, <2>6, <2>7
<1>2. QED
  BY <1>1, Invariance, PTL

\* A tunnel exists only between a URI and the server it belongs to, and such a
\* pair fails only for a cause outside (NewClient, the handshake, the token).
THEOREM RightVerdict == Spec => []VerdictRight
<1>1. Inv => VerdictRight
  <2> SUFFICES ASSUME Inv PROVE VerdictRight
    OBVIOUS
  <2>1. Configured /\ Control /\ Reached /\ Held
    BY DEF Inv
  <2>2. ASSUME spc = "tunnel" PROVE Matching
    <3>1. Ready /\ Key = conf.server.key /\ conf.client.uuid = conf.server.uuid
      BY <2>1, <2>2 DEF Control, Reached
    <3>2. Usable /\ DestEncodable(Host) /\ Admitted /\ Key = conf.client.key
      BY <2>1, <3>1, ReadyParts
    <3>3. Legible /\ Config.params["sni"] = conf.client.decoy
      BY <2>1, <3>2, URIUsable
    <3>4. conf.dest.atyp = AtypDomain => conf.dest.addr /= <<>>
      BY <2>1, <3>2, HostShape
    <3>5. conf.trusted /\ (conf.carrier = "tcp" => conf.server.decoy \in {{}, conf.client.decoy})
      BY <3>2, <3>3 DEF Admitted
    <3>6. QED
      BY <3>1, <3>2, <3>3, <3>4, <3>5 DEF Matching, Legible
  <2>3. (cpc = "failed" \/ spc = "closed") /\ cause = "none" => ~Matching
    BY <2>1 DEF Held
  <2>4. QED
    BY <2>2, <2>3 DEF VerdictRight
<1>2. QED
  BY <1>1, Invariance, PTL

-----------------------------------------------------------------------------
(* Each direction implements ByteStream.                                   *)

\* To append at least one byte is a write of ByteStream.
LEMMA WritesStream ==
  ASSUME NEW f \in Seq(Byte), NEW b \in Seq(Byte), Len(b) > 0, NEW f2, Cut(f2, f, b)
  PROVE  IsStrictPrefix(f, f2)
<1>1. Len(f) \in 0 .. Len(f2) /\ f = SubSeq(f2, 1, Len(f)) /\ b = SubSeq(f2, Len(f) + 1, Len(f2))
  BY CutAt, Zenon
<1>2. f2 \in Seq(Byte) /\ Len(f2) = Len(f) + Len(b) /\ Len(f) \in Nat /\ Len(b) \in Nat
  BY CutSizes, Zenon
<1>3. SubSeq(f, 1, Len(f)) = f
  OBVIOUS
<1> DEFINE n == Len(f)
           k == Len(b)
           n2 == Len(f2)
<1>4. n \in Nat /\ k \in Nat /\ k > 0 /\ n2 = n + k
  BY <1>2
<1>5. n <= n2 /\ n /= n2
  <2> HIDE DEF n, k, n2
  <2>1. QED
    BY <1>4
<1>6. f /= f2
  BY <1>5
<1>7. QED
  BY <1>1, <1>3, <1>5, <1>6, Zenon DEF IsPrefix, IsStrictPrefix, n, n2

\* At least one byte moves.
Advanced(f, g, f2, g2) ==
  \E n \in 1 .. Len(f) : g2 = g \o SubSeq(f, 1, n) /\ f2 = SubSeq(f, n + 1, Len(f))

\* To read is a read of ByteStream, or nothing happens.
LEMMA ReadsStream ==
  ASSUME NEW f \in Seq(Byte), NEW g \in Seq(Byte), NEW f2, NEW g2, Moved(f, g, f2, g2)
  PROVE  (f2 = f /\ g2 = g) \/ Advanced(f, g, f2, g2)
<1>1. PICK n \in 0 .. Len(f) : g2 = g \o SubSeq(f, 1, n) /\ f2 = SubSeq(f, n + 1, Len(f))
  BY DEF Moved, After
<1>2. CASE n = 0
  <2>1. SubSeq(f, 1, 0) = <<>> /\ SubSeq(f, 1, Len(f)) = f
    OBVIOUS
  <2>2. g \o <<>> = g
    OBVIOUS
  <2>3. n + 1 = 1
    BY <1>2
  <2>4. QED
    BY <1>1, <1>2, <2>1, <2>2, <2>3, Zenon
<1>3. CASE n \in 1 .. Len(f)
  BY <1>1, <1>3, Zenon DEF Advanced
<1>4. n = 0 \/ n \in 1 .. Len(f)
  OBVIOUS
<1>5. QED
  BY <1>2, <1>3, <1>4

\* What each write of a step writes is some bytes.
LEMMA WritesBytes ==
  ASSUME Inv
  PROVE  /\ ClientHello \/ ClientHelloBody \/ WriteHeader \/ AppData =>
              \E b \in Seq(Byte) : Len(b) > 0 /\ WriteUp(b)
         /\ ServerAnswer \/ ServerAnswerBody =>
              \E b \in Seq(Byte) : Len(b) > 0 /\ WriteDown(b)
<1> DEFINE m1 == Msg1(Key)
           h1 == FrameHeader(m1)
           m2 == Msg2(conf.server.key)
           h2 == FrameHeader(m2)
           e == Encode(Request)
<1>1. Configured /\ Control
  BY DEF Inv
<1>2. cpc \in {"hello", "hello_body", "header"} =>
        /\ m1 \in Seq(Byte) /\ Len(m1) > 0 /\ h1 \in Seq(Byte) /\ Len(h1) > 0
        /\ e \in Seq(Byte) /\ Len(e) > 0
  <2> SUFFICES ASSUME cpc \in {"hello", "hello_body", "header"}
               PROVE  /\ m1 \in Seq(Byte) /\ Len(m1) > 0 /\ h1 \in Seq(Byte) /\ Len(h1) > 0
                      /\ e \in Seq(Byte) /\ Len(e) > 0
    OBVIOUS
  <2>1. Ready
    BY <1>1 DEF Control
  <2>2. Key \in Byte /\ e \in Seq(Byte) /\ Len(e) > 0
    BY <1>1, <2>1, ReadyParts
  <2>3. m1 \in Seq(Byte) /\ h1 \in Seq(Byte) /\ Len(m1) = 2 /\ Len(h1) = 2
    BY <1>1, <2>2, Messages
  <2> HIDE DEF m1, h1, e
  <2>4. QED
    BY <2>2, <2>3
<1>3. m2 \in Seq(Byte) /\ Len(m2) > 0 /\ h2 \in Seq(Byte) /\ Len(h2) > 0
  <2>1. m2 \in Seq(Byte) /\ h2 \in Seq(Byte) /\ Len(m2) = 2 /\ Len(h2) = 2
    BY <1>1, Messages
  <2> HIDE DEF m2, h2
  <2>2. QED
    BY <2>1
<1>4. ASSUME ClientHello PROVE cpc = "hello" /\ WriteUp(h1)
  BY <1>4 DEF ClientHello
<1>5. ASSUME ClientHelloBody PROVE cpc = "hello_body" /\ WriteUp(m1)
  BY <1>5 DEF ClientHelloBody
<1>6. ASSUME WriteHeader PROVE cpc = "header" /\ WriteUp(e)
  BY <1>6 DEF WriteHeader
<1>7. ASSUME AppData PROVE \E b \in Seq(Byte) : Len(b) > 0 /\ WriteUp(b)
  <2> DEFINE b == <<Payload[sent + 1]>>
  <2>1. WriteUp(b) /\ sent < Len(Payload)
    BY <1>7 DEF AppData
  <2>2. Payload \in Seq(Byte) /\ sent \in 0 .. Len(Payload)
    BY <1>1, EstablishAssumption DEF Control
  <2>3. Payload[sent + 1] \in Byte
    BY <2>1, <2>2
  <2>4. b \in Seq(Byte) /\ Len(b) > 0
    BY <2>3
  <2> HIDE DEF b
  <2>5. QED
    BY <2>1, <2>4
<1>8. ASSUME ServerAnswer PROVE WriteDown(h2)
  BY <1>8 DEF ServerAnswer
<1>9. ASSUME ServerAnswerBody PROVE WriteDown(m2)
  BY <1>9 DEF ServerAnswerBody
<1> HIDE DEF m1, h1, m2, h2, e
<1>10. QED
  BY <1>2, <1>3, <1>4, <1>5, <1>6, <1>7, <1>8, <1>9

\* What a step does to each direction.
LEMMA UpMoves ==
  ASSUME Inv, [Next]_vars
  PROVE  \/ up' = up /\ got.up' = got.up
         \/ \E b \in Seq(Byte) : Len(b) > 0 /\ WriteUp(b) /\ conf' = conf
         \/ \E want \in Nat : ReadUp(want) /\ conf' = conf
<1>1. got \in [up : Seq(Byte), down : Seq(Byte)]
  BY DEF Inv, Carried
<1>2. CASE \/ ParseURI \/ Dial \/ DialFail \/ ClientReply \/ ClientFail \/ ServerHello
           \/ ServerDecode \/ ServerConnect \/ ServerGivesUp \/ ServerFail \/ Lose
           \/ UNCHANGED vars
  BY <1>2 DEF ParseURI, Dial, DialFail, ClientReply, ClientFail, ServerHello, ServerDecode,
     ServerConnect, ServerGivesUp, ServerFail, Lose, vars
<1>3. CASE ClientHello \/ ClientHelloBody \/ WriteHeader \/ AppData
  <2>1. conf' = conf
    BY <1>3 DEF ClientHello, ClientHelloBody, WriteHeader, AppData, ClientGoes
  <2>2. QED
    BY <1>3, <2>1, WritesBytes
<1>4. CASE ServerReadFrame \/ ServerReadHeader \/ ServerCopy
  <2>1. conf' = conf
    BY <1>4 DEF ServerReadFrame, ServerReadHeader, ServerCopy, ServerGoes
  <2>2. \E want \in Nat : ReadUp(want)
    BY <1>4, Wanted DEF ServerReadFrame, ServerReadHeader, ServerCopy
  <2>3. QED
    BY <2>1, <2>2
<1>5. CASE ServerAnswer \/ ServerAnswerBody
  BY <1>5 DEF ServerAnswer, ServerAnswerBody, WriteDown
<1>6. CASE ClientRead
  BY <1>1, <1>6 DEF ClientRead, ReadDown
<1>7. QED
  BY <1>2, <1>3, <1>4, <1>5, <1>6 DEF Next, ClientStep, ServerStep

LEMMA DownMoves ==
  ASSUME Inv, [Next]_vars
  PROVE  \/ down' = down /\ got.down' = got.down
         \/ \E b \in Seq(Byte) : Len(b) > 0 /\ WriteDown(b) /\ conf' = conf
         \/ \E want \in Nat : ReadDown(want) /\ conf' = conf
<1>1. got \in [up : Seq(Byte), down : Seq(Byte)]
  BY DEF Inv, Carried
<1>2. CASE \/ ParseURI \/ Dial \/ DialFail \/ ClientReply \/ ClientFail \/ ServerHello
           \/ ServerDecode \/ ServerConnect \/ ServerGivesUp \/ ServerFail \/ Lose
           \/ UNCHANGED vars
  BY <1>2 DEF ParseURI, Dial, DialFail, ClientReply, ClientFail, ServerHello, ServerDecode,
     ServerConnect, ServerGivesUp, ServerFail, Lose, vars
<1>3. CASE ServerAnswer \/ ServerAnswerBody
  <2>1. conf' = conf
    BY <1>3 DEF ServerAnswer, ServerAnswerBody, ServerGoes
  <2>2. QED
    BY <1>3, <2>1, WritesBytes
<1>4. CASE ClientRead
  <2>1. conf' = conf
    BY <1>4 DEF ClientRead, ClientGoes
  <2>2. \E want \in Nat : ReadDown(want)
    BY <1>4, Wanted DEF ClientRead
  <2>3. QED
    BY <2>1, <2>2
<1>5. CASE ClientHello \/ ClientHelloBody \/ WriteHeader \/ AppData
  BY <1>5 DEF ClientHello, ClientHelloBody, WriteHeader, AppData, WriteUp
<1>6. CASE ServerReadFrame \/ ServerReadHeader \/ ServerCopy
  BY <1>1, <1>6 DEF ServerReadFrame, ServerReadHeader, ServerCopy, ReadUp
<1>7. QED
  BY <1>2, <1>3, <1>4, <1>5, <1>6 DEF Next, ClientStep, ServerStep

\* A step writes to, reads from or leaves alone what the client sends.
LEMMA UpStep ==
  Inv /\ [Next]_vars => [UpStream!Write \/ UpStream!Read]_<<InFlight(up), got.up>>
<1> SUFFICES ASSUME Inv, [Next]_vars
             PROVE  [UpStream!Write \/ UpStream!Read]_<<InFlight(up), got.up>>
  OBVIOUS
<1> DEFINE f == InFlight(up)
           g == got.up
<1>1. Carried /\ f \in Seq(Byte) /\ g \in Seq(Byte)
  BY Texts DEF Inv
<1>2. CASE up' = up /\ got.up' = got.up
  BY <1>2
<1>3. CASE \E b \in Seq(Byte) : Len(b) > 0 /\ WriteUp(b) /\ conf' = conf
  <2>1. PICK b \in Seq(Byte) : Len(b) > 0 /\ WriteUp(b) /\ conf' = conf
    BY <1>3
  <2>2. f' = f \o b /\ g' = g
    BY <1>1, <2>1, WroteUp
  <2> HIDE DEF f, g
  <2>3. IsStrictPrefix(f, f')
    <3>1. Cut(f', f, b)
      BY <2>2 DEF Cut
    <3>2. QED
      BY <1>1, <2>1, <3>1, WritesStream
  <2>4. UpStream!IsStrictPrefix(f, f')
    BY <2>3 DEF IsPrefix, IsStrictPrefix, UpStream!IsPrefix, UpStream!IsStrictPrefix
  <2>5. UpStream!Write
    BY <2>2, <2>4 DEF UpStream!Write, f, g
  <2>6. QED
    BY <2>5
<1>4. CASE \E want \in Nat : ReadUp(want) /\ conf' = conf
  <2>1. PICK want \in Nat : ReadUp(want) /\ conf' = conf
    BY <1>4
  <2>2. Moved(f, g, f', g')
    BY <1>1, <2>1, TookUp
  <2> HIDE DEF f, g
  <2>3. (f' = f /\ g' = g) \/ Advanced(f, g, f', g')
    BY <1>1, <2>2, ReadsStream
  <2>4. QED
    BY <2>3, Zenon DEF UpStream!Read, Advanced, f, g
<1>5. QED
  BY <1>2, <1>3, <1>4, UpMoves

\* The same for what the server sends.
LEMMA DownStep ==
  Inv /\ [Next]_vars => [DownStream!Write \/ DownStream!Read]_<<InFlight(down), got.down>>
<1> SUFFICES ASSUME Inv, [Next]_vars
             PROVE  [DownStream!Write \/ DownStream!Read]_<<InFlight(down), got.down>>
  OBVIOUS
<1> DEFINE f == InFlight(down)
           g == got.down
<1>1. Carried /\ f \in Seq(Byte) /\ g \in Seq(Byte)
  BY Texts DEF Inv
<1>2. CASE down' = down /\ got.down' = got.down
  BY <1>2
<1>3. CASE \E b \in Seq(Byte) : Len(b) > 0 /\ WriteDown(b) /\ conf' = conf
  <2>1. PICK b \in Seq(Byte) : Len(b) > 0 /\ WriteDown(b) /\ conf' = conf
    BY <1>3
  <2>2. f' = f \o b /\ g' = g
    BY <1>1, <2>1, WroteDown
  <2> HIDE DEF f, g
  <2>3. IsStrictPrefix(f, f')
    <3>1. Cut(f', f, b)
      BY <2>2 DEF Cut
    <3>2. QED
      BY <1>1, <2>1, <3>1, WritesStream
  <2>4. DownStream!IsStrictPrefix(f, f')
    BY <2>3 DEF IsPrefix, IsStrictPrefix, DownStream!IsPrefix, DownStream!IsStrictPrefix
  <2>5. DownStream!Write
    BY <2>2, <2>4 DEF DownStream!Write, f, g
  <2>6. QED
    BY <2>5
<1>4. CASE \E want \in Nat : ReadDown(want) /\ conf' = conf
  <2>1. PICK want \in Nat : ReadDown(want) /\ conf' = conf
    BY <1>4
  <2>2. Moved(f, g, f', g')
    BY <1>1, <2>1, TookDown
  <2> HIDE DEF f, g
  <2>3. (f' = f /\ g' = g) \/ Advanced(f, g, f', g')
    BY <1>1, <2>2, ReadsStream
  <2>4. QED
    BY <2>3, Zenon DEF DownStream!Read, Advanced, f, g
<1>5. QED
  BY <1>2, <1>3, <1>4, DownMoves

\* Nothing is in flight and nothing has been read.
LEMMA StreamsStart == Init => UpStream!Init /\ DownStream!Init
<1>1. InFlight(Empty) = <<>>
  BY FlattenEmpty DEF Empty, InFlight
<1>2. QED
  BY <1>1 DEF Init, UpStream!Init, DownStream!Init

\* Both directions of every carrier are byte streams (wsStream over messages,
\* TLS and QUIC over pieces).
THEOREM StreamsImplemented == Spec => ImplementsByteStream
BY Invariance, StreamsStart, UpStep, DownStep, PTL
   DEF Spec, ImplementsByteStream, UpStream!Spec, DownStream!Spec
==============================================================================
