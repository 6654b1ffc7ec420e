------------------------- MODULE RegionShieldProofs -------------------------
(***************************************************************************)
(* Proofs about AutoProbe and RegionShield, for any sets of alternative    *)
(* ports and reference hosts.                                              *)
(***************************************************************************)
EXTENDS RegionShield, TLAPS

\* What is stored of a probe agrees with the network.
ProbesTrue ==
  \A t \in Targets : probe[t] = "ok" \/ result[t] = "ok" => DialSucceeds(t)

\* A decision that came from the chain was right when it was made, and the
\* probes are over by then.
DecisionRight ==
  Decided =>
    /\ \A t \in Targets : probe[t] = "done"
    /\ decision.reason \in {"isp-override", "chain", "last-resort", "unknown region"}
    /\ decision.reason \in {"chain", "last-resort"} =>
         /\ decision.mode \in TCPModes => OK("tcp443")
         /\ decision.mode \in {"quic_camouflage", "dns_tunnel"} => ~OK("tcp443")
         /\ decision.mode = "dns_tunnel" /\ "quic_camouflage" \in Range(Chain[region]) =>
              ~OK("udp443")
         /\ decision.mode \in Range(Chain[region]) \cup {"dns_tunnel"}

Inv == TypeOK /\ ProbesTrue /\ DecisionRight

\* A region's chain begins with a TCP mode, and dns_tunnel ends it if it is there.
LEMMA ChainOrder ==
  \A r \in Regions :
    /\ Len(Chain[r]) \in 1 .. 5 /\ DOMAIN Chain[r] = 1 .. Len(Chain[r])
    /\ Chain[r][1] = "yandex_cdn"
    /\ \A i \in 1 .. Len(Chain[r]) : Chain[r][i] = "dns_tunnel" => i = Len(Chain[r])
<1>1. DOMAIN Chain = {"RU", "IR", "CN"}
  BY DEF Chain
<1>2. /\ Len(Chain["RU"]) = 5 /\ DOMAIN Chain["RU"] = 1 .. 5
      /\ Chain["RU"][1] = "yandex_cdn"
      /\ \A i \in 1 .. 5 : Chain["RU"][i] = "dns_tunnel" => i = 5
  BY DEF Chain
<1>3. /\ Len(Chain["IR"]) = 4 /\ DOMAIN Chain["IR"] = 1 .. 4
      /\ Chain["IR"][1] = "yandex_cdn"
      /\ \A i \in 1 .. 4 : Chain["IR"][i] = "dns_tunnel" => i = 4
  BY DEF Chain
<1>4. /\ Len(Chain["CN"]) = 2 /\ DOMAIN Chain["CN"] = 1 .. 2
      /\ Chain["CN"][1] = "yandex_cdn"
      /\ \A i \in 1 .. 2 : Chain["CN"][i] = "dns_tunnel" => i = 2
  BY DEF Chain
<1>5. TAKE r \in Regions
<1>6. CASE r = "RU"
  <2>1. Len(Chain[r]) = 5 /\ DOMAIN Chain[r] = 1 .. 5
    BY <1>2, <1>6
  <2>2. \A i \in 1 .. Len(Chain[r]) : Chain[r][i] = "dns_tunnel" => i = Len(Chain[r])
    BY <1>2, <1>6, <2>1
  <2>3. QED
    BY <1>2, <1>6, <2>1, <2>2
<1>7. CASE r = "IR"
  <2>1. Len(Chain[r]) = 4 /\ DOMAIN Chain[r] = 1 .. 4
    BY <1>3, <1>7
  <2>2. \A i \in 1 .. Len(Chain[r]) : Chain[r][i] = "dns_tunnel" => i = Len(Chain[r])
    BY <1>3, <1>7, <2>1
  <2>3. QED
    BY <1>3, <1>7, <2>1, <2>2
<1>8. CASE r = "CN"
  <2>1. Len(Chain[r]) = 2 /\ DOMAIN Chain[r] = 1 .. 2
    BY <1>4, <1>8
  <2>2. \A i \in 1 .. Len(Chain[r]) : Chain[r][i] = "dns_tunnel" => i = Len(Chain[r])
    BY <1>4, <1>8, <2>1
  <2>3. QED
    BY <1>4, <1>8, <2>1, <2>2
<1>9. QED
  BY <1>1, <1>6, <1>7, <1>8 DEF Regions

LEMMA SelectFirst ==
  ASSUME NEW r \in Regions
  PROVE  LET first == FirstViable(Chain[r])
         IN  /\ \A i \in 1 .. Len(Chain[r]) : Viable(Chain[r][i]) => 1 <= first /\ first <= i
             /\ first \in 0 .. Len(Chain[r])
             /\ first > 0 => Viable(Chain[r][first])
<1> DEFINE I == {i \in 1 .. Len(Chain[r]) : Viable(Chain[r][i])}
           least == CHOOSE i \in I : \A j \in I : i <= j
<1>1. FirstViable(Chain[r]) = IF I /= {} THEN least ELSE 0
  BY DEF FirstViable, SelectInSeq, Min
<1>2. Len(Chain[r]) \in 1 .. 5
  BY DEF Regions, Chain
<1>3. ASSUME I /= {}
      PROVE  \E i \in I : \A j \in I : i <= j
  <2>1. I \subseteq 1 .. 5
    BY <1>2
  <2>2. QED
    <3> HIDE DEF I, least
    <3>1. CASE 1 \in I
      BY <2>1, <3>1
    <3>2. CASE 1 \notin I /\ 2 \in I
      BY <2>1, <3>2
    <3>3. CASE 1 \notin I /\ 2 \notin I /\ 3 \in I
      BY <2>1, <3>3
    <3>4. CASE 1 \notin I /\ 2 \notin I /\ 3 \notin I /\ 4 \in I
      BY <2>1, <3>4
    <3>5. CASE 1 \notin I /\ 2 \notin I /\ 3 \notin I /\ 4 \notin I
      <4>1. \A i \in I : i = 5
        BY <2>1, <3>5
      <4>2. QED
        BY <1>3, <4>1
    <3>6. QED
      BY <3>1, <3>2, <3>3, <3>4, <3>5
<1>4. I /= {} => least \in I /\ \A j \in I : least <= j
  BY <1>3
<1>5. QED
  <2>1. CASE I = {}
    <3>1. FirstViable(Chain[r]) = 0
      BY <1>1, <2>1
    <3>2. \A i \in 1 .. Len(Chain[r]) : ~Viable(Chain[r][i])
      BY <2>1
    <3> HIDE DEF I, least
    <3>3. QED
      BY <1>2, <3>1, <3>2
  <2>2. CASE I /= {}
    <3>1. least \in 1 .. Len(Chain[r]) /\ Viable(Chain[r][least])
      BY <1>4, <2>2
    <3>2. \A i \in 1 .. Len(Chain[r]) : Viable(Chain[r][i]) => least <= i
      BY <1>4, <2>2
    <3>3. FirstViable(Chain[r]) = least
      BY <1>1, <2>2
    <3> HIDE DEF I, least
    <3>4. QED
      BY <1>2, <3>1, <3>2, <3>3
  <2>3. QED
    BY <2>1, <2>2

-----------------------------------------------------------------------------
LEMMA InvStart == Init => Inv
BY DEF Init, Inv, TypeOK, ProbesTrue, DecisionRight, Decided

LEMMA InvProbe ==
  ASSUME Inv, NEW t \in Targets, Dial(t) \/ Store(t)
  PROVE  Inv'
<1> USE DEF Inv, TypeOK, ProbesTrue, DecisionRight, Decided
<1>1. decision = Undecided
  BY DEF Dial, Store
<1>2. CASE Dial(t)
  BY <1>1, <1>2 DEF Dial, DialSucceeds
<1>3. CASE Store(t)
  BY <1>1, <1>3 DEF Store, DialSucceeds
<1>4. QED
  BY <1>2, <1>3

LEMMA InvSelect ==
  ASSUME Inv, Select
  PROVE  Inv'
<1>1. UNCHANGED <<region, asn, net, probe, result>>
  BY DEF Select
<1>2. \A t \in Targets : probe'[t] = "done"
  BY <1>1 DEF Select
<1>3. CASE region \notin Regions
  BY <1>1, <1>2, <1>3 DEF Select, UnknownRegion, Inv, TypeOK, ProbesTrue, DecisionRight,
                          DialSucceeds
<1>4. CASE region \in Regions
  <2> DEFINE chain == Chain[region]
             first == FirstViable(chain)
  <2>1. decision' = SelectMode
    BY <1>4 DEF Select
  <2>2. CASE Overridden
    BY <1>1, <1>2, <2>1, <2>2 DEF SelectMode, Inv, TypeOK, ProbesTrue, DecisionRight,
                                  DialSucceeds
  <2>3. /\ first \in 0 .. Len(chain) /\ Len(chain) \in 1 .. 5
        /\ DOMAIN chain = 1 .. Len(chain)
        /\ first > 0 => Viable(chain[first])
        /\ \A i \in 1 .. Len(chain) : Viable(chain[i]) => 1 <= first /\ first <= i
        /\ chain[1] = "yandex_cdn"
        /\ \A i \in 1 .. Len(chain) : chain[i] = "dns_tunnel" => i = Len(chain)
    BY <1>4, SelectFirst, ChainOrder
  <2>4. OK("tcp443") => first = 1
    <3>1. OK("tcp443") => Viable("yandex_cdn")
      BY DEF Viable, TCPModes
    <3>2. 1 \in 1 .. Len(chain) /\ chain[1] = "yandex_cdn"
      BY <2>3
    <3>3. Viable(chain[1]) => 1 <= first /\ first <= 1
      BY <2>3, <3>2
    <3>4. first \in Int
      BY <2>3
    <3> HIDE DEF first
    <3>5. Viable(chain[1]) => first = 1
      BY <3>3, <3>4
    <3>6. QED
      BY <3>1, <3>2, <3>5
  <2>5. CASE ~Overridden /\ first > 0
    <3>1. decision' = [mode |-> chain[first], port |-> 443, reason |-> "chain"]
      BY <2>1, <2>5 DEF SelectMode
    <3>2. chain[first] \in Range(chain)
      BY <2>3, <2>5 DEF Range
    <3>3. chain[first] \in TCPModes => OK("tcp443")
      BY <2>3, <2>5 DEF Viable, TCPModes
    <3>4. chain[first] \in {"quic_camouflage", "dns_tunnel"} => ~OK("tcp443")
      BY <2>3, <2>4
    <3>5. chain[first] = "dns_tunnel" /\ "quic_camouflage" \in Range(chain) => ~OK("udp443")
      <4>1. OK("udp443") => Viable("quic_camouflage")
        BY DEF Viable
      <4>2. "quic_camouflage" \in Range(chain) =>
              \E i \in 1 .. Len(chain) : chain[i] = "quic_camouflage"
        BY <2>3 DEF Range
      <4>3. ASSUME NEW i \in 1 .. Len(chain), chain[i] = "quic_camouflage",
                   Viable(chain[i]), chain[first] = "dns_tunnel"
            PROVE  FALSE
        <5>1. first <= i /\ i <= Len(chain) /\ first = Len(chain)
          BY <2>3, <2>5, <4>3
        <5>2. first \in Int /\ i \in Int /\ Len(chain) \in Int
          BY <2>3
        <5> HIDE DEF first
        <5>3. i = first
          BY <5>1, <5>2
        <5>4. QED
          BY <4>3, <5>3
      <4>4. QED
        BY <4>1, <4>2, <4>3
    <3>6. QED
      BY <1>1, <1>2, <3>1, <3>2, <3>3, <3>4, <3>5
      DEF Inv, TypeOK, ProbesTrue, DecisionRight, DialSucceeds, OK
  <2>6. CASE ~Overridden /\ ~(first > 0)
    <3>1. decision' = [mode |-> "dns_tunnel", port |-> 443, reason |-> "last-resort"]
      BY <2>1, <2>6 DEF SelectMode
    <3>2. ~OK("tcp443")
      BY <2>4, <2>6
    <3>3. "quic_camouflage" \in Range(chain) => ~OK("udp443")
      <4>1. OK("udp443") => Viable("quic_camouflage")
        BY DEF Viable
      <4>2. "quic_camouflage" \in Range(chain) =>
              \E i \in 1 .. Len(chain) : chain[i] = "quic_camouflage"
        BY <2>3 DEF Range
      <4>3. \A i \in 1 .. Len(chain) : ~Viable(chain[i])
        BY <2>3, <2>6
      <4>4. QED
        BY <4>1, <4>2, <4>3
    <3>4. QED
      BY <1>1, <1>2, <3>1, <3>2, <3>3
      DEF Inv, TypeOK, ProbesTrue, DecisionRight, DialSucceeds, OK, TCPModes
  <2>7. QED
    BY <2>2, <2>5, <2>6
<1>5. QED
  BY <1>3, <1>4

LEMMA InvStep == Inv /\ [Next]_vars => Inv'
<1> SUFFICES ASSUME Inv, [Next]_vars PROVE Inv'
  OBVIOUS
<1>1. CASE UNCHANGED vars
  BY <1>1 DEF Inv, TypeOK, ProbesTrue, DialSucceeds, DecisionRight, Decided, OK, vars
<1>2. QED
  BY <1>1, InvProbe, InvSelect DEF Next

LEMMA AlwaysInv == Spec => []Inv
BY InvStart, InvStep, PTL DEF Spec

\* Every variable keeps its type and a status is stored when, and only when,
\* its goroutine is done (probe.go:72-82).
THEOREM TypeCorrect == Spec => []TypeOK
<1>1. Inv => TypeOK
  BY DEF Inv
<1>2. QED
  BY <1>1, AlwaysInv, PTL

\* What is reported without an override fits the network and the chain's order:
\* no mode that failed its probe, and dns_tunnel only if no other mode of the
\* chain passed (profile.go:46-86).
THEOREM ChainIsRight == Spec => []ChainRespectsNetwork
<1>1. Inv => ChainRespectsNetwork
  <2> SUFFICES ASSUME Inv, decision.reason \in {"chain", "last-resort"}
               PROVE  ChainRespectsNetwork
    BY DEF ChainRespectsNetwork
  <2>1. Decided
    BY DEF Decided, Undecided
  <2>2. "tcp443" \in Targets
    BY DEF Targets
  <2>3. OK("tcp443") => net["tcp443"] = "open"
    BY <2>2 DEF Inv, ProbesTrue, DialSucceeds, OK
  <2>4. QED
    BY <2>1, <2>3 DEF Inv, DecisionRight, ChainRespectsNetwork
<1>2. QED
  BY <1>1, AlwaysInv, PTL
=============================================================================
