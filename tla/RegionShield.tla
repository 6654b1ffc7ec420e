---------------------------- MODULE RegionShield ----------------------------
(***************************************************************************)
(* `avangard-client region`: AutoProbe (pkg/autoprobe/probe.go) probes the *)
(* network with one goroutine per target, and RegionShield                 *)
(* (pkg/regionshield) selects a mode from what they stored.                *)
(***************************************************************************)
EXTENDS Integers, Sequences, SequencesExt

CONSTANTS AltPorts,  \* Config.AltTCPPorts
          Refs       \* Config.RTTRefs

Targets == {"udp443", "tcp443"} \cup AltPorts \cup Refs

\* Variant: the Iranian chain tries dns_tunnel, which needs nothing, too early.
ChainDNSEarly ==
  [RU |-> <<"yandex_cdn", "splitdpi", "gosuslugi_ws", "quic_camouflage", "dns_tunnel">>,
   IR |-> <<"yandex_cdn", "gosuslugi_ws", "dns_tunnel", "quic_camouflage">>,
   CN |-> <<"yandex_cdn", "gosuslugi_ws">>]

\* DefaultRUProfile, DefaultIRProfile and DefaultCNProfile.
Chain ==
  [RU |-> <<"yandex_cdn", "splitdpi", "gosuslugi_ws", "quic_camouflage", "dns_tunnel">>,
   IR |-> <<"yandex_cdn", "gosuslugi_ws", "quic_camouflage", "dns_tunnel">>,
   CN |-> <<"yandex_cdn", "gosuslugi_ws">>]
Regions == DOMAIN Chain

ASNs == {"unknown", "mts", "beeline", "megafon", "rostel", "ertelecom", "tele2"}
ISPOverrides ==
  [mts |-> [mode |-> "splitdpi", port |-> 443],
   beeline |-> [mode |-> "yandex_cdn", port |-> 2053],
   megafon |-> [mode |-> "yandex_cdn", port |-> 443],
   rostel |-> [mode |-> "gosuslugi_ws", port |-> 443],
   ertelecom |-> [mode |-> "yandex_cdn", port |-> 443]]

TCPModes == {"yandex_cdn", "gosuslugi_ws", "splitdpi"}

VARIABLES region, asn,  \* the command's arguments
          net,          \* what the network does with packets to a target
          probe,        \* the goroutine of a target
          result,       \* the statuses stored in the Result
          decision      \* the mode selected or the error returned, once there is one

vars == <<region, asn, net, probe, result, decision>>

Undecided == [mode |-> "none", port |-> 0, reason |-> "none"]
UnknownRegion == [mode |-> "none", port |-> 0, reason |-> "unknown region"]

TypeOK ==
  /\ region \in Regions \cup {"other"} /\ asn \in ASNs
  /\ net \in [Targets -> {"open", "blocked", "noroute"}]
  /\ probe \in [Targets -> {"dialing", "ok", "failed", "done"}]
  /\ result \in [Targets -> {"unset", "ok", "failed"}]
  /\ \A t \in Targets : (result[t] = "unset") <=> (probe[t] /= "done")

Init ==
  /\ region \in Regions \cup {"other"} /\ asn \in ASNs
  /\ net \in [Targets -> {"open", "blocked", "noroute"}]
  /\ probe = [t \in Targets |-> "dialing"]
  /\ result = [t \in Targets |-> "unset"]
  /\ decision = Undecided

-----------------------------------------------------------------------------
(* autoprobe.Run.                                                          *)

\* A dial of a UDP socket sends nothing: it fails only without a route.
DialSucceeds(t) ==
  IF t = "udp443" THEN net[t] /= "noroute" ELSE net[t] = "open"

\* Variant: a dial has no timeout.
DialUntimed(t) ==
  /\ probe[t] = "dialing" /\ net[t] /= "blocked"
  /\ probe' = [probe EXCEPT ![t] = IF DialSucceeds(t) THEN "ok" ELSE "failed"]
  /\ UNCHANGED <<region, asn, net, result, decision>>

\* A dial that would succeed may still run into the timeout, unless it is
\* UDP, which answers at once.
Dial(t) ==
  /\ probe[t] = "dialing"
  /\ \E outcome \in {"ok", "failed"} :
       /\ outcome = "ok" => DialSucceeds(t)
       /\ outcome = "failed" => ~DialSucceeds(t) \/ t /= "udp443"
       /\ probe' = [probe EXCEPT ![t] = outcome]
  /\ UNCHANGED <<region, asn, net, result, decision>>

\* store(st) under the mutex, then wg.Done.
Store(t) ==
  /\ probe[t] \in {"ok", "failed"}
  /\ result' = [result EXCEPT ![t] = probe[t]]
  /\ probe' = [probe EXCEPT ![t] = "done"]
  /\ UNCHANGED <<region, asn, net, decision>>

-----------------------------------------------------------------------------
(* regionshield.Select.                                                    *)

OK(t) == result[t] = "ok"

Viable(m) ==
  \/ m = "quic_camouflage" /\ OK("udp443")
  \/ m \in TCPModes /\ OK("tcp443")
  \/ m = "dns_tunnel"

Overridden == region = "RU" /\ asn \in DOMAIN ISPOverrides

\* The place of the first viable mode, 0 if there is none.
FirstViable(chain) == SelectInSeq(chain, Viable)

SelectMode ==
  LET chain == Chain[region]
      first == FirstViable(chain)
  IN  CASE Overridden -> [mode |-> ISPOverrides[asn].mode,
                          port |-> ISPOverrides[asn].port, reason |-> "isp-override"]
        [] ~Overridden /\ first > 0 ->
                         [mode |-> chain[first], port |-> 443, reason |-> "chain"]
        [] OTHER -> [mode |-> "dns_tunnel", port |-> 443, reason |-> "last-resort"]

\* wg.Wait; then the region's profile is looked up, and Select is called if
\* there is one.
Select ==
  /\ decision = Undecided
  /\ \A t \in Targets : probe[t] = "done"
  /\ decision' = IF region \in Regions THEN SelectMode ELSE UnknownRegion
  /\ UNCHANGED <<region, asn, net, probe, result>>

Next == (\E t \in Targets : Dial(t) \/ Store(t)) \/ Select

\* Every probe is bounded by its timeout.
Spec == /\ Init /\ [][Next]_vars
        /\ \A t \in Targets : WF_vars(Dial(t)) /\ WF_vars(Store(t))
        /\ WF_vars(Select)

-----------------------------------------------------------------------------
(* Properties.                                                             *)

Decided == decision /= Undecided

\* What the command reports without an override fits the network and the order
\* of the region's chain: a TCP mode works, QUIC is not chosen where TCP was
\* found to work, and dns_tunnel is a last resort, never preferred to a mode of
\* the chain whose probe succeeded (Select, profile.go:46-48, profile_test.go:44).
ChainRespectsNetwork ==
  decision.reason \in {"chain", "last-resort"} =>
    /\ decision.mode \in TCPModes => net["tcp443"] = "open"
    /\ decision.mode \in {"quic_camouflage", "dns_tunnel"} => ~OK("tcp443")
    /\ decision.mode = "dns_tunnel" /\ "quic_camouflage" \in Range(Chain[region]) =>
         ~OK("udp443")
    /\ decision.mode \in Range(Chain[region]) \cup {"dns_tunnel"}

\* A decision is made on every network: no probe outlasts its timeout ("returns
\* when the slowest finishes", probe.go:58).
AlwaysDecides == <>Decided

\* "must not pick QUIC when UDP is dead" (profile_test.go:30), where AutoProbe
\* is to find out whether UDP/443 is reachable (probe.go:5).
NoQUICWhenUDPDead ==
  decision.mode = "quic_camouflage" => net["udp443"] = "open"
=============================================================================
