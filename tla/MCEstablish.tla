---------------------------- MODULE MCEstablish ----------------------------
(* A small instance of Establish: tokens and addresses of a few bytes.     *)
EXTENDS Establish

MCMappedPrefix == <<0>>
MCLetters == [k \in {65, 66, 67} |->
                CASE k = 65 -> {} [] k = 66 -> {"/"} [] k = 67 -> {"+", "/"}]

\* Two runs of keygen for one decoy, one without a decoy, and the first with
\* another UUID, or another decoy, entered by hand.
MCInstalls ==
  {[key |-> 65, uuid |-> 1, decoy |-> {"front"}],
   [key |-> 66, uuid |-> 2, decoy |-> {"front"}],
   [key |-> 67, uuid |-> 3, decoy |-> {}],
   [key |-> 65, uuid |-> 2, decoy |-> {"front"}],
   [key |-> 65, uuid |-> 1, decoy |-> {"other"}]}

\* An IPv4 address, an IPv6 address, a mapped one, a name, a name that spells
\* an address, no name, and a port that does not fit 16 bits.
MCDests ==
  {[atyp |-> 1, addr |-> <<9>>, port |-> <<8, 0>>],
   [atyp |-> 4, addr |-> <<7, 9>>, port |-> <<6, 5, 5, 3, 5>>],
   [atyp |-> 4, addr |-> <<0, 9>>, port |-> <<4, 4, 3>>],
   [atyp |-> 3, addr |-> <<97, 98, 99>>, port |-> <<0>>],
   [atyp |-> 3, addr |-> <<57>>, port |-> <<2, 5, 6>>],
   [atyp |-> 3, addr |-> <<>>, port |-> <<8, 0>>],
   [atyp |-> 3, addr |-> <<97>>, port |-> <<6, 5, 6, 1, 6>>]}

MCSpelled == [name \in {<<57>>} |-> <<9>>]
MCPayload == <<1, 3>>
=============================================================================
