-------------------------------- MODULE Uri --------------------------------
(***************************************************************************)
(* The avangard:// URI (pkg/uri/uri.go): what String puts into it and what *)
(* Parse takes out again.  A field that may be missing is a set of at most *)
(* one value; the escapes of net/url are a library's.                      *)
(***************************************************************************)
EXTENDS Integers, FiniteSets

CONSTANT Letters  \* of each key, which of "+" and "/" its standard base64 has

Params == {"sni", "fp", "mode", "region", "tofu"}

\* A key has 32 bytes, or it is cut off.
PkText(key, encoding, size) == [key |-> key, encoding |-> encoding, size |-> size]

String(c) ==
  [scheme |-> "avangard", user |-> {c.uuid}, host |-> {c.host}, port |-> {c.port},
   query |-> c.params, pk |-> {PkText(k, "rawurl", 32) : k \in c.pk},
   fragment |-> c.name]

\* The parser tries unpadded URL base64, then padded standard base64; a "+"
\* that is not escaped reads as a space.
Decodes(text) ==
  \/ text.encoding = "rawurl"
  \/ text.encoding = "rawstd" /\ Letters[text.key] = {}
  \/ text.encoding = "std" /\ "+" \notin Letters[text.key]

Parsable(u) ==
  /\ u.scheme = "avangard"
  /\ u.user /= {} /\ u.host /= {} /\ u.port /= {}
  /\ \A text \in u.pk : Decodes(text) /\ text.size = 32

OrAuto(values) == IF values = {} THEN {"auto"} ELSE values

Parse(u) ==
  [uuid |-> CHOOSE x \in u.user : TRUE, host |-> CHOOSE x \in u.host : TRUE,
   port |-> CHOOSE x \in u.port : TRUE,
   params |-> [u.query EXCEPT !["mode"] = OrAuto(@), !["region"] = OrAuto(@)],
   pk |-> {text.key : text \in u.pk}, name |-> u.fragment]
=============================================================================
