-------------------------------- MODULE Codec --------------------------------
(***************************************************************************)
(* How an Allocation becomes the JSON object that etcd stores, and is read *)
(* back (model.go).  The struct is reduced to State and Interface, and the *)
(* interface to its hardware address.  encoding/json would write that      *)
(* address as base64; the custom methods write it the way that ParseMAC    *)
(* reads.                                                                  *)
(***************************************************************************)
CONSTANTS
  Parsable,   \* the addresses of 6, 8 or 20 octets, which net.ParseMAC accepts
  NoMAC,      \* an empty net.HardwareAddr
  Malformed   \* what ParseMAC answers to anything else

ASSUME NoMACIsNotParsable == NoMAC \notin Parsable /\ Malformed \notin Parsable \cup {NoMAC}

Text(mac) == [form |-> "text", of |-> mac]      \* mac.String()
Base64(mac) == [form |-> "base64", of |-> mac]

ParseMAC(text) ==
  IF text.form = "text" /\ text.of \in Parsable THEN text.of ELSE Malformed

\* encoding/json (external): of two fields with one name, the one of the outer struct
\* hides the one of the embedded struct.
Embed(outer, embedded) ==
  [field \in DOMAIN outer \cup DOMAIN embedded |->
     IF field \in DOMAIN outer THEN outer[field] ELSE embedded[field]]

\* The fields of an Allocation as encoding/json writes them.
AllocationAlias(a) == [State |-> a.State, Interface |-> Base64(a.Interface)]

\* Mutant: the address is left to encoding/json.
MarshalDefault(mac) == Base64(mac)

MarshalInterface(mac) == Text(mac)

UnmarshalInterface(text) == IF text = Text(NoMAC) THEN NoMAC ELSE ParseMAC(text)

Encode(a) == Embed([Interface |-> MarshalInterface(a.Interface)], AllocationAlias(a))

Decode(object) ==
  [State |-> object.State, Interface |-> UnmarshalInterface(object.Interface)]

\* Decode returns an error.
Undecodable(object) == Decode(object).Interface = Malformed
=============================================================================
