---------------------------- MODULE SessionCodec ----------------------------
(***************************************************************************)
(* The canonical session descriptor (core/session_codec.py).  A descriptor *)
(* is a text with a prefix and a token, here a record; the token is the    *)
(* base64 text of a JSON object, here the object itself: a function from   *)
(* keys to values (the text is canonical, so equal objects have equal      *)
(* texts), or Malformed for a text that is not such an object.             *)
(***************************************************************************)
EXTENDS Integers

Prefix == "prt1."
Empty == ""
Malformed == [x \in {} |-> Empty]

RequiredKeys == {"version", "provider", "provider_session_id", "identity_fingerprint",
                 "configuration_fingerprint", "profile", "level", "context_policy", "security_policy"}
OptionalKeys == {"descriptor_nonce"}

(* encode() of values that are not empty (the runtime passes no other); a  *)
(* nonce that is not given is no key.                                      *)
Encode(values) ==
    [prefix |-> Prefix,
     token |-> [k \in DOMAIN values \cup {"version"} |->
                    IF k = "version" THEN 1 ELSE values[k]]]

(* decode(): prefix, JSON object, exactly the known keys, version, values. *)
Decodable(d) ==
    /\ d.prefix = Prefix
    /\ DOMAIN d.token \in {RequiredKeys, RequiredKeys \cup OptionalKeys}
    /\ d.token["version"] = 1
    /\ \A k \in DOMAIN d.token \ {"version"} : d.token[k] # Empty

Decode(d) == [k \in DOMAIN d.token \ {"version"} |-> d.token[k]]
=============================================================================
