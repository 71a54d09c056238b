---------------------------- MODULE NodePayload ----------------------------
(***************************************************************************)
(* What a node may send to POST /register and what each registry decides:  *)
(* cloudflare-registry/src/validators.js and go-registry/store.go.         *)
(*                                                                         *)
(* Texts and hosts stand for classes that some check or some rendering     *)
(* tells apart.                                                            *)
(***************************************************************************)
EXTENDS Naturals, Sequences

\* "" is empty, "plain" and "other" two ASCII texts, "spaced" and "comma" the
\* same text with a space and with a comma, "accent" Latin-1 beyond ASCII,
\* "han" beyond Latin-1, "hanLong" at most 80 UTF-16 units but more than 80
\* bytes, "long" more than 80 of both, "number" (passwords only) a JSON number.
Text == {"", "plain", "other", "spaced", "comma", "accent", "han", "hanLong",
         "long", "number"}

Host == {"", "domain", "domain2", "ipv4", "ipv6", "word", "long"}

\* With one number too small and one too large.
Port == 0 .. 65536

Protocol ==
    [type : {"trojan", "shadowsocks", "vmess"}, port : Port,
     password : Text, method : {"", "aes"}, sni : Host, tls : BOOLEAN]

\* Body: the payload is the request's JSON, or is followed by more text, or
\* there is no JSON, or more than 64 kB.  extra: an unknown field.
Body == {"json", "trailing", "garbage", "huge"}

-----------------------------------------------------------------------------
(* Both validators.                                                        *)

\* /^[A-Za-z0-9][A-Za-z0-9.-]{0,252}[A-Za-z0-9]$/
hostPattern == {"domain", "domain2", "ipv4", "word"}
Dotted == {"domain", "domain2", "ipv4", "long"}

ValidPort == 1 .. 65535

validateProtocol(p, hosts) ==
    /\ p.port \in ValidPort
    /\ p.password # ""
    /\ \/ p.type = "trojan" /\ p.sni \in {""} \cup hosts
       \/ p.type = "shadowsocks" /\ p.method # ""

\* NodeID holds what the pattern of node_id accepts, hosts what isValidHost does.
validate(node, NodeID, tooLong, hosts) ==
    /\ node.schema_version = 1
    /\ node.node_id \in NodeID
    /\ node.name \notin {""} \cup tooLong
    /\ node.host \in hosts
    /\ node.protocols # <<>>
    /\ \A i \in DOMAIN node.protocols :
          validateProtocol(node.protocols[i], hosts)

-----------------------------------------------------------------------------
(* The Worker.                                                             *)

\* A plausible bug: a name without a dot passes.
isValidHostUndotted(h) == h \in hostPattern

\* Four numbers with dots, or a dotted name.
isValidHost(h) == h = "ipv4" \/ h \in Dotted \cap hostPattern

\* String.length counts UTF-16 units.
validateNode(node, NodeID) ==
    validate(node, NodeID, {"long"}, {h \in Host : isValidHost(h)})

-----------------------------------------------------------------------------
(* The Go server.                                                          *)

\* net.ParseIP, or a dotted name.
goIsValidHost(h) == h \in {"ipv4", "ipv6"} \/ h \in Dotted \cap hostPattern

\* len counts bytes.
goValidateNode(node, NodeID) ==
    validate(node, NodeID, {"long", "hanLong"}, {h \in Host : goIsValidHost(h)})

\* json.Decoder with DisallowUnknownFields, into typed fields; it stops after
\* the first value.
goDecodes(node) ==
    /\ node.body \in {"json", "trailing"}
    /\ ~node.extra
    /\ \A i \in DOMAIN node.protocols : node.protocols[i].password # "number"
=============================================================================
