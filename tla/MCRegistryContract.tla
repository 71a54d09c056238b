------------------------- MODULE MCRegistryContract -------------------------
(* TLC instance of RegistryContract: an ordinary payload and its variations. *)
EXTENDS RegistryContract

Trojan == [type |-> "trojan", port |-> 443, password |-> "plain", method |-> "",
           sni |-> "domain", tls |-> TRUE]
SS == [type |-> "shadowsocks", port |-> 8080, password |-> "plain",
       method |-> "aes", sni |-> "", tls |-> FALSE]

Ordinary ==
    [body |-> "json", extra |-> FALSE, schema_version |-> 1, name |-> "plain",
     host |-> "domain", protocols |-> <<Trojan, SS>>]

Only(p) == [Ordinary EXCEPT !.protocols = <<p>>]

\* Payloads some registry accepts.
MCAccepted ==
    {Ordinary,
     [Ordinary EXCEPT !.name = "other", !.host = "domain2"],
     [Ordinary EXCEPT !.name = "hanLong"],
     [Ordinary EXCEPT !.name = "comma"],
     [Ordinary EXCEPT !.name = "spaced", !.host = "ipv4"],
     [Ordinary EXCEPT !.host = "ipv6"],
     [Ordinary EXCEPT !.body = "trailing"],
     [Ordinary EXCEPT !.extra = TRUE],
     Only([Trojan EXCEPT !.sni = ""]),
     Only([Trojan EXCEPT !.password = "number"]),
     Only([SS EXCEPT !.password = "han"]),
     Only([SS EXCEPT !.password = "accent"])}

\* Payloads both refuse.
MCRefused ==
    {[Ordinary EXCEPT !.body = "garbage"],
     [Ordinary EXCEPT !.body = "huge"],
     [Ordinary EXCEPT !.schema_version = 2],
     [Ordinary EXCEPT !.name = ""],
     [Ordinary EXCEPT !.name = "long"],
     [Ordinary EXCEPT !.host = "word"],
     [Ordinary EXCEPT !.host = "long"],
     [Ordinary EXCEPT !.protocols = <<>>],
     Only([Trojan EXCEPT !.port = 0]),
     Only([Trojan EXCEPT !.port = 65536]),
     Only([Trojan EXCEPT !.sni = "word"]),
     Only([Trojan EXCEPT !.password = ""]),
     Only([SS EXCEPT !.method = ""]),
     Only([SS EXCEPT !.type = "vmess"])}

MCPayload == MCAccepted \cup MCRefused

MCFormat == {"", "base64", "clash", " clash", "sr-conf", "singbox", "surge"}
=============================================================================
