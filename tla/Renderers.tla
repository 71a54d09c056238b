----------------------------- MODULE Renderers -----------------------------
(***************************************************************************)
(* cloudflare-registry/src/renderers.js, and where go-registry/renderers.go *)
(* differs from it: the subscription as the client program reads it.       *)
(* renderClash, renderShadowrocketConfig and renderSingBox of both say the *)
(* same.                                                                   *)
(***************************************************************************)
EXTENDS NodePayload, SequencesExt

CONSTANT Failed     \* no document: an exception or an unsupported format

-----------------------------------------------------------------------------
(* Encodings: what is read back from what was written.                     *)

\* String(value)
String == [t \in Text |-> IF t = "number" THEN "digits" ELSE t]

\* A client undoes encodeURIComponent by percent-decoding; url.QueryEscape
\* writes a space as +, which percent-decoding leaves alone.
encodeURIComponent == String
QueryEscape == [t \in Text |-> IF t = "spaced" THEN "with +" ELSE t]

\* btoa takes Latin-1 and writes one byte each; the client reads UTF-8.
Latin1 == Text \ {"han", "hanLong"}
base64UrlEncode == [String EXCEPT !["accent"] = "not UTF-8"]

\* Separators of shadowrocket.conf: a comma becomes a space in a name, %2C in
\* a value.
shadowrocketName == [String EXCEPT !["comma"] = "spaced"]
shadowrocketValue == [String EXCEPT !["comma"] = "with %2C"]

\* String escapes of YAML are undone by its reader.
yamlQuote == String

\* JSON.stringify keeps a number a number.
asIs == [t \in Text |-> t]

-----------------------------------------------------------------------------
(* One entry for each protocol of each node.                               *)

Suffix == [trojan |-> "-Trojan", shadowsocks |-> "-SS"]

\* A plausible bug: both protocols of a node get the name of the node.
nameBare(node, p, code) == <<code[node.name], "">>

name(node, p, code) == <<code[node.name], Suffix[p.type]>>

FirstOf(h, default) == IF h # "" THEN h ELSE default

\* A plausible bug: only the first protocol of a node is listed.
eachFirst(nodes) ==
    [i \in DOMAIN nodes |-> <<nodes[i], nodes[i].protocols[1]>>]

\* for (const node of nodes) for (const protocol of node.protocols)
each(nodes) ==
    FlattenSeq([i \in DOMAIN nodes |->
        [j \in DOMAIN nodes[i].protocols |-> <<nodes[i], nodes[i].protocols[j]>>]])

Entries(nodes, Entry(_, _)) ==
    LET pairs == each(nodes)
    IN  [k \in DOMAIN pairs |-> Entry(pairs[k][1], pairs[k][2])]

\* An entry of a list of links, of Clash, of shadowrocket.conf, of sing-box:
\* more holds what the two protocols write differently.
trojanOrSS(p, trojan, ss) == IF p.type = "trojan" THEN trojan ELSE ss

\* Neither registry brackets an IPv6 address, so no client can split the link.
authority(h) == IF h = "ipv6" THEN "unreadable" ELSE h

link(node, p, code, user) ==
    [name |-> name(node, p, code), server |-> authority(node.host),
     port |-> p.port,
     more |-> trojanOrSS(p, [password |-> code[p.password], sni |-> p.sni,
                             tls |-> p.tls],
                            [password |-> user[p.password],
                             method |-> p.method])]

clashProxy(node, p) ==
    [name |-> name(node, p, yamlQuote), server |-> node.host, port |-> p.port,
     password |-> yamlQuote[p.password],
     more |-> trojanOrSS(p, [sni |-> FirstOf(p.sni, node.host)],
                            [cipher |-> p.method])]

shadowrocketProxy(node, p) ==
    [name |-> name(node, p, shadowrocketName), server |-> node.host,
     port |-> p.port, password |-> shadowrocketValue[p.password],
     more |-> trojanOrSS(p, [sni |-> FirstOf(p.sni, node.host)],
                            [method |-> p.method])]

outbound(node, p) ==
    [name |-> name(node, p, asIs), server |-> node.host,
     port |-> p.port, password |-> p.password,
     more |-> trojanOrSS(p, [sni |-> FirstOf(p.sni, node.host),
                             tls |-> p.tls],
                            [method |-> p.method])]

-----------------------------------------------------------------------------
(* The documents: the proxies they define, the members of the group PROXY, *)
(* the rule sets they define, and their rules in order.                    *)

\* btoa throws on a character beyond Latin-1, and no link is written.
renderLinks(nodes) ==
    IF \E i \in DOMAIN nodes : \E j \in DOMAIN nodes[i].protocols :
          /\ nodes[i].protocols[j].type = "shadowsocks"
          /\ nodes[i].protocols[j].password \notin Latin1
    THEN Failed
    ELSE [proxies |-> Entries(nodes, LAMBDA node, p :
                         link(node, p, encodeURIComponent, base64UrlEncode))]

goRenderLinks(nodes) ==
    [proxies |-> Entries(nodes, LAMBDA node, p :
                     link(node, p, QueryEscape, String))]

\* The built-in proxy DIRECT, as a name.
Direct == <<"DIRECT", "">>

names(proxies) == [i \in DOMAIN proxies |-> proxies[i].name]

renderClash(nodes) ==
    [proxies   |-> Entries(nodes, clashProxy),
     select    |-> names(Entries(nodes, clashProxy)) \o <<Direct>>,
     providers |-> {"direct", "proxy", "cncidr", "lancidr"},
     rules     |-> <<<<"lancidr", "DIRECT">>, <<"direct", "DIRECT">>,
                     <<"cncidr", "DIRECT">>, <<"proxy", "PROXY">>,
                     <<"GEOIP", "DIRECT">>, <<"MATCH", "PROXY">>>>]

\* A plausible bug: the group lists the names before shadowrocketName.
renderShadowrocketConfigRaw(nodes) ==
    [proxies   |-> Entries(nodes, shadowrocketProxy),
     select    |-> names(Entries(nodes, outbound)) \o <<Direct>>,
     providers |-> {},
     rules     |-> <<<<"GEOIP", "DIRECT">>, <<"MATCH", "PROXY">>>>]

\* Its two rule sets are given by their URL, FINAL is its MATCH.
renderShadowrocketConfig(nodes) ==
    [proxies   |-> Entries(nodes, shadowrocketProxy),
     select    |-> names(Entries(nodes, shadowrocketProxy)) \o <<Direct>>,
     providers |-> {},
     rules     |-> <<<<"GEOIP", "DIRECT">>, <<"MATCH", "PROXY">>>>]

renderSingBox(nodes) ==
    [proxies |-> Entries(nodes, outbound), final |-> "direct"]

\* format, in lower case.
Links == {"shadowrocket", "links", "plain", "base64"}
Clash == {"clash", "mihomo"}
Conf == {"shadowrocket-conf", "shadowrocket-config", "sr-conf", "srconfig"}
SingBox == {"sing-box", "singbox"}
Supported == Links \cup Clash \cup Conf \cup SingBox

render(format, nodes, links) ==
    CASE format \in Links   -> links
      [] format \in Clash   -> renderClash(nodes)
      [] format \in Conf    -> renderShadowrocketConfig(nodes)
      [] format \in SingBox -> renderSingBox(nodes)
      [] OTHER              -> Failed

\* A plausible bug: the two registries differ in their default format.
renderSubscriptionClash(format, nodes) ==
    render(IF format = "" THEN "clash" ELSE format, nodes, renderLinks(nodes))

\* "" is no format: handleSub asks for shadowrocket.
renderSubscription(format, nodes) ==
    render(IF format = "" THEN "shadowrocket" ELSE format, nodes, renderLinks(nodes))

\* handleSub in Go also trims the format: " clash" stands for such a request.
goRenderSubscription(format, nodes) ==
    render(CASE format = "" -> "shadowrocket"
             [] format = " clash" -> "clash"
             [] OTHER -> format, nodes, goRenderLinks(nodes))
=============================================================================
