-------------------------- MODULE RegistryContract --------------------------
(***************************************************************************)
(* The same requests sent to a Go server and to a Worker, one after the    *)
(* other, and the subscriptions both then serve.                           *)
(* docs/cloudflare-registry-design.md promises that a node installer need  *)
(* not know which one it talks to.  What each service does to concurrent   *)
(* requests and failing statements is in GoNodeStore and CloudflareWorker. *)
(*                                                                         *)
(* drifted is a history variable.                                          *)
(***************************************************************************)
EXTENDS Renderers

CONSTANTS
    NodeID,      \* identifiers the pattern of node_id accepts, in order; not 0
    Absent,      \* no node
    Payload,     \* what nodes send to POST /register
    Format       \* the formats clients ask for

ASSUME ContractAssumption ==
    /\ NodeID \subseteq Nat \ {0}
    /\ IsFiniteSet(NodeID)
    /\ \A p \in Payload :
          /\ p.body \in Body
          /\ p.extra \in BOOLEAN
          /\ p.schema_version \in Nat
          /\ p.name \in Text \ {"number"}
          /\ p.host \in Host
          /\ p.protocols \in Seq(Protocol)

VARIABLES
    go,        \* s.store of the Go server
    cf,        \* table nodes of the Worker
    drifted    \* nodes last changed by a request the two may treat differently

vars == <<go, cf, drifted>>

\* What is stored of a payload and rendered later.
Stored(p) == [name |-> p.name, host |-> p.host, protocols |-> p.protocols]

Init ==
    /\ go = [n \in NodeID |-> Absent]
    /\ cf = go
    /\ drifted = {}

-----------------------------------------------------------------------------
(* Requests and their answers.                                             *)

\* A register token, a subscribe token, ADMIN_TOKEN of the Worker, or none.
Credential == {"register", "subscribe", "admin", ""}

\* How a request writes the last part of its path: the text itself, with
\* escapes (%61b), with escapes of escapes (%2561b), a % that is no escape
\* (%zz), such a text escaped (%25zz), escapes that are not UTF-8 (%ff).
Spelling == {"plain", "escaped", "twice", "malformed", "garbage", "bytes"}

\* A payload as node n sends it; n outside NodeID fails the pattern.
From(n, p) ==
    [node_id |-> n, body |-> p.body, extra |-> p.extra,
     schema_version |-> p.schema_version, name |-> p.name, host |-> p.host,
     protocols |-> p.protocols]

\* A plausible bug: the payload is stored as it came.
handleRegisterUnvalidated(cred, node) ==
    IF cred # "register" THEN 401 ELSE IF node.body # "json" THEN 500 ELSE 200

\* An exception outside the try of validateNode is answered 500 by fetch.
handleRegister(cred, node) ==
    IF cred # "register" THEN 401
    ELSE IF node.body # "json" THEN 500
    ELSE IF ~validateNode(node, NodeID) THEN 400
    ELSE 200

goHandleRegister(cred, node) ==
    IF cred # "register" THEN 401
    ELSE IF ~goDecodes(node) \/ ~goValidateNode(node, NodeID) THEN 400
    ELSE 200

\* What one decoding makes of a spelling; it fails outside the domain.
decodeURIComponent ==
    [plain |-> "plain", escaped |-> "plain", twice |-> "escaped",
     garbage |-> "malformed"]

PathUnescape ==
    [plain |-> "plain", escaped |-> "plain", twice |-> "escaped",
     garbage |-> "malformed", bytes |-> "bytes"]

\* A plausible bug: the path is taken as the URL has it.
deleteNodeFromPathRaw(n, spelling, table) ==
    IF spelling # "plain" \/ n \notin NodeID THEN 400
    ELSE IF table[n] = Absent THEN 404
    ELSE 200

\* An exception of decodeURIComponent is answered 500 by fetch.
deleteNodeFromPath(n, spelling, table) ==
    IF spelling \notin DOMAIN decodeURIComponent THEN 500
    ELSE IF decodeURIComponent[spelling] # "plain" \/ n \notin NodeID THEN 400
    ELSE IF table[n] = Absent THEN 404
    ELSE 200

\* DELETE /api/nodes/n; the administrator may, too.
handleApiNode(cred, n, spelling, table) ==
    IF cred \notin {"register", "admin"} THEN 401
    ELSE deleteNodeFromPath(n, spelling, table)

\* net/http refuses what is no path and decodes the rest; the handler decodes
\* r.URL.Path again.
goHandleAPINode(cred, n, spelling, table) ==
    IF spelling \notin DOMAIN PathUnescape THEN 400
    ELSE IF cred # "register" THEN 401
    ELSE LET path == PathUnescape[spelling] IN
         IF path \notin DOMAIN PathUnescape THEN 400
         ELSE IF PathUnescape[path] # "plain" \/ n \notin NodeID THEN 400
         ELSE IF table[n] = Absent THEN 404
         ELSE 200

\* The numbers of S in order.
Ascending(S) ==
    CHOOSE s \in [1 .. Cardinality(S) -> S] :
        \A i, j \in DOMAIN s : i < j => s[i] < s[j]

Rows(table) ==
    LET ids == Ascending({n \in NodeID : table[n] # Absent})
    IN  [i \in DOMAIN ids |-> table[ids[i]]]

\* GET /sub with a subscribe token: the document, or Failed for a 400.
handleSub(format) == renderSubscription(format, Rows(cf))
goHandleSub(format) == goRenderSubscription(format, Rows(go))

-----------------------------------------------------------------------------
\* Both services are meant to treat p alike: it is what a careful installer
\* sends.  What is left out is where they are known to differ.
Portable(p) ==
    /\ p.body = "json"
    /\ ~p.extra
    /\ p.host # "ipv6"
    /\ p.name # "hanLong"
    /\ \A i \in DOMAIN p.protocols :
          p.protocols[i].password # "number" /\ p.protocols[i].sni # "ipv6"

\* Likewise a removal: the services are known to differ about ADMIN_TOKEN, and
\* about ids that are escaped twice or not decodable.
PortableRemoval(cred, spelling) ==
    /\ cred # "admin"
    /\ spelling \in {"plain", "escaped", "garbage"}

\* A plausible bug: a registration that is refused removes the old row.
registerClears(n, p) ==
    LET node == From(n, p) IN
    /\ go' = IF goHandleRegister("register", node) = 200
             THEN [go EXCEPT ![n] = Stored(p)] ELSE go
    /\ cf' = [cf EXCEPT ![n] = IF handleRegister("register", node) = 200
                               THEN Stored(p) ELSE Absent]
    /\ drifted' = IF ~Portable(p) THEN drifted \cup {n}
                  ELSE IF handleRegister("register", node) = 200
                  THEN drifted \ {n} ELSE drifted

register(n, p) ==
    LET node == From(n, p) IN
    /\ go' = IF goHandleRegister("register", node) = 200
             THEN [go EXCEPT ![n] = Stored(p)] ELSE go
    /\ cf' = IF handleRegister("register", node) = 200
             THEN [cf EXCEPT ![n] = Stored(p)] ELSE cf
    /\ drifted' = IF ~Portable(p) THEN drifted \cup {n}
                  ELSE IF handleRegister("register", node) = 200
                  THEN drifted \ {n} ELSE drifted

delete(n, cred, spelling) ==
    /\ go' = IF goHandleAPINode(cred, n, spelling, go) = 200
             THEN [go EXCEPT ![n] = Absent] ELSE go
    /\ cf' = IF handleApiNode(cred, n, spelling, cf) = 200
             THEN [cf EXCEPT ![n] = Absent] ELSE cf
    /\ go # go' \/ cf # cf'
    /\ drifted' = IF PortableRemoval(cred, spelling)
                  THEN drifted \ {n} ELSE drifted \cup {n}

Next ==
    \E n \in NodeID :
        \/ \E p \in Payload : register(n, p)
        \/ \E cred \in Credential, spelling \in Spelling : delete(n, cred, spelling)

Spec == Init /\ [][Next]_vars

-----------------------------------------------------------------------------
(* Properties.                                                             *)

\* Each table holds only rows that its own registry's validator accepts.
Table(Accepts(_, _)) ==
    [NodeID -> {Absent} \cup
        {Stored(p) : p \in {q \in Payload : \A n \in NodeID : Accepts(From(n, q), NodeID)}}]

TypeOK ==
    /\ go \in Table(goValidateNode)
    /\ cf \in Table(validateNode)
    /\ drifted \subseteq NodeID

\* Every request an installer or operator may send gets the same answer from
\* both, unless it is not portable or an earlier one about that node was not
\* (handleRegister, handleAPINode, handleApiNode, the validators).
AnswersAgree ==
    \A n \in NodeID \cup {0}, cred \in Credential :
        /\ \A p \in Payload : Portable(p) =>
              handleRegister(cred, From(n, p)) = goHandleRegister(cred, From(n, p))
        /\ \A spelling \in Spelling :
              PortableRemoval(cred, spelling) /\ n \notin drifted =>
                  handleApiNode(cred, n, spelling, cf)
                    = goHandleAPINode(cred, n, spelling, go)

\* The two registries hold the same nodes, except where a payload or removal
\* that is not portable came after the last portable one.
TablesAgree == \A n \in NodeID \ drifted : go[n] = cf[n]

Passwords(table) ==
    UNION {{table[n].protocols[i].password : i \in DOMAIN table[n].protocols} :
           n \in {k \in NodeID : table[k] # Absent}}

\* Clients read the same proxies from both in every format, as long as the
\* tables agree, no format has spaces around it, names and passwords have no
\* spaces and passwords are ASCII text (renderLinks in both languages).
SubscriptionsAgree ==
    /\ drifted = {}
    /\ Passwords(cf) \cap {"spaced", "accent", "han", "hanLong"} = {}
    /\ \A n \in NodeID : cf[n] # Absent => cf[n].name # "spaced"
    => \A f \in Format \ {" clash"} : handleSub(f) = goHandleSub(f)

Documents ==
    {d \in {handleSub(f) : f \in Format} \cup {goHandleSub(f) : f \in Format} :
        d # Failed}

Count(seq, Test(_)) == Cardinality({i \in DOMAIN seq : Test(seq[i])})

\* The document offers each protocol of each row once, at the row's host and
\* the protocol's port, and nothing else.
Offers(doc, rows) ==
    LET stated == FlattenSeq([i \in DOMAIN rows |->
            [j \in DOMAIN rows[i].protocols |->
                <<rows[i].host, rows[i].protocols[j].port>>]])
        offered == [k \in DOMAIN doc.proxies |->
            <<doc.proxies[k].server, doc.proxies[k].port>>]
    IN  \A at \in ToSet(stated) \cup ToSet(offered) :
            Count(stated, LAMBDA x : x = at) = Count(offered, LAMBDA x : x = at)

Hosts(table) == {table[n].host : n \in {k \in NodeID : table[k] # Absent}}

\* Of every node in a table, every protocol is offered exactly once, at the
\* node's host and the protocol's port, in every format that is served (each
\* renderer's two loops).  IPv6 hosts, which only Go accepts, are lost in links.
EveryProtocolOffered ==
    \A f \in Format :
        /\ handleSub(f) # Failed => Offers(handleSub(f), Rows(cf))
        /\ goHandleSub(f) # Failed /\ "ipv6" \notin Hosts(go)
              => Offers(goHandleSub(f), Rows(go))

\* Nodes whose names differ, also after shadowrocketName, and that list each
\* protocol once.
Distinct(table) ==
    LET ids == {n \in NodeID : table[n] # Absent} IN
    /\ \A m, n \in ids : m # n =>
          shadowrocketName[table[m].name] # shadowrocketName[table[n].name]
    /\ \A n \in ids : \A i, j \in DOMAIN table[n].protocols : i # j =>
          table[n].protocols[i].type # table[n].protocols[j].type

\* Proxy names are unique in every document, as Clash and sing-box demand, if
\* the names of the nodes are (neither registry asks for that).
NamesUnique ==
    /\ Distinct(cf)
    /\ Distinct(go)
    => \A d \in Documents : IsInjective(names(d.proxies))

\* Every document refers only to what it defines: the group PROXY offers
\* exactly the proxies, rules use defined rule sets and groups, and the last
\* rule catches the rest (renderClash, renderShadowrocketConfig).
ReferencesResolve ==
    \A d \in {e \in Documents : "rules" \in DOMAIN e} :
        /\ ToSet(d.select) = ToSet(names(d.proxies)) \cup {Direct}
        /\ \A i \in DOMAIN d.rules :
              /\ d.rules[i][1] \in d.providers \cup {"GEOIP", "MATCH"}
              /\ d.rules[i][2] \in {"PROXY", "DIRECT"}
        /\ Last(d.rules)[1] = "MATCH"

\* Whatever nodes have registered, a subscriber gets them, in every format
\* (docs/requirements.md:5).
AlwaysSubscribed == \A f \in Supported : handleSub(f) # Failed
=============================================================================
