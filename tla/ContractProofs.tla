--------------------------- MODULE ContractProofs ---------------------------
(***************************************************************************)
(* Theorems about RegistryContract: both registries judge every portable   *)
(* payload alike, hold the same nodes and serve the same subscriptions,    *)
(* which offer every protocol of every node, for any set of identifiers    *)
(* and payloads.                                                           *)
(***************************************************************************)
EXTENDS RegistryContract, ListProofs

Accepted(n, p) == handleRegister("register", From(n, p)) = 200
GoAccepted(n, p) == goHandleRegister("register", From(n, p)) = 200

\* The two differ on IPv6 addresses only.
LEMMA HostsAgree ==
    ASSUME NEW h \in Host, h # "ipv6"
    PROVE  isValidHost(h) <=> goIsValidHost(h)
BY DEF Host, isValidHost, goIsValidHost, Dotted, hostPattern

WorkerHosts == {h \in Host : isValidHost(h)}
GoHosts == {h \in Host : goIsValidHost(h)}

LEMMA HostsDecide ==
    ASSUME NEW p, NEW S, NEW T, p.sni \in S <=> p.sni \in T
    PROVE  validateProtocol(p, S) <=> validateProtocol(p, T)
BY DEF validateProtocol

LEMMA ProtocolsAgree ==
    ASSUME NEW p \in Protocol, p.sni # "ipv6"
    PROVE  validateProtocol(p, WorkerHosts) <=> validateProtocol(p, GoHosts)
<1>1. p.sni \in Host
  BY DEF Protocol
<1>2. p.sni \in WorkerHosts <=> p.sni \in GoHosts
  BY <1>1, HostsAgree DEF WorkerHosts, GoHosts
<1> QED
  BY <1>2, HostsDecide

\* Both validators accept the same portable payloads, whoever sends them.
LEMMA ValidatorsAgree ==
    ASSUME NEW p \in Payload, Portable(p), NEW n
    PROVE  validateNode(From(n, p), NodeID) <=> goValidateNode(From(n, p), NodeID)
<1>1. /\ p.host \in Host /\ p.host # "ipv6" /\ p.name # "hanLong"
      /\ p.protocols \in Seq(Protocol)
      /\ \A i \in DOMAIN p.protocols : p.protocols[i].sni # "ipv6"
  BY ContractAssumption DEF ContractAssumption, Portable
<1>2. \A i \in DOMAIN p.protocols :
         validateProtocol(p.protocols[i], WorkerHosts)
           <=> validateProtocol(p.protocols[i], GoHosts)
  <2> SUFFICES ASSUME NEW i \in DOMAIN p.protocols
               PROVE  validateProtocol(p.protocols[i], WorkerHosts)
                        <=> validateProtocol(p.protocols[i], GoHosts)
    OBVIOUS
  <2>1. p.protocols[i] \in Protocol
    BY <1>1
  <2> QED
    BY <1>1, <2>1, ProtocolsAgree
<1>3. p.host \in WorkerHosts <=> p.host \in GoHosts
  BY <1>1, HostsAgree DEF WorkerHosts, GoHosts
<1>4. p.name \notin {"", "long"} <=> p.name \notin {"", "long", "hanLong"}
  BY <1>1
<1>5. /\ validateNode(From(n, p), NodeID) <=> validate(From(n, p), NodeID, {"long"}, WorkerHosts)
      /\ goValidateNode(From(n, p), NodeID)
           <=> validate(From(n, p), NodeID, {"long", "hanLong"}, GoHosts)
  BY DEF validateNode, goValidateNode, WorkerHosts, GoHosts
<1> QED
  BY <1>2, <1>3, <1>4, <1>5 DEF validate, From

LEMMA RequestsAgree ==
    ASSUME NEW p \in Payload, Portable(p), NEW n, NEW cred
    PROVE  handleRegister(cred, From(n, p)) = goHandleRegister(cred, From(n, p))
<1>1. From(n, p).body = "json" /\ goDecodes(From(n, p))
  BY DEF Portable, goDecodes, From
<1> QED
  BY <1>1, ValidatorsAgree DEF handleRegister, goHandleRegister

\* A validator that accepts a payload from one node accepts it from every.
LEMMA ValidAnywhere ==
    ASSUME NEW n \in NodeID, NEW m \in NodeID, NEW p
    PROVE  /\ goValidateNode(From(n, p), NodeID) => goValidateNode(From(m, p), NodeID)
           /\ validateNode(From(n, p), NodeID) => validateNode(From(m, p), NodeID)
BY DEF goValidateNode, validateNode, validate, From

\* What each registry stores is what it accepts.
GoRows == {Stored(p) : p \in {q \in Payload :
              \A n \in NodeID : goValidateNode(From(n, q), NodeID)}}
WorkerRows == {Stored(p) : p \in {q \in Payload :
                  \A n \in NodeID : validateNode(From(n, q), NodeID)}}

LEMMA TypeParts ==
    TypeOK <=> /\ go \in [NodeID -> {Absent} \cup GoRows]
               /\ cf \in [NodeID -> {Absent} \cup WorkerRows]
               /\ drifted \subseteq NodeID
BY DEF TypeOK, Table, GoRows, WorkerRows

LEMMA AcceptedStored ==
    ASSUME NEW n \in NodeID, NEW p \in Payload
    PROVE  /\ GoAccepted(n, p) => Stored(p) \in GoRows /\ goDecodes(From(n, p))
           /\ Accepted(n, p) => Stored(p) \in WorkerRows
<1>1. /\ GoAccepted(n, p) => goValidateNode(From(n, p), NodeID) /\ goDecodes(From(n, p))
      /\ Accepted(n, p) => validateNode(From(n, p), NodeID)
  BY DEF GoAccepted, Accepted, goHandleRegister, handleRegister
<1> QED
  BY <1>1, ValidAnywhere DEF GoRows, WorkerRows

\* The typed fields of Go hold text where JSON had a number.
TextPasswords(row) ==
    \A j \in DOMAIN row.protocols : row.protocols[j].password # "number"

GoDecoded == \A n \in NodeID : go[n] # Absent => TextPasswords(go[n])

ContractInv == TypeOK /\ TablesAgree /\ GoDecoded

LEMMA ContractStarts == Init => ContractInv
<1> SUFFICES ASSUME Init PROVE ContractInv
  OBVIOUS
<1>1. TypeOK
  BY TypeParts DEF Init
<1> QED
  BY <1>1 DEF Init, ContractInv, TablesAgree, GoDecoded

LEMMA RegisterKeeps ==
    ASSUME ContractInv, NEW n \in NodeID, NEW p \in Payload, register(n, p)
    PROVE  ContractInv'
<1>0. /\ go \in [NodeID -> {Absent} \cup GoRows]
      /\ cf \in [NodeID -> {Absent} \cup WorkerRows]
      /\ drifted \subseteq NodeID
  BY TypeParts DEF ContractInv
<1>1. /\ go' = IF GoAccepted(n, p) THEN [go EXCEPT ![n] = Stored(p)] ELSE go
      /\ cf' = IF Accepted(n, p) THEN [cf EXCEPT ![n] = Stored(p)] ELSE cf
  BY DEF register, Accepted, GoAccepted
<1>2. TypeOK'
  <2>1. drifted' \subseteq NodeID
    BY <1>0 DEF register
  <2>2. /\ go' \in [NodeID -> {Absent} \cup GoRows]
        /\ cf' \in [NodeID -> {Absent} \cup WorkerRows]
    BY <1>0, <1>1, AcceptedStored
  <2> QED
    BY <2>1, <2>2 DEF TypeOK, Table, GoRows, WorkerRows
<1>3. GoDecoded'
  <2>1. GoAccepted(n, p) => TextPasswords(Stored(p))
    BY AcceptedStored DEF goDecodes, From, Stored, TextPasswords
  <2> QED
    BY <1>0, <1>1, <2>1 DEF ContractInv, GoDecoded
<1>4. \A k \in NodeID : k # n => go'[k] = go[k] /\ cf'[k] = cf[k]
  BY <1>1
<1>5. TablesAgree'
  <2>1. CASE ~Portable(p)
    <3>1. drifted' = drifted \cup {n}
      BY <2>1 DEF register
    <3> QED
      BY <1>4, <3>1 DEF ContractInv, TablesAgree
  <2>2. CASE Portable(p) /\ Accepted(n, p)
    <3>1. GoAccepted(n, p)
      BY <2>2, RequestsAgree DEF Accepted, GoAccepted
    <3>2. go'[n] = Stored(p) /\ cf'[n] = Stored(p)
      BY <1>0, <1>1, <2>2, <3>1
    <3>3. drifted' = drifted \ {n}
      BY <2>2 DEF register, Accepted
    <3> QED
      BY <1>4, <3>2, <3>3 DEF ContractInv, TablesAgree
  <2>3. CASE Portable(p) /\ ~Accepted(n, p)
    <3>1. ~GoAccepted(n, p)
      BY <2>3, RequestsAgree DEF Accepted, GoAccepted
    <3>2. go' = go /\ cf' = cf
      BY <1>1, <2>3, <3>1
    <3>3. drifted' = drifted
      BY <2>3 DEF register, Accepted
    <3> QED
      BY <3>2, <3>3 DEF ContractInv, TablesAgree
  <2> QED
    BY <2>1, <2>2, <2>3
<1> QED
  BY <1>2, <1>3, <1>5 DEF ContractInv

\* A portable removal means the same to both.
LEMMA RemovalsAgree ==
    ASSUME NEW cred, NEW spelling, PortableRemoval(cred, spelling), NEW n,
           NEW table, NEW goTable, n \in NodeID => table[n] = goTable[n]
    PROVE  handleApiNode(cred, n, spelling, table)
             = goHandleAPINode(cred, n, spelling, goTable)
<1>1. /\ DOMAIN decodeURIComponent = {"plain", "escaped", "twice", "garbage"}
      /\ DOMAIN PathUnescape = {"plain", "escaped", "twice", "garbage", "bytes"}
  BY DEF decodeURIComponent, PathUnescape
<1>2. spelling \in {"plain", "escaped", "garbage"} /\ cred # "admin"
  BY DEF PortableRemoval
<1>3. CASE spelling \in {"plain", "escaped"}
  <2>1. /\ decodeURIComponent[spelling] = "plain"
        /\ PathUnescape[spelling] = "plain" /\ PathUnescape["plain"] = "plain"
    BY <1>3 DEF decodeURIComponent, PathUnescape
  <2> QED
    BY <1>1, <1>2, <1>3, <2>1 DEF handleApiNode, goHandleAPINode, deleteNodeFromPath
<1>4. CASE spelling = "garbage"
  <2>1. decodeURIComponent[spelling] = "malformed" /\ PathUnescape[spelling] = "malformed"
    BY <1>4 DEF decodeURIComponent, PathUnescape
  <2> QED
    BY <1>1, <1>2, <1>4, <2>1 DEF handleApiNode, goHandleAPINode, deleteNodeFromPath
<1> QED
  BY <1>2, <1>3, <1>4

\* One that changes something leaves the node in neither registry.
LEMMA RemovalRemoves ==
    ASSUME ContractInv, NEW n \in NodeID, NEW cred, NEW spelling,
           PortableRemoval(cred, spelling), delete(n, cred, spelling)
    PROVE  go'[n] = Absent /\ cf'[n] = Absent
<1>0. go \in [NodeID -> {Absent} \cup GoRows] /\ cf \in [NodeID -> {Absent} \cup WorkerRows]
  BY TypeParts DEF ContractInv
<1>1. goHandleAPINode(cred, n, spelling, go) = 200 \/ handleApiNode(cred, n, spelling, cf) = 200
  BY DEF delete
<1>2. /\ DOMAIN decodeURIComponent = {"plain", "escaped", "twice", "garbage"}
      /\ DOMAIN PathUnescape = {"plain", "escaped", "twice", "garbage", "bytes"}
      /\ decodeURIComponent["garbage"] = "malformed" /\ PathUnescape["garbage"] = "malformed"
      /\ \A s \in {"plain", "escaped"} :
            decodeURIComponent[s] = "plain" /\ PathUnescape[s] = "plain"
  BY DEF decodeURIComponent, PathUnescape
<1>3. cred = "register" /\ spelling \in {"plain", "escaped"}
  BY <1>1, <1>2 DEF PortableRemoval, handleApiNode, goHandleAPINode, deleteNodeFromPath
<1>4. /\ goHandleAPINode(cred, n, spelling, go) = 200 <=> go[n] # Absent
      /\ handleApiNode(cred, n, spelling, cf) = 200 <=> cf[n] # Absent
  BY <1>2, <1>3 DEF handleApiNode, goHandleAPINode, deleteNodeFromPath
<1> QED
  BY <1>0, <1>4 DEF delete

LEMMA DeleteKeeps ==
    ASSUME ContractInv, NEW n \in NodeID, NEW cred, NEW spelling,
           delete(n, cred, spelling)
    PROVE  ContractInv'
<1>0. /\ go \in [NodeID -> {Absent} \cup GoRows]
      /\ cf \in [NodeID -> {Absent} \cup WorkerRows]
      /\ drifted \subseteq NodeID
  BY TypeParts DEF ContractInv
<1>1. /\ go' \in {go, [go EXCEPT ![n] = Absent]}
      /\ cf' \in {cf, [cf EXCEPT ![n] = Absent]}
      /\ drifted' = IF PortableRemoval(cred, spelling)
                    THEN drifted \ {n} ELSE drifted \cup {n}
  BY DEF delete
<1>2. /\ go' \in [NodeID -> {Absent} \cup GoRows]
      /\ cf' \in [NodeID -> {Absent} \cup WorkerRows]
      /\ drifted' \subseteq NodeID
  BY <1>0, <1>1
<1>3. TypeOK'
  BY <1>2 DEF TypeOK, Table, GoRows, WorkerRows
<1>4. GoDecoded'
  BY <1>0, <1>1 DEF ContractInv, GoDecoded
<1>5. TablesAgree'
  <2>1. \A k \in NodeID \ {n} : go'[k] = go[k] /\ cf'[k] = cf[k]
    BY <1>0, <1>1
  <2>2. PortableRemoval(cred, spelling) => go'[n] = cf'[n]
    BY RemovalRemoves
  <2>3. \A k \in NodeID \ drifted' : go'[k] = cf'[k]
    BY <1>1, <2>1, <2>2 DEF ContractInv, TablesAgree
  <2> QED
    BY <2>3 DEF TablesAgree
<1> QED
  BY <1>3, <1>4, <1>5 DEF ContractInv

LEMMA ContractAlways == Spec => []ContractInv
<1>1. ContractInv /\ [Next]_vars => ContractInv'
  <2>1. ContractInv /\ UNCHANGED vars => ContractInv'
    BY DEF vars, ContractInv, TypeOK, Table, TablesAgree, GoDecoded
  <2> QED
    BY <2>1, RegisterKeeps, DeleteKeeps DEF Next
<1> QED
  BY <1>1, ContractStarts, PTL DEF Spec

\* Type correctness: each table only ever holds rows that its own registry's
\* validator accepts, whatever is sent (validateNode, both languages).
THEOREM ContractTypeCorrect == Spec => []TypeOK
<1>1. ContractInv => TypeOK
  BY DEF ContractInv
<1> QED
  BY <1>1, ContractAlways, PTL

\* The two tables agree on every node whose last change was portable
\* (upsertNode, deleteNode and their counterparts in Go).
THEOREM TablesAlwaysAgree == Spec => []TablesAgree
<1>1. ContractInv => TablesAgree
  BY DEF ContractInv
<1> QED
  BY <1>1, ContractAlways, PTL

\* Whatever portable payload or removal, with whatever credential or node_id,
\* both registries answer with the same status, although one decodes a path
\* once and the other twice (deleteNodeFromPath, handleAPINode).
THEOREM AnswersAlwaysAgree == Spec => []AnswersAgree
<1>1. ContractInv => AnswersAgree
  <2> SUFFICES ASSUME ContractInv, NEW n \in NodeID \cup {0}, NEW cred \in Credential
               PROVE  /\ \A p \in Payload : Portable(p) =>
                            handleRegister(cred, From(n, p)) = goHandleRegister(cred, From(n, p))
                      /\ \A spelling \in Spelling :
                            PortableRemoval(cred, spelling) /\ n \notin drifted =>
                              handleApiNode(cred, n, spelling, cf)
                                = goHandleAPINode(cred, n, spelling, go)
    BY DEF AnswersAgree
  <2>1. n \in NodeID /\ n \notin drifted => cf[n] = go[n]
    BY DEF ContractInv, TablesAgree
  <2>2. ASSUME NEW spelling \in Spelling, PortableRemoval(cred, spelling), n \notin drifted
        PROVE  handleApiNode(cred, n, spelling, cf) = goHandleAPINode(cred, n, spelling, go)
    <3>1. n \in NodeID => cf[n] = go[n]
      BY <2>1, <2>2
    <3> QED
      BY <2>2, <3>1, RemovalsAgree
  <2>3. \A p \in Payload : Portable(p) =>
          handleRegister(cred, From(n, p)) = goHandleRegister(cred, From(n, p))
    BY RequestsAgree
  <2> QED
    BY <2>2, <2>3
<1> QED
  BY <1>1, ContractAlways, PTL

-----------------------------------------------------------------------------
(* The rows and the pairs the renderers loop over.                         *)

Row == [name : Text \ {"number"}, host : Host, protocols : Seq(Protocol)]

LEMMA StoredRow ==
    ASSUME NEW p \in Payload
    PROVE  Stored(p) \in Row
BY ContractAssumption DEF ContractAssumption, Stored, Row

LEMMA RowsTyped ==
    ASSUME ContractInv
    PROVE  /\ go \in [NodeID -> {Absent} \cup GoRows] /\ GoRows \subseteq Row
           /\ cf \in [NodeID -> {Absent} \cup WorkerRows] /\ WorkerRows \subseteq Row
BY TypeParts, StoredRow DEF ContractInv, GoRows, WorkerRows

\* Rows(table) has every row of the table, each once.
LEMMA RowsListed ==
    ASSUME NEW R, NEW table \in [NodeID -> {Absent} \cup R]
    PROVE  /\ Rows(table) \in Seq(R \ {Absent})
           /\ \E ids \in [DOMAIN Rows(table) -> NodeID] :
                 /\ \A i \in DOMAIN ids :
                       table[ids[i]] # Absent /\ Rows(table)[i] = table[ids[i]]
                 /\ \A i, j \in DOMAIN ids : i # j => ids[i] # ids[j]
<1> DEFINE S == {n \in NodeID : table[n] # Absent}
           ids == Ascending(S)
<1>1. S \in SUBSET Nat /\ IsFiniteSet(S)
  <2>1. S \in SUBSET NodeID
    OBVIOUS
  <2> QED
    BY <2>1, ContractAssumption, FS_Subset DEF ContractAssumption
<1> HIDE DEF S, ids
<1>2. /\ Cardinality(S) \in Nat
      /\ ids \in [1 .. Cardinality(S) -> S]
      /\ \A i, j \in DOMAIN ids : i < j => ids[i] < ids[j]
  BY <1>1, AscendingSorts DEF ids
<1>3. Rows(table) = [i \in 1 .. Cardinality(S) |-> table[ids[i]]]
  BY <1>2 DEF Rows, ids, S
<1>4. \A n \in S : n \in NodeID /\ n \in Nat /\ table[n] # Absent /\ table[n] \in R
  BY <1>1 DEF S
<1>5. \A i, j \in DOMAIN ids : i # j => ids[i] # ids[j]
  <2> SUFFICES ASSUME NEW i \in DOMAIN ids, NEW j \in DOMAIN ids, i < j
               PROVE  ids[i] # ids[j]
    BY <1>2
  <2>1. ids[i] < ids[j] /\ ids[i] \in Nat
    BY <1>2, <1>4
  <2> QED
    BY <2>1
<1>6. Rows(table) \in Seq(R \ {Absent})
  BY <1>2, <1>3, <1>4
<1>7. ids \in [DOMAIN Rows(table) -> NodeID]
  BY <1>2, <1>3, <1>4
<1>8. \A i \in DOMAIN ids : table[ids[i]] # Absent /\ Rows(table)[i] = table[ids[i]]
  BY <1>2, <1>3, <1>4
<1> QED
  BY <1>5, <1>6, <1>7, <1>8

\* What the nested loops of a renderer visit, in order: the places <<i, j>> of
\* protocol j of row i.
Spots(rows) ==
    FlattenSeq([i \in 1 .. Len(rows) |->
        [j \in 1 .. Len(rows[i].protocols) |-> <<i, j>>]])

\* A list with one entry for each protocol of each row, made flat.
LEMMA LoopsListed ==
    ASSUME NEW rows \in Seq(Row), NEW S, NEW a \in Seq(Seq(S)),
           Len(a) = Len(rows),
           \A i \in 1 .. Len(rows) : Len(a[i]) = Len(rows[i].protocols)
    PROVE  /\ FlattenSeq(a) \in Seq(S)
           /\ Spots(rows) \in Seq(Place)
           /\ DOMAIN FlattenSeq(a) = DOMAIN Spots(rows)
           /\ \A k \in DOMAIN Spots(rows) :
                 LET i == Spots(rows)[k][1]
                     j == Spots(rows)[k][2]
                 IN  /\ i \in 1 .. Len(rows)
                     /\ j \in 1 .. Len(rows[i].protocols)
                     /\ FlattenSeq(a)[k] = a[i][j]
           /\ IsInjective(Spots(rows))
<1>1. Spots(rows) = FlattenSeq(Places(a))
  <2>1. [i \in 1 .. Len(rows) |-> [j \in 1 .. Len(rows[i].protocols) |-> <<i, j>>]]
          = Places(a)
    BY DEF Places
  <2> QED
    BY <2>1 DEF Spots
<1>2. /\ FlattenSeq(a) \in Seq(S)
      /\ Spots(rows) \in Seq(Place)
      /\ Lists(FlattenSeq(a), Spots(rows), a, Len(a))
  BY <1>1, FlattenLists
<1> DEFINE f == FlattenSeq(a)
           w == Spots(rows)
<1> HIDE DEF f, w
<1>3. /\ f \in Seq(S) /\ w \in Seq(Place) /\ Lists(f, w, a, Len(rows))
  BY <1>2 DEF f, w
<1>4. DOMAIN f = 1 .. Len(f) /\ DOMAIN w = 1 .. Len(f)
  BY <1>3 DEF Lists
<1>5. IsInjective(w)
  BY <1>3, <1>4 DEF Lists, IsInjective
<1>6. ASSUME NEW k \in DOMAIN w
      PROVE  /\ w[k][1] \in 1 .. Len(rows)
             /\ w[k][2] \in 1 .. Len(rows[w[k][1]].protocols)
             /\ f[k] = a[w[k][1]][w[k][2]]
  BY <1>3, <1>4 DEF Lists
<1> QED
  BY <1>3, <1>4, <1>5, <1>6 DEF f, w

\* The pairs of rows and protocols that each makes.
LEMMA PairsListed ==
    ASSUME NEW rows \in Seq(Row)
    PROVE  /\ each(rows) \in Seq(Row \X Protocol)
           /\ Spots(rows) \in Seq(Place)
           /\ DOMAIN each(rows) = DOMAIN Spots(rows)
           /\ \A k \in DOMAIN Spots(rows) :
                 LET i == Spots(rows)[k][1]
                     j == Spots(rows)[k][2]
                 IN  /\ i \in 1 .. Len(rows)
                     /\ j \in 1 .. Len(rows[i].protocols)
                     /\ each(rows)[k] = <<rows[i], rows[i].protocols[j]>>
           /\ IsInjective(Spots(rows))
<1> DEFINE list(i) == [j \in DOMAIN rows[i].protocols |->
                          <<rows[i], rows[i].protocols[j]>>]
           a == [i \in DOMAIN rows |-> list(i)]
<1>1. ASSUME NEW i \in 1 .. Len(rows)
      PROVE  /\ list(i) \in Seq(Row \X Protocol)
             /\ Len(list(i)) = Len(rows[i].protocols)
             /\ \A j \in 1 .. Len(rows[i].protocols) :
                   list(i)[j] = <<rows[i], rows[i].protocols[j]>>
  <2>0. rows[i] \in Row
    OBVIOUS
  <2>1. rows[i].protocols \in Seq(Protocol)
    BY <2>0 DEF Row
  <2>2. /\ DOMAIN rows[i].protocols = 1 .. Len(rows[i].protocols)
        /\ Len(rows[i].protocols) \in Nat
    BY <2>1
  <2>3. \A j \in 1 .. Len(rows[i].protocols) :
           <<rows[i], rows[i].protocols[j]>> \in Row \X Protocol
    BY <2>0, <2>1
  <2> QED
    BY <2>2, <2>3
<1>2. /\ DOMAIN rows = 1 .. Len(rows) /\ Len(rows) \in Nat
  OBVIOUS
<1>3. \A i \in 1 .. Len(rows) : a[i] = list(i)
  BY <1>2
<1>4. each(rows) = FlattenSeq(a)
  BY DEF each
<1> HIDE DEF list
<1>5. a \in Seq(Seq(Row \X Protocol)) /\ Len(a) = Len(rows)
  BY <1>1, <1>2
<1> HIDE DEF a
<1>6. \A i \in 1 .. Len(rows) : Len(a[i]) = Len(rows[i].protocols)
  BY <1>1, <1>3
<1>7. /\ FlattenSeq(a) \in Seq(Row \X Protocol)
      /\ Spots(rows) \in Seq(Place)
      /\ DOMAIN FlattenSeq(a) = DOMAIN Spots(rows)
      /\ IsInjective(Spots(rows))
  BY <1>5, <1>6, LoopsListed
<1>8. \A k \in DOMAIN Spots(rows) :
         LET i == Spots(rows)[k][1]
             j == Spots(rows)[k][2]
         IN  /\ i \in 1 .. Len(rows)
             /\ j \in 1 .. Len(rows[i].protocols)
             /\ FlattenSeq(a)[k] = a[i][j]
  BY <1>5, <1>6, LoopsListed
<1> QED
  BY <1>1, <1>3, <1>4, <1>7, <1>8

-----------------------------------------------------------------------------
(* The documents.                                                          *)

WorkerKinds(rows) ==
    {renderLinks(rows), renderClash(rows), renderShadowrocketConfig(rows),
     renderSingBox(rows)}

GoKinds(rows) ==
    {goRenderLinks(rows), renderClash(rows), renderShadowrocketConfig(rows),
     renderSingBox(rows)}

LEMMA KindsOf ==
    ASSUME NEW f, NEW rows
    PROVE  /\ renderSubscription(f, rows) \in WorkerKinds(rows) \cup {Failed}
           /\ goRenderSubscription(f, rows) \in GoKinds(rows) \cup {Failed}
<1>1. ASSUME NEW g, NEW links
      PROVE  render(g, rows, links) \in
                 {links, renderClash(rows), renderShadowrocketConfig(rows),
                  renderSingBox(rows), Failed}
  BY DEF render
<1> QED
  BY <1>1 DEF renderSubscription, goRenderSubscription, WorkerKinds, GoKinds

\* The node and the protocol an entry is about.
NodeAt(rows, k) == rows[Spots(rows)[k][1]]
ProtocolAt(rows, k) == NodeAt(rows, k).protocols[Spots(rows)[k][2]]

LEMMA PairsAt ==
    ASSUME NEW rows \in Seq(Row)
    PROVE  /\ DOMAIN each(rows) = DOMAIN Spots(rows)
           /\ \A k \in DOMAIN Spots(rows) :
                 /\ each(rows)[k][1] = NodeAt(rows, k)
                 /\ each(rows)[k][2] = ProtocolAt(rows, k)
                 /\ NodeAt(rows, k) \in Row
                 /\ ProtocolAt(rows, k) \in Protocol
<1> SUFFICES ASSUME NEW k \in DOMAIN Spots(rows)
             PROVE  /\ each(rows)[k][1] = NodeAt(rows, k)
                    /\ each(rows)[k][2] = ProtocolAt(rows, k)
                    /\ NodeAt(rows, k) \in Row
                    /\ ProtocolAt(rows, k) \in Protocol
  BY PairsListed
<1> DEFINE i == Spots(rows)[k][1]
           j == Spots(rows)[k][2]
<1>1. /\ i \in 1 .. Len(rows)
      /\ j \in 1 .. Len(rows[i].protocols)
      /\ each(rows)[k] = <<rows[i], rows[i].protocols[j]>>
  BY PairsListed
<1> HIDE DEF i, j
<1>2. rows[i] \in Row
  BY <1>1
<1>3. rows[i].protocols \in Seq(Protocol)
  BY <1>2 DEF Row
<1>4. rows[i].protocols[j] \in Protocol
  BY <1>1, <1>3
<1>5. NodeAt(rows, k) = rows[i] /\ ProtocolAt(rows, k) = rows[i].protocols[j]
  BY DEF NodeAt, ProtocolAt, i, j
<1> QED
  BY <1>1, <1>2, <1>4, <1>5

LEMMA EntriesAt ==
    ASSUME NEW rows \in Seq(Row)
    PROVE  /\ renderClash(rows).proxies =
                 [k \in DOMAIN Spots(rows) |->
                     clashProxy(NodeAt(rows, k), ProtocolAt(rows, k))]
           /\ renderShadowrocketConfig(rows).proxies =
                 [k \in DOMAIN Spots(rows) |->
                     shadowrocketProxy(NodeAt(rows, k), ProtocolAt(rows, k))]
           /\ renderSingBox(rows).proxies =
                 [k \in DOMAIN Spots(rows) |->
                     outbound(NodeAt(rows, k), ProtocolAt(rows, k))]
           /\ goRenderLinks(rows).proxies =
                 [k \in DOMAIN Spots(rows) |->
                     link(NodeAt(rows, k), ProtocolAt(rows, k), QueryEscape, String)]
           /\ renderLinks(rows) # Failed =>
                 renderLinks(rows).proxies =
                 [k \in DOMAIN Spots(rows) |->
                     link(NodeAt(rows, k), ProtocolAt(rows, k),
                          encodeURIComponent, base64UrlEncode)]
<1>1. renderClash(rows).proxies =
          [k \in DOMAIN Spots(rows) |->
              clashProxy(NodeAt(rows, k), ProtocolAt(rows, k))]
  BY PairsAt DEF renderClash, Entries
<1>2. renderShadowrocketConfig(rows).proxies =
          [k \in DOMAIN Spots(rows) |->
              shadowrocketProxy(NodeAt(rows, k), ProtocolAt(rows, k))]
  BY PairsAt DEF renderShadowrocketConfig, Entries
<1>3. renderSingBox(rows).proxies =
          [k \in DOMAIN Spots(rows) |->
              outbound(NodeAt(rows, k), ProtocolAt(rows, k))]
  BY PairsAt DEF renderSingBox, Entries
<1>4. goRenderLinks(rows).proxies =
          [k \in DOMAIN Spots(rows) |->
              link(NodeAt(rows, k), ProtocolAt(rows, k), QueryEscape, String)]
  BY PairsAt DEF goRenderLinks, Entries
<1>5. renderLinks(rows) # Failed =>
          renderLinks(rows).proxies =
          [k \in DOMAIN Spots(rows) |->
              link(NodeAt(rows, k), ProtocolAt(rows, k),
                   encodeURIComponent, base64UrlEncode)]
  BY PairsAt DEF renderLinks, Entries
<1> QED
  BY <1>1, <1>2, <1>3, <1>4, <1>5

\* Every document is a kind of one of the two tables' rows.
LEMMA DocumentsAre ==
    ASSUME ContractInv, NEW d \in Documents
    PROVE  /\ d # Failed
           /\ d \in WorkerKinds(Rows(cf)) \cup GoKinds(Rows(go))
BY KindsOf DEF Documents, handleSub, goHandleSub

\* One kind for each table, of rows that the table holds.
LEMMA RowsAre ==
    ASSUME ContractInv
    PROVE  /\ Rows(go) \in Seq(Row)
           /\ Rows(cf) \in Seq(Row)
<1>1. Rows(go) \in Seq(GoRows \ {Absent}) /\ Rows(cf) \in Seq(WorkerRows \ {Absent})
  BY RowsTyped, RowsListed
<1>2. GoRows \ {Absent} \subseteq Row /\ WorkerRows \ {Absent} \subseteq Row
  BY RowsTyped
<1> QED
  BY <1>1, <1>2

-----------------------------------------------------------------------------
(* References.                                                             *)

LEMMA SetOfOneMore ==
    ASSUME NEW n \in Nat, NEW s, s = [i \in 1 .. n |-> s[i]], NEW x
    PROVE  ToSet(s \o <<x>>) = ToSet(s) \cup {x}
<1> DEFINE T == {s[i] : i \in 1 .. n} \cup {x}
           t == s \o <<x>>
<1>1. s \in Seq(T) /\ Len(s) = n /\ <<x>> \in Seq(T) /\ Len(<<x>>) = 1
  BY DEF T
<1> HIDE DEF T
<1>2. /\ Len(t) = n + 1 /\ t \in Seq(T)
      /\ \A i \in 1 .. n + 1 : t[i] = IF i <= n THEN s[i] ELSE <<x>>[i - n]
  BY <1>1, ConcatProperties
<1>3. DOMAIN t = 1 .. n + 1 /\ DOMAIN s = 1 .. n
  BY <1>1, <1>2
<1> HIDE DEF t
<1>4. (\A i \in 1 .. n : t[i] = s[i]) /\ t[n + 1] = x
  BY <1>2
<1>5. \A i \in 1 .. n + 1 : i \in 1 .. n \/ i = n + 1
  OBVIOUS
<1>6. ToSet(t) = ToSet(s) \cup {x}
  BY <1>3, <1>4, <1>5 DEF ToSet
<1> QED
  BY <1>6 DEF t

LEMMA SelectsAll ==
    ASSUME NEW rows \in Seq(Row), NEW proxies,
           DOMAIN proxies = DOMAIN Spots(rows)
    PROVE  ToSet(names(proxies) \o <<Direct>>)
               = ToSet(names(proxies)) \cup {Direct}
<1>1. PICK n \in Nat : DOMAIN proxies = 1 .. n
  <2>1. Spots(rows) \in Seq(Place)
    BY PairsListed
  <2>2. DOMAIN Spots(rows) = 1 .. Len(Spots(rows)) /\ Len(Spots(rows)) \in Nat
    BY <2>1
  <2> QED
    BY <2>2
<1>2. names(proxies) = [i \in 1 .. n |-> names(proxies)[i]]
  BY <1>1 DEF names
<1> QED
  BY <1>2, SetOfOneMore

Resolved(d) ==
    /\ ToSet(d.select) = ToSet(names(d.proxies)) \cup {Direct}
    /\ \A i \in DOMAIN d.rules :
          /\ d.rules[i][1] \in d.providers \cup {"GEOIP", "MATCH"}
          /\ d.rules[i][2] \in {"PROXY", "DIRECT"}
    /\ Last(d.rules)[1] = "MATCH"

LEMMA ClashResolves ==
    ASSUME NEW rows \in Seq(Row)
    PROVE  Resolved(renderClash(rows))
<1> DEFINE d == renderClash(rows)
<1>1. d.select = names(d.proxies) \o <<Direct>>
  BY DEF renderClash
<1>2. DOMAIN d.proxies = DOMAIN Spots(rows)
  BY EntriesAt
<1>3. /\ d.providers = {"direct", "proxy", "cncidr", "lancidr"}
      /\ d.rules = <<<<"lancidr", "DIRECT">>, <<"direct", "DIRECT">>,
                     <<"cncidr", "DIRECT">>, <<"proxy", "PROXY">>,
                     <<"GEOIP", "DIRECT">>, <<"MATCH", "PROXY">>>>
  BY DEF renderClash
<1> HIDE DEF d
<1>4. ToSet(d.select) = ToSet(names(d.proxies)) \cup {Direct}
  BY <1>1, <1>2, SelectsAll
<1>5. DOMAIN d.rules = 1 .. 6 /\ Len(d.rules) = 6
  BY <1>3
<1>6. \A i \in 1 .. 6 :
         /\ d.rules[i][1] \in d.providers \cup {"GEOIP", "MATCH"}
         /\ d.rules[i][2] \in {"PROXY", "DIRECT"}
  BY <1>3
<1>7. Last(d.rules)[1] = "MATCH"
  BY <1>3, <1>5 DEF Last
<1> QED
  BY <1>4, <1>5, <1>6, <1>7 DEF Resolved, d

LEMMA ConfResolves ==
    ASSUME NEW rows \in Seq(Row)
    PROVE  Resolved(renderShadowrocketConfig(rows))
<1> DEFINE d == renderShadowrocketConfig(rows)
<1>1. d.select = names(d.proxies) \o <<Direct>>
  BY DEF renderShadowrocketConfig
<1>2. DOMAIN d.proxies = DOMAIN Spots(rows)
  BY EntriesAt
<1>3. d.rules = <<<<"GEOIP", "DIRECT">>, <<"MATCH", "PROXY">>>>
  BY DEF renderShadowrocketConfig
<1> HIDE DEF d
<1>4. ToSet(d.select) = ToSet(names(d.proxies)) \cup {Direct}
  BY <1>1, <1>2, SelectsAll
<1>5. DOMAIN d.rules = 1 .. 2 /\ Len(d.rules) = 2
  BY <1>3
<1>6. \A i \in 1 .. 2 :
         /\ d.rules[i][1] \in d.providers \cup {"GEOIP", "MATCH"}
         /\ d.rules[i][2] \in {"PROXY", "DIRECT"}
  BY <1>3
<1>7. Last(d.rules)[1] = "MATCH"
  BY <1>3, <1>5 DEF Last
<1> QED
  BY <1>4, <1>5, <1>6, <1>7 DEF Resolved, d

\* In every document either registry ever serves, the group PROXY offers
\* exactly the proxies, every rule names something defined, and the last rule
\* catches the rest (renderClash, renderShadowrocketConfig).
THEOREM ReferencesAlwaysResolve == Spec => []ReferencesResolve
<1>1. ContractInv => ReferencesResolve
  <2> SUFFICES ASSUME ContractInv, NEW d \in Documents, "rules" \in DOMAIN d
               PROVE  Resolved(d)
    BY DEF ReferencesResolve, Resolved
  <2>1. \A rows : "rules" \notin DOMAIN renderSingBox(rows)
                  /\ "rules" \notin DOMAIN goRenderLinks(rows)
    BY Zenon DEF renderSingBox, goRenderLinks
  <2>2. \A rows : renderLinks(rows) # Failed => "rules" \notin DOMAIN renderLinks(rows)
    BY Zenon DEF renderLinks
  <2>3. \/ d = renderClash(Rows(cf)) \/ d = renderClash(Rows(go))
        \/ d = renderShadowrocketConfig(Rows(cf))
        \/ d = renderShadowrocketConfig(Rows(go))
    BY <2>1, <2>2, DocumentsAre DEF WorkerKinds, GoKinds
  <2> QED
    BY <2>3, RowsAre, ClashResolves, ConfResolves
<1> QED
  BY <1>1, ContractAlways, PTL

-----------------------------------------------------------------------------
(* What the validators and the tables say about a list of rows.            *)

\* The protocols of an accepted payload are of the two types the renderers
\* know, and the Worker accepts no IPv6 host.
LEMMA AcceptedRows ==
    ASSUME NodeID # {}
    PROVE  /\ \A r \in GoRows \cup WorkerRows : \A j \in DOMAIN r.protocols :
                 r.protocols[j].type \in {"trojan", "shadowsocks"}
           /\ \A r \in WorkerRows : r.host # "ipv6"
<1>1. PICK m \in NodeID : TRUE
  OBVIOUS
<1>2. ASSUME NEW p \in Payload, NEW tooLong, NEW hosts,
             validate(From(m, p), NodeID, tooLong, hosts)
      PROVE  /\ \A j \in DOMAIN Stored(p).protocols :
                   Stored(p).protocols[j].type \in {"trojan", "shadowsocks"}
             /\ Stored(p).host \in hosts
  BY <1>2 DEF validate, validateProtocol, From, Stored
<1>3. \A p \in Payload :
         /\ goValidateNode(From(m, p), NodeID) =>
               \A j \in DOMAIN Stored(p).protocols :
                   Stored(p).protocols[j].type \in {"trojan", "shadowsocks"}
         /\ validateNode(From(m, p), NodeID) =>
               /\ \A j \in DOMAIN Stored(p).protocols :
                     Stored(p).protocols[j].type \in {"trojan", "shadowsocks"}
               /\ Stored(p).host \in {h \in Host : isValidHost(h)}
  BY <1>2 DEF goValidateNode, validateNode
<1>4. ~isValidHost("ipv6")
  BY DEF isValidHost, Dotted, hostPattern
<1> QED
  BY <1>3, <1>4 DEF GoRows, WorkerRows

\* Every row of a list is a row of its table.
LEMMA RowsFrom ==
    ASSUME ContractInv, NEW table \in {go, cf}
    PROVE  /\ Rows(table) \in Seq(Row)
           /\ \E ids \in [DOMAIN Rows(table) -> NodeID] :
                 /\ \A i \in DOMAIN ids :
                       table[ids[i]] # Absent /\ Rows(table)[i] = table[ids[i]]
                 /\ \A i, j \in DOMAIN ids : i # j => ids[i] # ids[j]
           /\ \A i \in DOMAIN Rows(table) : \A j \in DOMAIN Rows(table)[i].protocols :
                 Rows(table)[i].protocols[j].type \in {"trojan", "shadowsocks"}
<1>1. /\ Rows(table) \in Seq(Row)
      /\ table \in [NodeID -> {Absent} \cup (GoRows \cup WorkerRows)]
  BY RowsAre, RowsTyped
<1>2. PICK ids \in [DOMAIN Rows(table) -> NodeID] :
             /\ \A i \in DOMAIN ids :
                   table[ids[i]] # Absent /\ Rows(table)[i] = table[ids[i]]
             /\ \A i, j \in DOMAIN ids : i # j => ids[i] # ids[j]
  BY <1>1, RowsListed
<1>3. ASSUME NEW i \in DOMAIN Rows(table)
      PROVE  \A j \in DOMAIN Rows(table)[i].protocols :
                 Rows(table)[i].protocols[j].type \in {"trojan", "shadowsocks"}
  <2>1. ids[i] \in NodeID /\ Rows(table)[i] = table[ids[i]] /\ table[ids[i]] # Absent
    BY <1>2
  <2>2. Rows(table)[i] \in GoRows \cup WorkerRows /\ NodeID # {}
    BY <1>1, <2>1
  <2> QED
    BY <2>2, AcceptedRows
<1> QED
  BY <1>1, <1>2, <1>3

-----------------------------------------------------------------------------
(* Names.                                                                  *)

\* shadowrocketName merges more names than any other encoding.
LEMMA CodesTell ==
    ASSUME NEW x \in Text \ {"number"}, NEW y \in Text \ {"number"},
           NEW code \in {encodeURIComponent, QueryEscape, yamlQuote,
                         shadowrocketName, asIs},
           code[x] = code[y]
    PROVE  shadowrocketName[x] = shadowrocketName[y]
<1> USE DEF Text
<1>1. CASE code = shadowrocketName
  BY <1>1
<1>2. String[x] = x /\ String[y] = y
  BY DEF String
<1>3. CASE code \in {encodeURIComponent, yamlQuote, asIs}
  BY <1>2, <1>3 DEF encodeURIComponent, yamlQuote, asIs
<1>4. CASE code = QueryEscape
  <2>1. /\ QueryEscape[x] = IF x = "spaced" THEN "with +" ELSE x
        /\ QueryEscape[y] = IF y = "spaced" THEN "with +" ELSE y
    BY DEF QueryEscape
  <2>2. x = y
    BY <1>4, <2>1
  <2> QED
    BY <2>2
<1> QED
  BY <1>1, <1>3, <1>4

\* Rows with names of their own, each with one protocol of a type.
RowsDiffer(rows) ==
    /\ \A i, j \in DOMAIN rows : i # j =>
          shadowrocketName[rows[i].name] # shadowrocketName[rows[j].name]
    /\ \A i \in DOMAIN rows : \A j, k \in DOMAIN rows[i].protocols :
          /\ rows[i].protocols[j].type \in {"trojan", "shadowsocks"}
          /\ j # k => rows[i].protocols[j].type # rows[i].protocols[k].type

LEMMA TablesDiffer ==
    ASSUME ContractInv, NEW table \in {go, cf}, Distinct(table)
    PROVE  RowsDiffer(Rows(table))
<1>1. PICK ids \in [DOMAIN Rows(table) -> NodeID] :
             /\ \A i \in DOMAIN ids :
                   table[ids[i]] # Absent /\ Rows(table)[i] = table[ids[i]]
             /\ \A i, j \in DOMAIN ids : i # j => ids[i] # ids[j]
  BY RowsFrom
<1>2. \A i \in DOMAIN Rows(table) : \A j \in DOMAIN Rows(table)[i].protocols :
         Rows(table)[i].protocols[j].type \in {"trojan", "shadowsocks"}
  BY RowsFrom
<1> QED
  BY <1>1, <1>2 DEF Distinct, RowsDiffer

LEMMA NamesInjective ==
    ASSUME NEW rows \in Seq(Row), RowsDiffer(rows),
           NEW code \in {encodeURIComponent, QueryEscape, yamlQuote,
                         shadowrocketName, asIs},
           NEW proxies,
           DOMAIN proxies = DOMAIN Spots(rows),
           \A k \in DOMAIN Spots(rows) :
               proxies[k].name = name(NodeAt(rows, k), ProtocolAt(rows, k), code)
    PROVE  IsInjective(names(proxies))
<1> SUFFICES ASSUME NEW k \in DOMAIN Spots(rows), NEW l \in DOMAIN Spots(rows),
                    proxies[k].name = proxies[l].name
             PROVE  k = l
  BY DEF names, IsInjective
<1> DEFINE i == Spots(rows)[k][1]
           j == Spots(rows)[k][2]
           m == Spots(rows)[l][1]
           n == Spots(rows)[l][2]
<1>1. /\ i \in 1 .. Len(rows) /\ j \in 1 .. Len(rows[i].protocols)
      /\ m \in 1 .. Len(rows) /\ n \in 1 .. Len(rows[m].protocols)
      /\ Spots(rows) \in Seq(Place) /\ IsInjective(Spots(rows))
  BY PairsListed
<1>2. /\ NodeAt(rows, k) = rows[i] /\ ProtocolAt(rows, k) = rows[i].protocols[j]
      /\ NodeAt(rows, l) = rows[m] /\ ProtocolAt(rows, l) = rows[m].protocols[n]
  BY DEF NodeAt, ProtocolAt
<1>3. Spots(rows)[k] = <<i, j>> /\ Spots(rows)[l] = <<m, n>>
  <2>1. Spots(rows)[k] \in Place /\ Spots(rows)[l] \in Place
    BY <1>1
  <2> QED
    BY <2>1 DEF Place
<1> HIDE DEF i, j, m, n
<1>4. rows[i] \in Row /\ rows[m] \in Row
  BY <1>1
<1>5. /\ DOMAIN rows = 1 .. Len(rows)
      /\ DOMAIN rows[i].protocols = 1 .. Len(rows[i].protocols)
      /\ DOMAIN rows[m].protocols = 1 .. Len(rows[m].protocols)
  BY <1>4 DEF Row
<1>6. /\ code[rows[i].name] = code[rows[m].name]
      /\ Suffix[rows[i].protocols[j].type] = Suffix[rows[m].protocols[n].type]
  BY <1>2 DEF name
<1>7. i = m
  <2>1. rows[i].name \in Text \ {"number"} /\ rows[m].name \in Text \ {"number"}
    BY <1>4 DEF Row
  <2>2. shadowrocketName[rows[i].name] = shadowrocketName[rows[m].name]
    BY <1>6, <2>1, CodesTell
  <2> QED
    BY <1>1, <1>5, <2>2 DEF RowsDiffer
<1>8. j = n
  <2>1. /\ rows[i].protocols[j].type \in {"trojan", "shadowsocks"}
        /\ rows[m].protocols[n].type \in {"trojan", "shadowsocks"}
    BY <1>1, <1>5 DEF RowsDiffer
  <2>2. rows[i].protocols[j].type = rows[m].protocols[n].type
    BY <1>6, <2>1 DEF Suffix
  <2> QED
    BY <1>1, <1>5, <1>7, <2>2 DEF RowsDiffer
<1> QED
  BY <1>1, <1>3, <1>7, <1>8 DEF IsInjective

\* The parts of an entry that every kind of document has.
LEMMA EntryParts ==
    ASSUME NEW node, NEW p, NEW code, NEW user
    PROVE  /\ LET e == link(node, p, code, user)
              IN  /\ e.name = name(node, p, code)
                  /\ e.server = authority(node.host) /\ e.port = p.port
           /\ LET e == clashProxy(node, p)
              IN  /\ e.name = name(node, p, yamlQuote)
                  /\ e.server = node.host /\ e.port = p.port
           /\ LET e == shadowrocketProxy(node, p)
              IN  /\ e.name = name(node, p, shadowrocketName)
                  /\ e.server = node.host /\ e.port = p.port
           /\ LET e == outbound(node, p)
              IN  /\ e.name = name(node, p, asIs)
                  /\ e.server = node.host /\ e.port = p.port
<1>1. LET e == link(node, p, code, user)
      IN  /\ e.name = name(node, p, code)
          /\ e.server = authority(node.host) /\ e.port = p.port
  BY DEF link
<1>2. LET e == clashProxy(node, p)
      IN  /\ e.name = name(node, p, yamlQuote)
          /\ e.server = node.host /\ e.port = p.port
  BY DEF clashProxy
<1>3. LET e == shadowrocketProxy(node, p)
      IN  /\ e.name = name(node, p, shadowrocketName)
          /\ e.server = node.host /\ e.port = p.port
  BY DEF shadowrocketProxy
<1>4. LET e == outbound(node, p)
      IN  /\ e.name = name(node, p, asIs)
          /\ e.server = node.host /\ e.port = p.port
  BY DEF outbound
<1> QED
  BY <1>1, <1>2, <1>3, <1>4

\* Every proxy of a document, by its place: it is named after its row and its
\* protocol, and stands at the host of the one and the port of the other.
Spotted(d, rows, code, Server(_)) ==
    /\ DOMAIN d.proxies = DOMAIN Spots(rows)
    /\ \A k \in DOMAIN Spots(rows) :
          /\ d.proxies[k].name = name(NodeAt(rows, k), ProtocolAt(rows, k), code)
          /\ d.proxies[k].server = Server(NodeAt(rows, k).host)
          /\ d.proxies[k].port = ProtocolAt(rows, k).port

HostItself(h) == h

LEMMA EntriesSpotted ==
    ASSUME NEW rows \in Seq(Row)
    PROVE  /\ Spotted(renderClash(rows), rows, yamlQuote, HostItself)
           /\ Spotted(renderShadowrocketConfig(rows), rows, shadowrocketName, HostItself)
           /\ Spotted(renderSingBox(rows), rows, asIs, HostItself)
           /\ Spotted(goRenderLinks(rows), rows, QueryEscape, authority)
           /\ renderLinks(rows) # Failed =>
                 Spotted(renderLinks(rows), rows, encodeURIComponent, authority)
<1>1. Spotted(renderClash(rows), rows, yamlQuote, HostItself)
  <2> DEFINE proxies == renderClash(rows).proxies
             entry(k) == clashProxy(NodeAt(rows, k), ProtocolAt(rows, k))
  <2>1. proxies = [k \in DOMAIN Spots(rows) |-> entry(k)]
    BY EntriesAt
  <2>2. \A k : /\ entry(k).name = name(NodeAt(rows, k), ProtocolAt(rows, k), yamlQuote)
              /\ entry(k).server = HostItself(NodeAt(rows, k).host)
              /\ entry(k).port = ProtocolAt(rows, k).port
    BY EntryParts DEF HostItself
  <2> HIDE DEF proxies, entry
  <2>3. /\ DOMAIN proxies = DOMAIN Spots(rows)
        /\ \A k \in DOMAIN Spots(rows) : proxies[k] = entry(k)
    BY <2>1
  <2> QED
    BY <2>2, <2>3 DEF Spotted, proxies
<1>2. Spotted(renderShadowrocketConfig(rows), rows, shadowrocketName, HostItself)
  <2> DEFINE proxies == renderShadowrocketConfig(rows).proxies
             entry(k) == shadowrocketProxy(NodeAt(rows, k), ProtocolAt(rows, k))
  <2>1. proxies = [k \in DOMAIN Spots(rows) |-> entry(k)]
    BY EntriesAt
  <2>2. \A k : /\ entry(k).name = name(NodeAt(rows, k), ProtocolAt(rows, k), shadowrocketName)
              /\ entry(k).server = HostItself(NodeAt(rows, k).host)
              /\ entry(k).port = ProtocolAt(rows, k).port
    BY EntryParts DEF HostItself
  <2> HIDE DEF proxies, entry
  <2>3. /\ DOMAIN proxies = DOMAIN Spots(rows)
        /\ \A k \in DOMAIN Spots(rows) : proxies[k] = entry(k)
    BY <2>1
  <2> QED
    BY <2>2, <2>3 DEF Spotted, proxies
<1>3. Spotted(renderSingBox(rows), rows, asIs, HostItself)
  <2> DEFINE proxies == renderSingBox(rows).proxies
             entry(k) == outbound(NodeAt(rows, k), ProtocolAt(rows, k))
  <2>1. proxies = [k \in DOMAIN Spots(rows) |-> entry(k)]
    BY EntriesAt
  <2>2. \A k : /\ entry(k).name = name(NodeAt(rows, k), ProtocolAt(rows, k), asIs)
              /\ entry(k).server = HostItself(NodeAt(rows, k).host)
              /\ entry(k).port = ProtocolAt(rows, k).port
    BY EntryParts DEF HostItself
  <2> HIDE DEF proxies, entry
  <2>3. /\ DOMAIN proxies = DOMAIN Spots(rows)
        /\ \A k \in DOMAIN Spots(rows) : proxies[k] = entry(k)
    BY <2>1
  <2> QED
    BY <2>2, <2>3 DEF Spotted, proxies
<1>4. Spotted(goRenderLinks(rows), rows, QueryEscape, authority)
  <2> DEFINE proxies == goRenderLinks(rows).proxies
             entry(k) == link(NodeAt(rows, k), ProtocolAt(rows, k), QueryEscape, String)
  <2>1. proxies = [k \in DOMAIN Spots(rows) |-> entry(k)]
    BY EntriesAt
  <2>2. \A k : /\ entry(k).name = name(NodeAt(rows, k), ProtocolAt(rows, k), QueryEscape)
              /\ entry(k).server = authority(NodeAt(rows, k).host)
              /\ entry(k).port = ProtocolAt(rows, k).port
    BY EntryParts DEF HostItself
  <2> HIDE DEF proxies, entry
  <2>3. /\ DOMAIN proxies = DOMAIN Spots(rows)
        /\ \A k \in DOMAIN Spots(rows) : proxies[k] = entry(k)
    BY <2>1
  <2> QED
    BY <2>2, <2>3 DEF Spotted, proxies
<1>5. renderLinks(rows) # Failed =>
          Spotted(renderLinks(rows), rows, encodeURIComponent, authority)
  <2> SUFFICES ASSUME renderLinks(rows) # Failed
               PROVE  Spotted(renderLinks(rows), rows, encodeURIComponent, authority)
    OBVIOUS
  <2> DEFINE proxies == renderLinks(rows).proxies
             entry(k) == link(NodeAt(rows, k), ProtocolAt(rows, k),
               encodeURIComponent, base64UrlEncode)
  <2>1. proxies = [k \in DOMAIN Spots(rows) |-> entry(k)]
    BY EntriesAt
  <2>2. \A k : /\ entry(k).name = name(NodeAt(rows, k), ProtocolAt(rows, k), encodeURIComponent)
              /\ entry(k).server = authority(NodeAt(rows, k).host)
              /\ entry(k).port = ProtocolAt(rows, k).port
    BY EntryParts DEF HostItself
  <2> HIDE DEF proxies, entry
  <2>3. /\ DOMAIN proxies = DOMAIN Spots(rows)
        /\ \A k \in DOMAIN Spots(rows) : proxies[k] = entry(k)
    BY <2>1
  <2> QED
    BY <2>2, <2>3 DEF Spotted, proxies
<1> QED
  BY <1>1, <1>2, <1>3, <1>4, <1>5

LEMMA KindsInjective ==
    ASSUME NEW rows \in Seq(Row), RowsDiffer(rows),
           NEW d \in WorkerKinds(rows) \cup GoKinds(rows), d # Failed
    PROVE  IsInjective(names(d.proxies))
<1>1. PICK code \in {encodeURIComponent, QueryEscape, yamlQuote,
                     shadowrocketName, asIs} :
          /\ DOMAIN d.proxies = DOMAIN Spots(rows)
          /\ \A k \in DOMAIN Spots(rows) :
                d.proxies[k].name = name(NodeAt(rows, k), ProtocolAt(rows, k), code)
  <2>1. CASE d = renderLinks(rows)
    BY <2>1, EntriesSpotted DEF Spotted
  <2>2. CASE d = goRenderLinks(rows)
    BY <2>2, EntriesSpotted DEF Spotted
  <2>3. CASE d = renderClash(rows)
    BY <2>3, EntriesSpotted DEF Spotted
  <2>4. CASE d = renderShadowrocketConfig(rows)
    BY <2>4, EntriesSpotted DEF Spotted
  <2>5. CASE d = renderSingBox(rows)
    BY <2>5, EntriesSpotted DEF Spotted
  <2> QED
    BY <2>1, <2>2, <2>3, <2>4, <2>5 DEF WorkerKinds, GoKinds
<1> QED
  BY <1>1, NamesInjective

\* In every document either registry ever serves, no two proxies have the same
\* name, as long as the nodes have names of their own and list each protocol
\* once (name, and the encodings of the renderers).
THEOREM NamesAlwaysUnique == Spec => []NamesUnique
<1>1. ContractInv => NamesUnique
  <2> SUFFICES ASSUME ContractInv, Distinct(cf), Distinct(go), NEW d \in Documents
               PROVE  IsInjective(names(d.proxies))
    BY DEF NamesUnique
  <2>1. RowsDiffer(Rows(cf)) /\ RowsDiffer(Rows(go))
    BY TablesDiffer
  <2> QED
    BY <2>1, DocumentsAre, RowsAre, KindsInjective
<1> QED
  BY <1>1, ContractAlways, PTL

-----------------------------------------------------------------------------
(* Protocols.                                                              *)

\* Every entry of d stands at the host and the port that its place states.
Placed(d, rows) ==
    /\ DOMAIN d.proxies = DOMAIN Spots(rows)
    /\ \A k \in DOMAIN Spots(rows) :
          /\ d.proxies[k].server = NodeAt(rows, k).host
          /\ d.proxies[k].port = ProtocolAt(rows, k).port

\* Where the nodes of rows ask to be reached.
StatedBy(rows) ==
    FlattenSeq([i \in DOMAIN rows |->
        [j \in DOMAIN rows[i].protocols |->
            <<rows[i].host, rows[i].protocols[j].port>>]])

LEMMA StatedListed ==
    ASSUME NEW rows \in Seq(Row)
    PROVE  StatedBy(rows) = [k \in DOMAIN Spots(rows) |->
               <<NodeAt(rows, k).host, ProtocolAt(rows, k).port>>]
<1> DEFINE list(i) == [j \in DOMAIN rows[i].protocols |->
                          <<rows[i].host, rows[i].protocols[j].port>>]
           a == [i \in DOMAIN rows |-> list(i)]
<1>1. ASSUME NEW i \in 1 .. Len(rows)
      PROVE  /\ list(i) \in Seq(Host \X Port)
             /\ Len(list(i)) = Len(rows[i].protocols)
             /\ \A j \in 1 .. Len(rows[i].protocols) :
                   list(i)[j] = <<rows[i].host, rows[i].protocols[j].port>>
  <2>0. rows[i] \in Row
    OBVIOUS
  <2>1. rows[i].protocols \in Seq(Protocol) /\ rows[i].host \in Host
    BY <2>0 DEF Row
  <2>2. /\ DOMAIN rows[i].protocols = 1 .. Len(rows[i].protocols)
        /\ Len(rows[i].protocols) \in Nat
    BY <2>1
  <2>3. \A p \in Protocol : p.port \in Port
    BY DEF Protocol
  <2>4. \A j \in 1 .. Len(rows[i].protocols) :
           <<rows[i].host, rows[i].protocols[j].port>> \in Host \X Port
    BY <2>1, <2>3
  <2> QED
    BY <2>2, <2>4
<1>2. DOMAIN rows = 1 .. Len(rows) /\ Len(rows) \in Nat
  OBVIOUS
<1>3. \A i \in 1 .. Len(rows) : a[i] = list(i)
  BY <1>2
<1>4. StatedBy(rows) = FlattenSeq(a)
  BY DEF StatedBy
<1> HIDE DEF list
<1>5. a \in Seq(Seq(Host \X Port)) /\ Len(a) = Len(rows)
  BY <1>1, <1>2
<1> HIDE DEF a
<1>6. \A i \in 1 .. Len(rows) : Len(a[i]) = Len(rows[i].protocols)
  BY <1>1, <1>3
<1> DEFINE f == FlattenSeq(a)
           w == Spots(rows)
<1>7. f \in Seq(Host \X Port) /\ DOMAIN f = DOMAIN w
  BY <1>5, <1>6, LoopsListed
<1>8. \A k \in DOMAIN w :
         /\ w[k][1] \in 1 .. Len(rows)
         /\ w[k][2] \in 1 .. Len(rows[w[k][1]].protocols)
         /\ f[k] = a[w[k][1]][w[k][2]]
  BY <1>5, <1>6, LoopsListed
<1>9. \A k \in DOMAIN w :
         f[k] = <<NodeAt(rows, k).host, ProtocolAt(rows, k).port>>
  <2> HIDE DEF f
  <2> QED
    BY <1>1, <1>3, <1>8 DEF NodeAt, ProtocolAt
<1> HIDE DEF f
<1>10. f = [k \in DOMAIN w |-> f[k]]
  BY <1>7
<1> QED
  BY <1>4, <1>9, <1>10 DEF f

LEMMA PlacedOffers ==
    ASSUME NEW rows \in Seq(Row), NEW d, Placed(d, rows)
    PROVE  Offers(d, rows)
<1> DEFINE offered == [k \in DOMAIN d.proxies |->
                          <<d.proxies[k].server, d.proxies[k].port>>]
<1>1. StatedBy(rows) = offered
  BY StatedListed DEF Placed
<1>2. \A at \in ToSet(StatedBy(rows)) \cup ToSet(offered) :
          Count(StatedBy(rows), LAMBDA x : x = at)
              = Count(offered, LAMBDA x : x = at)
  <2> HIDE DEF offered
  <2> QED
    BY <1>1 DEF Count
<1> QED
  BY <1>2 DEF Offers, StatedBy

\* Only an IPv6 host cannot be reached through a link.
LEMMA KindsPlaced ==
    ASSUME NEW rows \in Seq(Row),
           NEW d \in WorkerKinds(rows) \cup GoKinds(rows), d # Failed,
           \A i \in DOMAIN rows : rows[i].host # "ipv6"
    PROVE  Placed(d, rows)
<1>1. \A k \in DOMAIN Spots(rows) :
         authority(NodeAt(rows, k).host) = NodeAt(rows, k).host
  <2> SUFFICES ASSUME NEW k \in DOMAIN Spots(rows)
               PROVE  NodeAt(rows, k).host # "ipv6"
    BY DEF authority
  <2>1. Spots(rows)[k][1] \in 1 .. Len(rows) /\ DOMAIN rows = 1 .. Len(rows)
    BY PairsListed
  <2> QED
    BY <2>1 DEF NodeAt
<1>2. CASE d = renderLinks(rows)
  BY <1>1, <1>2, EntriesSpotted DEF Spotted, Placed
<1>3. CASE d = goRenderLinks(rows)
  BY <1>1, <1>3, EntriesSpotted DEF Spotted, Placed
<1>4. CASE d = renderClash(rows)
  BY <1>4, EntriesSpotted DEF Spotted, Placed, HostItself
<1>5. CASE d = renderShadowrocketConfig(rows)
  BY <1>5, EntriesSpotted DEF Spotted, Placed, HostItself
<1>6. CASE d = renderSingBox(rows)
  BY <1>6, EntriesSpotted DEF Spotted, Placed, HostItself
<1> QED
  BY <1>2, <1>3, <1>4, <1>5, <1>6 DEF WorkerKinds, GoKinds

\* Whatever is registered, each document offers every protocol of every node
\* exactly once and nothing else, at the node's host and the protocol's port
\* (the loops of the renderers).
THEOREM ProtocolsAlwaysOffered == Spec => []EveryProtocolOffered
<1>1. ContractInv => EveryProtocolOffered
  <2> SUFFICES ASSUME ContractInv, NEW f \in Format
               PROVE  /\ handleSub(f) # Failed => Offers(handleSub(f), Rows(cf))
                      /\ goHandleSub(f) # Failed /\ "ipv6" \notin Hosts(go)
                            => Offers(goHandleSub(f), Rows(go))
    BY DEF EveryProtocolOffered
  <2>1. Rows(cf) \in Seq(Row) /\ Rows(go) \in Seq(Row)
    BY RowsAre
  <2>2. \A i \in DOMAIN Rows(cf) : Rows(cf)[i].host # "ipv6"
    <3>1. PICK ids \in [DOMAIN Rows(cf) -> NodeID] :
                 \A i \in DOMAIN ids : cf[ids[i]] # Absent /\ Rows(cf)[i] = cf[ids[i]]
      BY RowsFrom
    <3> SUFFICES ASSUME NEW i \in DOMAIN Rows(cf)
                 PROVE  Rows(cf)[i].host # "ipv6"
      OBVIOUS
    <3>2. ids[i] \in NodeID /\ Rows(cf)[i] = cf[ids[i]] /\ cf[ids[i]] # Absent
      BY <3>1
    <3>3. Rows(cf)[i] \in WorkerRows
      BY <3>2, RowsTyped
    <3> QED
      BY <3>2, <3>3, AcceptedRows
  <2>3. handleSub(f) # Failed => Offers(handleSub(f), Rows(cf))
    BY <2>1, <2>2, KindsOf, KindsPlaced, PlacedOffers DEF handleSub
  <2>4. ASSUME goHandleSub(f) # Failed, "ipv6" \notin Hosts(go)
        PROVE  Offers(goHandleSub(f), Rows(go))
    <3>1. PICK ids \in [DOMAIN Rows(go) -> NodeID] :
                 \A i \in DOMAIN ids : go[ids[i]] # Absent /\ Rows(go)[i] = go[ids[i]]
      BY RowsFrom
    <3>2. \A i \in DOMAIN Rows(go) : Rows(go)[i].host # "ipv6"
      BY <2>4, <3>1 DEF Hosts
    <3> QED
      BY <2>1, <2>4, <3>2, KindsOf, KindsPlaced, PlacedOffers DEF goHandleSub
  <2> QED
    BY <2>3, <2>4
<1> QED
  BY <1>1, ContractAlways, PTL

-----------------------------------------------------------------------------
(* Subscriptions.                                                          *)

\* Texts that a link says alike in both languages.
AsciiPasswords == Text \ {"spaced", "accent", "han", "hanLong", "number"}

LEMMA CodesAgree ==
    /\ \A t \in Text \ {"spaced", "number"} : encodeURIComponent[t] = QueryEscape[t]
    /\ \A t \in AsciiPasswords :
          encodeURIComponent[t] = QueryEscape[t] /\ base64UrlEncode[t] = String[t]
<1>1. \A t \in Text : String[t] = IF t = "number" THEN "digits" ELSE t
  BY DEF String
<1>2. \A t \in Text \ {"spaced", "number"} : encodeURIComponent[t] = QueryEscape[t]
  BY DEF encodeURIComponent, QueryEscape, String
<1>3. \A t \in AsciiPasswords : base64UrlEncode[t] = String[t]
  BY DEF AsciiPasswords, base64UrlEncode, String
<1> QED
  BY <1>2, <1>3 DEF AsciiPasswords

\* Rows whose names have no spaces and whose passwords are ASCII text.
PlainRows(rows) ==
    \A i \in DOMAIN rows :
        /\ rows[i].name # "spaced"
        /\ \A j \in DOMAIN rows[i].protocols :
              rows[i].protocols[j].password \in AsciiPasswords

LEMMA LinksAgree ==
    ASSUME NEW rows \in Seq(Row), PlainRows(rows)
    PROVE  renderLinks(rows) = goRenderLinks(rows)
<1> DEFINE pairs == each(rows)
<1>1. ASSUME NEW k \in DOMAIN pairs
      PROVE  link(pairs[k][1], pairs[k][2], encodeURIComponent, base64UrlEncode)
               = link(pairs[k][1], pairs[k][2], QueryEscape, String)
  <2> DEFINE i == Spots(rows)[k][1]
             j == Spots(rows)[k][2]
  <2>1. /\ i \in 1 .. Len(rows)
        /\ j \in 1 .. Len(rows[i].protocols)
        /\ pairs[k] = <<rows[i], rows[i].protocols[j]>>
    BY PairsListed
  <2> HIDE DEF i, j, pairs
  <2>2. rows[i] \in Row /\ DOMAIN rows = 1 .. Len(rows)
    BY <2>1
  <2>3. /\ DOMAIN rows[i].protocols = 1 .. Len(rows[i].protocols)
        /\ rows[i].name \in Text \ {"number"}
    BY <2>2 DEF Row
  <2>4. /\ rows[i].name \in Text \ {"spaced", "number"}
        /\ rows[i].protocols[j].password \in AsciiPasswords
    BY <2>1, <2>2, <2>3 DEF PlainRows
  <2> DEFINE node == pairs[k][1]
             p == pairs[k][2]
  <2>5. /\ encodeURIComponent[node.name] = QueryEscape[node.name]
        /\ encodeURIComponent[p.password] = QueryEscape[p.password]
        /\ base64UrlEncode[p.password] = String[p.password]
    BY <2>1, <2>4, CodesAgree
  <2> HIDE DEF node, p
  <2>6. link(node, p, encodeURIComponent, base64UrlEncode)
          = link(node, p, QueryEscape, String)
    BY <2>5 DEF link, name
  <2> QED
    BY <2>6 DEF node, p
<1>2. ~ \E i \in DOMAIN rows : \E j \in DOMAIN rows[i].protocols :
          /\ rows[i].protocols[j].type = "shadowsocks"
          /\ rows[i].protocols[j].password \notin Latin1
  BY DEF PlainRows, AsciiPasswords, Latin1
<1>3. renderLinks(rows) = [proxies |-> [k \in DOMAIN pairs |->
          link(pairs[k][1], pairs[k][2], encodeURIComponent, base64UrlEncode)]]
  BY <1>2 DEF renderLinks, Entries
<1>4. goRenderLinks(rows) = [proxies |-> [k \in DOMAIN pairs |->
          link(pairs[k][1], pairs[k][2], QueryEscape, String)]]
  BY DEF goRenderLinks, Entries
<1> HIDE DEF pairs
<1> QED
  BY <1>1, <1>3, <1>4

LEMMA PlainTable ==
    ASSUME ContractInv, go = cf,
           Passwords(cf) \cap {"spaced", "accent", "han", "hanLong"} = {},
           \A n \in NodeID : cf[n] # Absent => cf[n].name # "spaced"
    PROVE  PlainRows(Rows(cf))
<1> DEFINE rows == Rows(cf)
<1>1. PICK ids \in [DOMAIN rows -> NodeID] :
             \A i \in DOMAIN ids : cf[ids[i]] # Absent /\ rows[i] = cf[ids[i]]
  BY RowsFrom
<1>2. rows \in Seq(Row)
  BY RowsAre
<1> HIDE DEF rows
<1> SUFFICES ASSUME NEW i \in DOMAIN rows
             PROVE  /\ rows[i].name # "spaced"
                    /\ \A j \in DOMAIN rows[i].protocols :
                          rows[i].protocols[j].password \in AsciiPasswords
  BY DEF PlainRows, rows
<1>3. ids[i] \in NodeID /\ cf[ids[i]] # Absent /\ rows[i] = cf[ids[i]]
  BY <1>1
<1>4. rows[i] \in Row
  BY <1>2
<1>5. ASSUME NEW j \in DOMAIN rows[i].protocols
      PROVE  rows[i].protocols[j].password \in AsciiPasswords
  <2> DEFINE password == rows[i].protocols[j].password
  <2>1. password \in Text
    <3>1. rows[i].protocols[j] \in Protocol
      BY <1>4 DEF Row
    <3> QED
      BY <3>1 DEF Protocol
  <2>2. password # "number"
    BY <1>3 DEF ContractInv, GoDecoded, TextPasswords
  <2>3. password \in Passwords(cf)
    BY <1>3 DEF Passwords
  <2> QED
    BY <2>1, <2>2, <2>3 DEF AsciiPasswords
<1> QED
  BY <1>3, <1>5

\* As long as no node has drifted, names and passwords are plain, and the
\* format has no spaces around it, clients read the same document from either
\* registry, whatever the format and whatever is registered (the renderers in
\* both languages).
THEOREM SubscriptionsAlwaysAgree == Spec => []SubscriptionsAgree
<1>1. ContractInv => SubscriptionsAgree
  <2> SUFFICES ASSUME ContractInv, drifted = {},
                      Passwords(cf) \cap {"spaced", "accent", "han", "hanLong"} = {},
                      \A n \in NodeID : cf[n] # Absent => cf[n].name # "spaced",
                      NEW f \in Format \ {" clash"}
               PROVE  handleSub(f) = goHandleSub(f)
    BY DEF SubscriptionsAgree
  <2>1. go = cf
    <3>1. go = [n \in NodeID |-> go[n]] /\ cf = [n \in NodeID |-> cf[n]]
      BY RowsTyped
    <3>2. \A n \in NodeID : go[n] = cf[n]
      BY DEF ContractInv, TablesAgree
    <3> QED
      BY <3>1, <3>2
  <2>2. renderLinks(Rows(cf)) = goRenderLinks(Rows(go))
    BY <2>1, PlainTable, RowsAre, LinksAgree
  <2> QED
    BY <2>1, <2>2
       DEF handleSub, goHandleSub, renderSubscription, goRenderSubscription
<1> QED
  BY <1>1, ContractAlways, PTL
=============================================================================
