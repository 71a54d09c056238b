------------------------- MODULE GoNodeStoreProofs --------------------------
(***************************************************************************)
(* Theorems about the node store of the Go registry server, for any number *)
(* of handlers, nodes, records and operations.                             *)
(***************************************************************************)
EXTENDS GoNodeStore, TLAPS

\* A handler on its way to the mutex, or behind it, knows its change.
TypeInv ==
    /\ TypeOK
    /\ \A x \in Handler : pc[x] \in {"lock"} \cup Saving => req[x] \in Op

LEMMA EmptyStore == Empty \in Store
BY DEF Empty, Store, Record

LEMMA MissingContent == DataFile!IsContent(DataFile!Missing)
BY EmptyStore DEF DataFile!IsContent, DataFile!Missing

\* The system calls keep the files contents and the descriptors places.
LEMMA JsonTyped ==
    ASSUME DataFile!JsonTypeOK,
           \/ \E p \in Proc : DataFile!OpenTmp(p)
           \/ \E p \in Proc, d \in Store :
                  DataFile!WriteTmp(p, d) \/ DataFile!WriteFails(p, d)
           \/ DataFile!RenameTmp
           \/ \E P \in SUBSET Proc : DataFile!Quit(P)
           \/ UNCHANGED jsonVars
    PROVE  DataFile!JsonTypeOK'
<1> USE DEF DataFile!JsonTypeOK, DataFile!Place
<1>a. /\ DataFile!IsContent(DataFile!Truncated)
      /\ DataFile!IsContent(DataFile!Torn)
      /\ DataFile!IsContent(DataFile!Missing)
      /\ \A d \in Store : DataFile!IsContent(DataFile!Holding(d))
  BY EmptyStore DEF DataFile!IsContent, DataFile!Missing, DataFile!Truncated,
     DataFile!Torn, DataFile!Holding
<1>b. \A p : DataFile!IsContent(DataFile!Target(p))
  BY <1>a DEF DataFile!Target
<1>c. ASSUME NEW p \in Proc, NEW c, DataFile!IsContent(c), DataFile!Land(p, c)
      PROVE  DataFile!JsonTypeOK'
  BY <1>c DEF DataFile!Land
<1>1. ASSUME NEW p \in Proc, DataFile!OpenTmp(p)
      PROVE  DataFile!JsonTypeOK'
  BY <1>1, <1>a DEF DataFile!OpenTmp
<1>2. ASSUME NEW p \in Proc, NEW d \in Store, DataFile!WriteTmp(p, d)
      PROVE  DataFile!JsonTypeOK'
  BY <1>2, <1>a, <1>c DEF DataFile!WriteTmp, DataFile!Overlay
<1>3. ASSUME NEW p \in Proc, NEW d \in Store, DataFile!WriteFails(p, d)
      PROVE  DataFile!JsonTypeOK'
  BY <1>3, <1>a, <1>b, <1>c DEF DataFile!WriteFails
<1>4. ASSUME DataFile!RenameTmp
      PROVE  DataFile!JsonTypeOK'
  BY <1>4, <1>a DEF DataFile!RenameTmp
<1>5. ASSUME NEW P \in SUBSET Proc, DataFile!Quit(P)
      PROVE  DataFile!JsonTypeOK'
  BY <1>5, <1>a DEF DataFile!Quit
<1>6. ASSUME UNCHANGED jsonVars
      PROVE  DataFile!JsonTypeOK'
  BY <1>6 DEF jsonVars, DataFile!IsContent
<1> QED
  BY <1>1, <1>2, <1>3, <1>4, <1>5, <1>6

LEMMA InitTyped == Init => TypeInv
<1> SUFFICES ASSUME Init PROVE TypeInv
  OBVIOUS
<1>1. DataFile!JsonTypeOK
  BY MissingContent DEF Init, DataFile!JsonTypeOK, DataFile!Place
<1>2. ops \in Seq(Op)
  BY DEF Init
<1> QED
  BY <1>1, <1>2, EmptyStore
     DEF Init, TypeInv, TypeOK, Pc, Saving, NoOp

\* What every action of a handler that only moves on leaves well-typed.
LEMMA MovesTyped ==
    ASSUME TypeInv, NEW x \in Handler, NEW label \in Pc,
           Goto(x, label),
           label \in {"lock"} \cup Saving => req'[x] \in Op,
           \A y \in Handler \ {x} : req'[y] = req[y],
           req' \in [Handler -> Op \cup {NoOp}]
    PROVE  /\ pc' \in [Handler -> Pc]
           /\ \A y \in Handler : pc'[y] \in {"lock"} \cup Saving => req'[y] \in Op
BY DEF TypeInv, TypeOK, Goto

LEMMA ArriveTyped ==
    ASSUME TypeInv, NEW x \in Handler, NEW op \in Op, Arrive(x, op)
    PROVE  TypeInv'
<1>1. DataFile!JsonTypeOK'
  BY JsonTyped DEF TypeInv, TypeOK, Arrive
<1>2. req' \in [Handler -> Op \cup {NoOp}] /\ req'[x] = op
  BY DEF TypeInv, TypeOK, Arrive
<1>3. /\ pc' \in [Handler -> Pc]
      /\ \A y \in Handler : pc'[y] \in {"lock"} \cup Saving => req'[y] \in Op
  BY <1>2, MovesTyped DEF TypeInv, TypeOK, Arrive, Pc
<1> QED
  BY <1>1, <1>2, <1>3 DEF TypeInv, TypeOK, Arrive

LEMMA RequestTyped ==
    ASSUME TypeInv, NEW x \in Handler, request(x)
    PROVE  TypeInv'
<1>1. CASE handleRegister(x)
  BY <1>1, ArriveTyped DEF handleRegister, Op, Record
<1>2. CASE handleAPINode(x)
  BY <1>2, ArriveTyped DEF handleAPINode, Op, Record
<1>3. CASE ReadArrives(x)
  <2>1. DataFile!JsonTypeOK'
    BY <1>3, JsonTyped DEF TypeInv, TypeOK, ReadArrives
  <2>2. /\ pc' \in [Handler -> Pc]
        /\ \A y \in Handler : pc'[y] \in {"lock"} \cup Saving => req'[y] \in Op
    BY <1>3, MovesTyped DEF TypeInv, TypeOK, ReadArrives, Pc, Saving
  <2> QED
    BY <1>3, <2>1, <2>2 DEF TypeInv, TypeOK, ReadArrives
<1> QED
  BY <1>1, <1>2, <1>3 DEF request, handleSub, handleAPINodes

LEMMA ApplyTyped ==
    ASSUME TypeInv, NEW x \in Handler, pc[x] = "lock", Apply(x)
    PROVE  TypeInv'
<1>1. req[x] \in Op
  BY DEF TypeInv
<1>2. store' \in Store
  BY <1>1 DEF TypeInv, TypeOK, Apply, Store, Op
<1>3. ops' \in Seq(Op) /\ tk' \in [Handler -> Nat]
  BY <1>1 DEF TypeInv, TypeOK, Apply
<1>4. DataFile!JsonTypeOK'
  BY JsonTyped DEF TypeInv, TypeOK, Apply
<1>5. /\ pc' \in [Handler -> Pc]
      /\ \A y \in Handler : pc'[y] \in {"lock"} \cup Saving => req'[y] \in Op
  BY <1>1, MovesTyped DEF TypeInv, TypeOK, Apply, Pc, Saving
<1> QED
  BY <1>2, <1>3, <1>4, <1>5 DEF TypeInv, TypeOK, Apply

LEMMA LockTyped ==
    ASSUME TypeInv, NEW x \in Handler, lock(x)
    PROVE  TypeInv'
<1>1. CASE lockRegister(x)
  BY <1>1, ApplyTyped DEF lockRegister
<1>2. CASE lockDelete(x)
  BY <1>2, ApplyTyped DEF lockDelete
<1>3. ASSUME NEW label \in {"err", "render"}, Goto(x, label),
             UNCHANGED <<jsonVars, up, mu, store, req, tk, known, before, ops,
                         acked>>,
             nodes' \in [Handler -> Store]
      PROVE  TypeInv'
  <2>1. DataFile!JsonTypeOK'
    BY <1>3, JsonTyped DEF TypeInv, TypeOK
  <2>2. /\ pc' \in [Handler -> Pc]
        /\ \A y \in Handler : pc'[y] \in {"lock"} \cup Saving => req'[y] \in Op
    BY <1>3, MovesTyped DEF TypeInv, TypeOK, Pc, Saving
  <2> QED
    BY <1>3, <2>1, <2>2 DEF TypeInv, TypeOK
<1>4. CASE deleteNotFound(x)
  BY <1>3, <1>4 DEF deleteNotFound, TypeInv, TypeOK
<1>5. CASE snapshot(x)
  BY <1>3, <1>5 DEF snapshot, TypeInv, TypeOK
<1> QED
  BY <1>1, <1>2, <1>4, <1>5 DEF lock

LEMMA DoneTyped ==
    ASSUME TypeInv, NEW x \in Handler, Done(x), acked' \subseteq Nat
    PROVE  TypeInv'
<1>1. DataFile!JsonTypeOK'
  BY JsonTyped DEF TypeInv, TypeOK, Done
<1>2. req' \in [Handler -> Op \cup {NoOp}]
  BY DEF TypeInv, TypeOK, Done
<1>3. /\ pc' \in [Handler -> Pc]
      /\ \A y \in Handler : pc'[y] \in {"lock"} \cup Saving => req'[y] \in Op
  BY <1>2, MovesTyped DEF TypeInv, TypeOK, Done, Pc, Saving
<1> QED
  BY <1>1, <1>2, <1>3, EmptyStore DEF TypeInv, TypeOK, Done

LEMMA ProceedTyped ==
    ASSUME TypeInv, NEW x \in Handler, proceed(x)
    PROVE  TypeInv'
<1>1. ASSUME NEW label \in {"write", "rename", "ok", "err"}, Goto(x, label),
             pc[x] \in Saving,
             DataFile!JsonTypeOK',
             UNCHANGED <<up, store, req, nodes, tk, known, ops, acked>>,
             mu' \in Handler \cup {Free}, before' \in Store
      PROVE  TypeInv'
  <2>1. /\ pc' \in [Handler -> Pc]
        /\ \A y \in Handler : pc'[y] \in {"lock"} \cup Saving => req'[y] \in Op
    BY <1>1, MovesTyped DEF TypeInv, TypeOK, Pc, Saving
  <2> QED
    BY <1>1, <2>1 DEF TypeInv, TypeOK
<1>x. x \in Proc /\ nodes[x] \in Store
  BY DEF Proc, TypeInv, TypeOK
<1>2. CASE openTmp(x)
  <2>1. DataFile!JsonTypeOK'
    BY <1>2, <1>x, JsonTyped DEF openTmp, TypeInv, TypeOK
  <2> QED
    BY <1>1, <1>2, <2>1 DEF openTmp, TypeInv, TypeOK, Saving
<1>3. CASE writeTmp(x)
  <2>1. DataFile!JsonTypeOK'
    BY <1>3, <1>x, JsonTyped DEF writeTmp, TypeInv, TypeOK
  <2> QED
    BY <1>1, <1>3, <2>1 DEF writeTmp, TypeInv, TypeOK, Saving
<1>4. CASE renameTmp(x)
  <2>1. DataFile!JsonTypeOK'
    BY <1>4, JsonTyped DEF renameTmp, TypeInv, TypeOK
  <2> QED
    BY <1>1, <1>4, <2>1, EmptyStore DEF renameTmp, Unlock, Saving
<1>5. CASE saveFails(x)
  <2>1. DataFile!JsonTypeOK'
    BY <1>5, <1>x, JsonTyped DEF saveFails, TypeInv, TypeOK
  <2> QED
    BY <1>1, <1>5, <2>1, EmptyStore DEF saveFails, Unlock, Saving
<1>6. CASE replyOK(x)
  BY <1>6, DoneTyped DEF replyOK, TypeInv, TypeOK
<1>7. CASE replyError(x)
  BY <1>7, DoneTyped DEF replyError, TypeInv, TypeOK
<1>8. CASE render(x)
  BY <1>8, DoneTyped DEF render, TypeInv, TypeOK
<1> QED
  BY <1>2, <1>3, <1>4, <1>5, <1>6, <1>7, <1>8 DEF proceed

LEMMA ProcessTyped ==
    ASSUME TypeInv, Crash \/ Start
    PROVE  TypeInv'
<1>1. CASE Crash
  <2>1. DataFile!JsonTypeOK'
    BY <1>1, JsonTyped DEF Crash, TypeInv, TypeOK, Proc
  <2> QED
    BY <1>1, <2>1, EmptyStore DEF Crash, TypeInv, TypeOK, Pc, Saving
<1>2. CASE Start
  <2>1. DataFile!JsonTypeOK'
    BY <1>2, JsonTyped DEF Start, TypeInv, TypeOK
  <2>2. file.doc \in Store
    BY DEF TypeInv, TypeOK, DataFile!JsonTypeOK, DataFile!IsContent
  <2> QED
    BY <1>2, <2>1, <2>2, EmptyStore DEF Start, localVars, TypeInv, TypeOK
<1> QED
  BY <1>1, <1>2

LEMMA StepTyped == TypeInv /\ [Next]_vars => TypeInv'
<1> SUFFICES ASSUME TypeInv, [Next]_vars PROVE TypeInv'
  OBVIOUS
<1>1. CASE UNCHANGED vars
  <2>1. DataFile!JsonTypeOK'
    BY <1>1, JsonTyped DEF vars, jsonVars, TypeInv, TypeOK
  <2> QED
    BY <1>1, <2>1 DEF vars, TypeInv, TypeOK
<1> QED
  BY <1>1, RequestTyped, LockTyped, ProceedTyped, ProcessTyped DEF Next

\* Type correctness: every request, system call, crash and restart leaves the
\* server's variables and nodes.json in their types.
THEOREM TypeCorrect == Spec => []TypeOK
<1>1. TypeInv => TypeOK
  BY DEF TypeInv
<1> QED
  BY <1>1, InitTyped, StepTyped, PTL DEF Spec

-----------------------------------------------------------------------------
(* The mutex and the save protocol.                                        *)

Protocol == TypeInv /\ MutexInv /\ SaveInv /\ FileLoads

LEMMA InitProtocol == Init => Protocol
<1> SUFFICES ASSUME Init PROVE MutexInv /\ SaveInv /\ FileLoads
  BY InitTyped DEF Protocol
<1>1. MutexInv
  BY StoreAssumption DEF Init, MutexInv, Saving
<1>2. SaveInv
  BY DEF Init, SaveInv, Saving
<1>3. FileLoads
  BY DEF Init, FileLoads, DataFile!Loads, DataFile!Missing
<1> QED
  BY <1>1, <1>2, <1>3

\* A step that leaves saving handlers, the mutex and the files alone.
LEMMA QuietStep ==
    ASSUME Protocol, NEW x \in Handler, NEW label \in Pc \ Saving,
           pc[x] \notin Saving, up,
           Goto(x, label),
           UNCHANGED <<jsonVars, up, mu, store, before, ops>>,
           \A y \in Handler \ {x} :
               nodes'[y] = nodes[y] /\ req'[y] = req[y] /\ tk'[y] = tk[y]
    PROVE  MutexInv' /\ SaveInv' /\ FileLoads'
<1> USE DEF Protocol
<1>1. \A y \in Handler : pc'[y] = IF y = x THEN label ELSE pc[y]
  BY DEF TypeInv, TypeOK, Goto
<1>2. MutexInv'
  BY <1>1 DEF MutexInv, jsonVars, Saving, DataFile!Truncated
<1>3. SaveInv'
  BY <1>1 DEF SaveInv, jsonVars, DataFile!Holding
<1>4. FileLoads'
  BY DEF FileLoads, DataFile!Loads, jsonVars
<1> QED
  BY <1>2, <1>3, <1>4

LEMMA ApplyProtocol ==
    ASSUME Protocol, NEW x \in Handler, pc[x] = "lock", mu = Free, Apply(x)
    PROVE  MutexInv' /\ SaveInv' /\ FileLoads'
<1> USE DEF Protocol
<1>1. \A y \in Handler : pc'[y] = IF y = x THEN "open" ELSE pc[y]
  BY DEF TypeInv, TypeOK, Apply, Goto
<1>2. \A y \in Handler : pc[y] \notin Saving
  BY StoreAssumption DEF MutexInv
<1>3. MutexInv'
  BY <1>1, <1>2 DEF MutexInv, Apply, jsonVars, Saving, DataFile!Truncated
<1>4. req[x] \in Op /\ ops \in Seq(Op)
  BY DEF TypeInv, TypeOK
<1>5. /\ Len(ops') = Len(ops) + 1
      /\ ops'[Len(ops) + 1] = req[x]
  BY <1>4 DEF Apply
<1>6. /\ nodes'[x] = store'
      /\ tk'[x] = Len(ops) + 1
      /\ before' = store /\ req'[x] = req[x]
      /\ store' = [store EXCEPT ![req[x].id] = req[x].out]
  BY DEF TypeInv, TypeOK, Apply
<1>7. SaveInv'
  <2>1. \A y \in Handler : pc'[y] \in Saving => y = x
    BY <1>1, <1>2
  <2>2. store' = [before' EXCEPT ![req'[x].id] = req'[x].out]
    BY <1>6
  <2>3. tk'[x] \in 1 .. Len(ops') /\ ops'[tk'[x]] = req'[x]
    BY <1>4, <1>5, <1>6
  <2> QED
    BY <1>1, <1>6, <2>1, <2>2, <2>3 DEF SaveInv
<1>8. FileLoads'
  BY DEF FileLoads, DataFile!Loads, Apply, jsonVars
<1> QED
  BY <1>3, <1>7, <1>8

LEMMA OpenProtocol ==
    ASSUME Protocol, NEW x \in Handler, openTmp(x)
    PROVE  MutexInv' /\ SaveInv' /\ FileLoads'
<1> USE DEF Protocol
<1>1. \A y \in Handler : pc'[y] = IF y = x THEN "write" ELSE pc[y]
  BY DEF TypeInv, TypeOK, openTmp, Goto
<1>2. \A y \in Handler : pc[y] \in Saving => y = x
  BY DEF MutexInv, openTmp, Saving
<1>3. \A p \in Proc : fd'[p] = IF p = x THEN "tmp" ELSE fd[p]
  BY DEF openTmp, DataFile!OpenTmp, TypeInv, TypeOK, DataFile!JsonTypeOK, Proc
<1>4. x \in Proc
  BY DEF Proc
<1>5. MutexInv'
  BY <1>1, <1>2, <1>3, <1>4
     DEF MutexInv, openTmp, DataFile!OpenTmp, Saving, DataFile!Truncated
<1>6. SaveInv'
  BY <1>1, <1>2 DEF SaveInv, openTmp, Saving
<1>7. FileLoads'
  BY DEF FileLoads, DataFile!Loads, openTmp, DataFile!OpenTmp
<1> QED
  BY <1>5, <1>6, <1>7

LEMMA WriteProtocol ==
    ASSUME Protocol, NEW x \in Handler, writeTmp(x)
    PROVE  MutexInv' /\ SaveInv' /\ FileLoads' /\ file' = file
<1> USE DEF Protocol
<1>1. \A y \in Handler : pc'[y] = IF y = x THEN "rename" ELSE pc[y]
  BY DEF TypeInv, TypeOK, writeTmp, Goto
<1>2. \A y \in Handler : pc[y] \in Saving => y = x
  BY DEF MutexInv, writeTmp, Saving
<1>3. fd[x] = "tmp" /\ tmp = DataFile!Truncated
  BY DEF MutexInv, writeTmp
<1>4. DataFile!Overlay(DataFile!Target(x), nodes[x]) = {DataFile!Holding(nodes[x])}
  BY <1>3 DEF DataFile!Overlay, DataFile!Target
<1>5. /\ tmp' = DataFile!Holding(store)
      /\ file' = file
      /\ fd' = [fd EXCEPT ![x] = "none"]
  <2>1. DataFile!Land(x, DataFile!Holding(nodes[x]))
    BY <1>4 DEF writeTmp, DataFile!WriteTmp
  <2>2. nodes[x] = store
    BY DEF SaveInv, writeTmp, Saving
  <2> QED
    BY <1>3, <2>1, <2>2 DEF DataFile!Land
<1>6. \A p \in Proc : fd'[p] = IF p = x THEN "none" ELSE fd[p]
  BY <1>5 DEF TypeInv, TypeOK, DataFile!JsonTypeOK, Proc
<1>7. MutexInv'
  BY <1>1, <1>2, <1>6 DEF MutexInv, writeTmp, Saving, Proc
<1>8. SaveInv'
  BY <1>1, <1>2, <1>5 DEF SaveInv, writeTmp, Saving, DataFile!Holding
<1>9. FileLoads'
  BY <1>5 DEF FileLoads, DataFile!Loads
<1> QED
  BY <1>5, <1>7, <1>8, <1>9

LEMMA RenameProtocol ==
    ASSUME Protocol, NEW x \in Handler, renameTmp(x)
    PROVE  MutexInv' /\ SaveInv' /\ FileLoads' /\ file'.doc = store
<1> USE DEF Protocol
<1>1. \A y \in Handler : pc'[y] = IF y = x THEN "ok" ELSE pc[y]
  BY DEF TypeInv, TypeOK, renameTmp, Goto
<1>2. \A y \in Handler : pc[y] \in Saving => y = x
  BY DEF MutexInv, renameTmp, Saving
<1>3. \A p \in Proc : fd[p] = "none"
  BY <1>2 DEF MutexInv, renameTmp, Saving
<1>4. \A p \in Proc : fd'[p] = "none"
  BY <1>3 DEF renameTmp, DataFile!RenameTmp
<1>5. MutexInv'
  BY <1>1, <1>2, <1>4, StoreAssumption
     DEF MutexInv, renameTmp, Unlock, Saving
<1>6. SaveInv'
  BY <1>1, <1>2 DEF SaveInv, Saving
<1>7. file' = DataFile!Holding(store)
  BY DEF SaveInv, renameTmp, DataFile!RenameTmp, Saving
<1> QED
  BY <1>5, <1>6, <1>7 DEF FileLoads, DataFile!Loads, DataFile!Holding

LEMMA FailProtocol ==
    ASSUME Protocol, NEW x \in Handler, saveFails(x)
    PROVE  MutexInv' /\ SaveInv' /\ FileLoads' /\ file' = file
<1> USE DEF Protocol
<1>1. \A y \in Handler : pc'[y] = IF y = x THEN "err" ELSE pc[y]
  BY DEF TypeInv, TypeOK, saveFails, Goto
<1>2. pc[x] \in Saving /\ \A y \in Handler : pc[y] \in Saving => y = x
  BY DEF MutexInv, saveFails, Saving
<1>3. /\ file' = file
      /\ \A p \in Proc : fd'[p] = IF p = x THEN "none" ELSE fd[p]
  <2>1. CASE UNCHANGED jsonVars /\ pc[x] # "write"
    BY <2>1 DEF MutexInv, jsonVars
  <2>2. CASE pc[x] = "write" /\ DataFile!WriteFails(x, nodes[x])
    BY <2>2 DEF MutexInv, DataFile!WriteFails, DataFile!Land, TypeInv, TypeOK,
       DataFile!JsonTypeOK, Proc
  <2> QED
    BY <2>1, <2>2 DEF saveFails
<1>4. MutexInv'
  BY <1>1, <1>2, <1>3, StoreAssumption
     DEF MutexInv, saveFails, Unlock, Saving
<1>5. SaveInv'
  BY <1>1, <1>2 DEF SaveInv, Saving
<1>6. FileLoads'
  BY <1>3 DEF FileLoads, DataFile!Loads
<1> QED
  BY <1>3, <1>4, <1>5, <1>6

LEMMA CrashProtocol ==
    ASSUME Protocol, Crash
    PROVE  MutexInv' /\ SaveInv' /\ FileLoads' /\ file' = file
<1> USE DEF Protocol
<1>1. \A y \in Handler : pc'[y] = "idle"
  BY DEF Crash
<1>2. \A p \in Proc : fd'[p] = "none"
  BY DEF MutexInv, Crash, DataFile!Quit
<1>3. file' = file
  BY DEF MutexInv, Crash, DataFile!Quit, Proc
<1>4. MutexInv'
  BY <1>1, <1>2, StoreAssumption DEF MutexInv, Crash, Saving
<1>5. SaveInv'
  BY <1>1 DEF SaveInv, Saving
<1>6. FileLoads'
  BY <1>3 DEF FileLoads, DataFile!Loads
<1> QED
  BY <1>3, <1>4, <1>5, <1>6

LEMMA StartProtocol ==
    ASSUME Protocol, Start
    PROVE  MutexInv' /\ SaveInv' /\ FileLoads'
BY DEF Protocol, Start, MutexInv, SaveInv, FileLoads, DataFile!Loads, Saving,
   jsonVars, localVars, DataFile!Truncated, DataFile!Holding

LEMMA StepProtocol == Protocol /\ [Next]_vars => Protocol'
<1> SUFFICES ASSUME Protocol, [Next]_vars
             PROVE  MutexInv' /\ SaveInv' /\ FileLoads'
  BY StepTyped DEF Protocol
<1>1. ASSUME NEW x \in Handler, request(x)
      PROVE  MutexInv' /\ SaveInv' /\ FileLoads'
  BY <1>1, QuietStep
     DEF request, handleRegister, handleAPINode, handleSub, handleAPINodes,
         Arrive, ReadArrives, Pc, Saving, Protocol, TypeInv, TypeOK
<1>2. ASSUME NEW x \in Handler, lock(x)
      PROVE  MutexInv' /\ SaveInv' /\ FileLoads'
  <2>u. pc[x] \in {"lock", "read"} => up
    BY DEF Protocol, MutexInv
  <2>1. CASE lockRegister(x) \/ lockDelete(x)
    BY <2>1, ApplyProtocol DEF lockRegister, lockDelete
  <2>2. CASE deleteNotFound(x)
    BY <2>2, <2>u, QuietStep DEF deleteNotFound, Pc, Saving
  <2>3. CASE snapshot(x)
    BY <2>3, <2>u, QuietStep
       DEF snapshot, Pc, Saving, Protocol, TypeInv, TypeOK
  <2> QED
    BY <1>2, <2>1, <2>2, <2>3 DEF lock
<1>3. ASSUME NEW x \in Handler, pc[x] \in {"ok", "err", "render"}, Done(x)
      PROVE  MutexInv' /\ SaveInv' /\ FileLoads'
  <2>1. up
    BY <1>3 DEF Protocol, MutexInv
  <2> QED
    BY <1>3, <2>1, QuietStep DEF Done, Pc, Saving, Protocol, TypeInv, TypeOK
<1>4. ASSUME NEW x \in Handler, proceed(x)
      PROVE  MutexInv' /\ SaveInv' /\ FileLoads'
  BY <1>3, <1>4, OpenProtocol, WriteProtocol, RenameProtocol, FailProtocol
     DEF proceed, replyOK, replyError, render
<1>5. CASE UNCHANGED vars
  BY <1>5 DEF Protocol, MutexInv, SaveInv, FileLoads, DataFile!Loads, vars,
              Saving, DataFile!Truncated, DataFile!Holding
<1> QED
  BY <1>1, <1>2, <1>4, <1>5, CrashProtocol, StartProtocol DEF Next

\* A crash at any point of any handler, a failed save, an unreadable file at a
\* start: nodes.json stays missing or one complete document (saveNodes,
\* writeJSONAtomic).
THEOREM FileAlwaysLoads == Spec => []FileLoads
<1>1. Protocol => FileLoads
  BY DEF Protocol
<1> QED
  BY <1>1, InitProtocol, StepProtocol, PTL DEF Spec

-----------------------------------------------------------------------------
(* What was answered 200 is kept.  An unreadable nodes.json at a start      *)
(* erases it (the server starts empty and saves over it), so these theorems *)
(* assume that "read" is not among the faults.                              *)

\* A change of the store covers what the store covered, and itself.
LEMMA CoversApply ==
    ASSUME NEW h \in Seq(Op), NEW op \in Op, NEW d \in Store
    PROVE  LET e == [d EXCEPT ![op.id] = op.out]
               g == Append(h, op)
           IN  /\ Covers(g, e, Len(h) + 1)
               /\ \A k \in 1 .. Len(h) :
                      Covers(h, d, k) => Covers(g, e, k) /\ Covers(g, d, k)
<1> DEFINE e == [d EXCEPT ![op.id] = op.out]
           g == Append(h, op)
<1>1. /\ Len(g) = Len(h) + 1 /\ Len(h) \in Nat
      /\ g[Len(h) + 1] = op
      /\ \A i \in 1 .. Len(h) : g[i] = h[i] /\ h[i] \in Op
  OBVIOUS
<1>2. \A n \in NodeID : e[n] = IF n = op.id THEN op.out ELSE d[n]
  BY DEF Store, Op
<1> HIDE DEF e, g
<1>3. Covers(g, e, Len(h) + 1)
  BY <1>1, <1>2 DEF Covers, Op
<1>4. ASSUME NEW k \in 1 .. Len(h), Covers(h, d, k)
      PROVE  Covers(g, e, k) /\ Covers(g, d, k)
  <2>1. PICK j \in k .. Len(h) : h[j].id = h[k].id /\ h[j].out = d[h[k].id]
    BY <1>4 DEF Covers
  <2>2. Covers(g, d, k)
    BY <1>1, <2>1 DEF Covers
  <2>3. CASE h[k].id = op.id
    <3>1. Len(h) + 1 \in k .. Len(g)
      BY <1>1
    <3>2. g[Len(h) + 1].id = g[k].id /\ g[Len(h) + 1].out = e[g[k].id]
      BY <1>1, <1>2, <2>3 DEF Op
    <3> QED
      BY <2>2, <3>1, <3>2 DEF Covers
  <2>4. CASE h[k].id # op.id
    <3>1. j \in k .. Len(g) /\ j \in 1 .. Len(h)
      BY <1>1, <2>1
    <3>2. g[j].id = g[k].id /\ g[j].out = e[g[k].id]
      BY <1>1, <1>2, <2>1, <2>4, <3>1 DEF Op
    <3> QED
      BY <2>2, <3>1, <3>2 DEF Covers
  <2> QED
    BY <2>2, <2>3, <2>4
<1> QED
  BY <1>3, <1>4 DEF e, g

\* A change that is in h and whose outcome is in d is covered.
LEMMA CoversOwn ==
    ASSUME NEW h \in Seq(Op), NEW d, NEW k \in 1 .. Len(h),
           d[h[k].id] = h[k].out
    PROVE  Covers(h, d, k)
BY DEF Covers

Durable == Protocol /\ AckInv /\ ReadInv

LEMMA InitDurable == Init => Durable
BY InitProtocol DEF Durable, Init, AckInv, ReadInv, SubFresh

\* A step that adds no change and leaves the store and nodes.json alone, by a
\* handler that does not go to "ok" or "render".
LEMMA KeepsDurable ==
    ASSUME Durable, NEW x \in Handler, NEW label \in Pc \ {"ok", "render"},
           Goto(x, label),
           UNCHANGED <<up, store, ops>>, file'.doc = file.doc,
           acked' = acked \/ (pc[x] = "ok" /\ acked' = acked \cup {tk[x]}),
           known'[x] \subseteq acked',
           \A y \in Handler \ {x} :
               nodes'[y] = nodes[y] /\ known'[y] = known[y] /\ tk'[y] = tk[y]
    PROVE  AckInv' /\ ReadInv'
<1> USE DEF Durable, Protocol
<1>1. \A y \in Handler : pc'[y] = IF y = x THEN label ELSE pc[y]
  BY DEF TypeInv, TypeOK, Goto
<1>2. AckInv'
  <2>1. /\ acked' \subseteq 1 .. Len(ops')
        /\ \A k \in acked' :
             Covers(ops', file'.doc, k) /\ (up' => Covers(ops', store', k))
    BY DEF AckInv
  <2>2. ASSUME NEW y \in Handler, pc'[y] = "ok"
        PROVE  /\ tk'[y] \in 1 .. Len(ops')
               /\ Covers(ops', file'.doc, tk'[y])
               /\ Covers(ops', store', tk'[y])
    BY <1>1, <2>2 DEF AckInv
  <2> QED
    BY <2>1, <2>2 DEF AckInv
<1>3. ReadInv'
  BY <1>1 DEF ReadInv, SubFresh
<1> QED
  BY <1>2, <1>3

LEMMA ApplyDurable ==
    ASSUME Durable, NEW x \in Handler, pc[x] = "lock", Apply(x)
    PROVE  AckInv' /\ ReadInv'
<1> USE DEF Durable, Protocol
<1>1. \A y \in Handler : pc'[y] = IF y = x THEN "open" ELSE pc[y]
  BY DEF TypeInv, TypeOK, Apply, Goto
<1>2. /\ req[x] \in Op /\ ops \in Seq(Op) /\ store \in Store
      /\ file.doc \in Store
      /\ \A y \in Handler : nodes[y] \in Store
  BY DEF TypeInv, TypeOK, DataFile!JsonTypeOK, DataFile!IsContent
<1>3. /\ ops' = Append(ops, req[x]) /\ file' = file /\ up' = up
      /\ acked' = acked /\ known' = known
      /\ store' = [store EXCEPT ![req[x].id] = req[x].out]
      /\ \A y \in Handler \ {x} : tk'[y] = tk[y] /\ nodes'[y] = nodes[y]
  BY DEF Apply, jsonVars, TypeInv, TypeOK
<1>4. /\ Len(ops') = Len(ops) + 1 /\ Len(ops) \in Nat
  BY <1>2, <1>3
<1>5. \A k \in 1 .. Len(ops) :
        /\ Covers(ops, store, k) => Covers(ops', store', k)
        /\ Covers(ops, file.doc, k) => Covers(ops', file'.doc, k)
        /\ \A y \in Handler : Covers(ops, nodes[y], k) => Covers(ops', nodes[y], k)
  BY <1>2, <1>3, CoversApply
<1>6. AckInv'
  <2>1. /\ acked' \subseteq 1 .. Len(ops')
        /\ \A k \in acked' :
             Covers(ops', file'.doc, k) /\ (up' => Covers(ops', store', k))
    <3>1. acked' \subseteq 1 .. Len(ops) /\ acked' = acked
      BY <1>3 DEF AckInv
    <3>2. acked' \subseteq 1 .. Len(ops')
      BY <1>4, <3>1
    <3> QED
      BY <1>3, <1>5, <3>1, <3>2 DEF AckInv
  <2>2. ASSUME NEW y \in Handler, pc'[y] = "ok"
        PROVE  /\ tk'[y] \in 1 .. Len(ops')
               /\ Covers(ops', file'.doc, tk'[y])
               /\ Covers(ops', store', tk'[y])
    <3>1. y # x /\ pc[y] = "ok" /\ tk'[y] = tk[y] /\ tk[y] \in 1 .. Len(ops)
      BY <1>1, <1>3, <2>2 DEF AckInv
    <3> QED
      BY <1>4, <1>5, <3>1 DEF AckInv
  <2> QED
    BY <2>1, <2>2 DEF AckInv
<1>7. ReadInv'
  BY <1>1, <1>2, <1>3, <1>5 DEF ReadInv, SubFresh, AckInv
<1> QED
  BY <1>6, <1>7

LEMMA SnapshotDurable ==
    ASSUME Durable, NEW x \in Handler, snapshot(x)
    PROVE  AckInv' /\ ReadInv'
<1> USE DEF Durable, Protocol
<1>1. \A y \in Handler : pc'[y] = IF y = x THEN "render" ELSE pc[y]
  BY DEF TypeInv, TypeOK, snapshot, Goto
<1>2. up
  BY DEF MutexInv, snapshot
<1>3. \A y \in Handler : nodes'[y] = IF y = x THEN store ELSE nodes[y]
  BY DEF TypeInv, TypeOK, snapshot
<1>4. AckInv'
  BY <1>1 DEF AckInv, Covers, snapshot, jsonVars
<1>5. ReadInv'
  <2>1. /\ ops' = ops /\ acked' = acked /\ known' = known
        /\ \A k \in acked : Covers(ops, store, k)
    BY <1>2 DEF snapshot, AckInv
  <2>2. ASSUME NEW y \in Handler, pc'[y] = "render", NEW k \in known'[y]
        PROVE  Covers(ops', nodes'[y], k)
    BY <1>1, <1>3, <2>1, <2>2 DEF ReadInv, SubFresh
  <2> QED
    BY <2>1, <2>2 DEF ReadInv, SubFresh
<1> QED
  BY <1>4, <1>5

LEMMA RenameDurable ==
    ASSUME Durable, NEW x \in Handler, renameTmp(x)
    PROVE  AckInv' /\ ReadInv'
<1> USE DEF Durable, Protocol
<1>1. \A y \in Handler : pc'[y] = IF y = x THEN "ok" ELSE pc[y]
  BY DEF TypeInv, TypeOK, renameTmp, Goto
<1>2. up /\ file'.doc = store /\ store' = store /\ ops' = ops /\ up' = up
  BY RenameProtocol DEF MutexInv, renameTmp
<1>3. tk[x] \in 1 .. Len(ops) /\ Covers(ops, store, tk[x])
  <2>1. /\ tk[x] \in 1 .. Len(ops) /\ ops[tk[x]] = req[x]
        /\ store = [before EXCEPT ![req[x].id] = req[x].out]
    BY DEF SaveInv, renameTmp, Saving
  <2>2. before \in Store /\ req[x] \in Op /\ ops \in Seq(Op)
    BY DEF TypeInv, TypeOK, renameTmp, Saving
  <2>3. store[req[x].id] = req[x].out
    BY <2>1, <2>2 DEF Store, Op
  <2> QED
    BY <2>1, <2>2, <2>3, CoversOwn
<1>4. AckInv'
  BY <1>1, <1>2, <1>3 DEF AckInv, renameTmp
<1>5. ReadInv'
  BY <1>1, <1>2 DEF ReadInv, SubFresh, renameTmp
<1> QED
  BY <1>4, <1>5

LEMMA CrashDurable ==
    ASSUME Durable, Crash
    PROVE  AckInv' /\ ReadInv'
<1>1. file' = file
  BY CrashProtocol DEF Durable
<1> QED
  BY <1>1 DEF Durable, Crash, AckInv, ReadInv, SubFresh

LEMMA StartDurable ==
    ASSUME Durable, "read" \notin Faults, Start
    PROVE  AckInv' /\ ReadInv'
<1>1. \A x \in Handler : pc[x] = "idle"
  BY DEF Durable, Protocol, MutexInv, Start
<1> QED
  BY <1>1 DEF Durable, Start, jsonVars, localVars, AckInv, ReadInv, SubFresh

LEMMA StepDurable ==
    ASSUME "read" \notin Faults
    PROVE  Durable /\ [Next]_vars => Durable'
<1> SUFFICES ASSUME Durable, [Next]_vars
             PROVE  AckInv' /\ ReadInv'
  BY StepProtocol DEF Durable
<1> USE DEF Durable
<1>t. /\ known \in [Handler -> SUBSET Nat] /\ tk \in [Handler -> Nat]
      /\ nodes \in [Handler -> Store]
      /\ \A y \in Handler : known[y] \subseteq acked
  BY DEF Protocol, TypeInv, TypeOK, ReadInv
<1>1. ASSUME NEW x \in Handler, request(x)
      PROVE  AckInv' /\ ReadInv'
  <2>1. CASE handleRegister(x) \/ handleAPINode(x)
    BY <1>t, <2>1, KeepsDurable
       DEF handleRegister, handleAPINode, Arrive, jsonVars, Pc
  <2>2. CASE ReadArrives(x)
    BY <1>t, <2>2, KeepsDurable DEF ReadArrives, jsonVars, Pc
  <2> QED
    BY <1>1, <2>1, <2>2 DEF request, handleSub, handleAPINodes
<1>2. ASSUME NEW x \in Handler, lock(x)
      PROVE  AckInv' /\ ReadInv'
  <2>1. CASE lockRegister(x) \/ lockDelete(x)
    BY <2>1, ApplyDurable DEF lockRegister, lockDelete
  <2>2. CASE deleteNotFound(x)
    BY <1>t, <2>2, KeepsDurable DEF deleteNotFound, jsonVars, Pc
  <2>3. CASE snapshot(x)
    BY <2>3, SnapshotDurable
  <2> QED
    BY <1>2, <2>1, <2>2, <2>3 DEF lock
<1>3. ASSUME NEW x \in Handler, openTmp(x) \/ writeTmp(x) \/ saveFails(x)
      PROVE  AckInv' /\ ReadInv'
  <2>1. file' = file
    BY <1>3, WriteProtocol, FailProtocol DEF openTmp, DataFile!OpenTmp
  <2>2. PICK label \in {"write", "rename", "err"} : Goto(x, label)
    BY <1>3 DEF openTmp, writeTmp, saveFails
  <2> QED
    BY <1>t, <1>3, <2>1, <2>2, KeepsDurable
       DEF openTmp, writeTmp, saveFails, Pc, Saving
<1>4. ASSUME NEW x \in Handler, replyOK(x) \/ replyError(x) \/ render(x)
      PROVE  AckInv' /\ ReadInv'
  BY <1>t, <1>4, KeepsDurable
     DEF replyOK, replyError, render, Done, jsonVars, Pc
<1>5. CASE UNCHANGED vars
  BY <1>5 DEF vars, AckInv, ReadInv, SubFresh, Covers
<1> QED
  BY <1>1, <1>2, <1>3, <1>4, <1>5, RenameDurable, CrashDurable, StartDurable
     DEF Next, proceed

LEMMA DurableAlways == "read" \notin Faults => (Spec => []Durable)
<1> SUFFICES ASSUME "read" \notin Faults PROVE Spec => []Durable
  OBVIOUS
<1>1. Durable /\ [Next]_vars => Durable'
  BY StepDurable
<1> QED
  BY <1>1, InitDurable, PTL DEF Spec

\* No acknowledged registration or removal is ever lost, whatever saves fail
\* and wherever the server crashes, as long as a start can read nodes.json
\* (handleRegister, handleAPINode, newRegistryServer).
THEOREM AckedNeverLost ==
    "read" \notin Faults => (Spec => []AckedDurable)
<1>1. Durable => AckedDurable
  BY DEF Durable, AckInv, AckedDurable
<1> QED
  BY <1>1, DurableAlways, PTL

\* Every subscription shows all that was acknowledged before it was asked for
\* (handleSub, handleAPINodes).
THEOREM SubAlwaysFresh ==
    "read" \notin Faults => (Spec => []SubFresh)
<1>1. Durable => SubFresh
  BY DEF Durable, ReadInv
<1> QED
  BY <1>1, DurableAlways, PTL

-----------------------------------------------------------------------------
(* The server implements the abstract registry.                            *)

Step == [Registry!Next]_<<ServedNow, file.doc>>

LEMMA InitRefines == Init => Registry!Init
BY EmptyStore DEF Init, Registry!Init, Registry!Record, ServedNow, Store,
   Record, DataFile!Missing

\* Nothing a client or a restart could tell.
LEMMA Stutters ==
    ASSUME ServedNow' = ServedNow, file'.doc = file.doc
    PROVE  Step
BY DEF Step

LEMMA ApplyRefines ==
    ASSUME Protocol, NEW x \in Handler, mu = Free, up, Apply(x)
    PROVE  Step
<1>1. ServedNow = store /\ ServedNow' = store
  BY StoreAssumption DEF ServedNow, Apply
<1> QED
  BY <1>1, Stutters DEF Apply, jsonVars

\* The holder of the mutex releases it: its change becomes visible.
LEMMA UnlockRefines ==
    ASSUME Protocol, NEW x \in Handler, pc[x] \in Saving,
           mu' = Free, up' = up, store' = store,
           file'.doc \in {file.doc, store}
    PROVE  Step
<1>1. /\ mu = x /\ mu # Free /\ up
      /\ store = [before EXCEPT ![req[x].id] = req[x].out]
  BY StoreAssumption DEF Protocol, MutexInv, SaveInv, Saving
<1>2. req[x].id \in NodeID /\ req[x].out \in Registry!Record
  BY DEF Protocol, TypeInv, Op, Record, Registry!Record
<1>3. ServedNow = before /\ ServedNow' = store
  BY <1>1 DEF ServedNow
<1>4. CASE file'.doc = store
  <2>1. Registry!Commit(req[x].id, req[x].out)
    BY <1>1, <1>3, <1>4 DEF Registry!Commit
  <2> QED
    BY <1>2, <2>1 DEF Step, Registry!Next
<1>5. CASE file'.doc = file.doc
  <2>1. Registry!FailedSave(req[x].id, req[x].out)
    BY <1>1, <1>3, <1>5 DEF Registry!FailedSave
  <2> QED
    BY <1>2, <2>1 DEF Step, Registry!Next
<1> QED
  BY <1>4, <1>5

LEMMA CrashRefines ==
    ASSUME Protocol, Crash
    PROVE  Step
<1>1. file' = file /\ ServedNow' = file.doc
  BY CrashProtocol DEF Crash, ServedNow
<1>2. Registry!Recover
  BY <1>1 DEF Registry!Recover
<1> QED
  BY <1>2 DEF Step, Registry!Next

LEMMA StartRefines ==
    ASSUME Protocol, "read" \notin Faults, Start
    PROVE  Step
<1>1. mu = Free
  BY DEF Protocol, TypeInv, TypeOK, MutexInv, Start, Saving
<1>2. ServedNow = file.doc /\ ServedNow' = file.doc
  BY <1>1 DEF Start, ServedNow
<1> QED
  BY <1>2, Stutters DEF Start, jsonVars

LEMMA StepRefines ==
    ASSUME "read" \notin Faults
    PROVE  Protocol /\ [Next]_vars => Step
<1> SUFFICES ASSUME Protocol, [Next]_vars PROVE Step
  OBVIOUS
<1>q. ASSUME UNCHANGED <<up, mu, store, before>>, file'.doc = file.doc
      PROVE  Step
  BY <1>q, Stutters DEF ServedNow
<1>1. ASSUME NEW x \in Handler, request(x) \/ replyOK(x) \/ replyError(x)
                               \/ render(x) \/ deleteNotFound(x) \/ snapshot(x)
      PROVE  Step
  BY <1>1, <1>q DEF request, handleRegister, handleAPINode, handleSub,
     handleAPINodes, Arrive, ReadArrives, replyOK, replyError, render, Done,
     deleteNotFound, snapshot, jsonVars
<1>2. ASSUME NEW x \in Handler, lockRegister(x) \/ lockDelete(x)
      PROVE  Step
  <2>1. up
    BY <1>2 DEF lockRegister, lockDelete, Protocol, MutexInv
  <2> QED
    BY <1>2, <2>1, ApplyRefines DEF lockRegister, lockDelete
<1>3. ASSUME NEW x \in Handler, openTmp(x) \/ writeTmp(x)
      PROVE  Step
  BY <1>3, <1>q, WriteProtocol DEF openTmp, writeTmp, DataFile!OpenTmp
<1>4. ASSUME NEW x \in Handler, renameTmp(x) \/ saveFails(x)
      PROVE  Step
  <2>1. file'.doc \in {file.doc, store}
    BY <1>4, RenameProtocol, FailProtocol
  <2> QED
    BY <1>4, <2>1, UnlockRefines DEF renameTmp, saveFails, Unlock, Saving
<1>5. CASE UNCHANGED vars
  BY <1>5, <1>q DEF vars
<1> QED
  BY <1>1, <1>2, <1>3, <1>4, <1>5, CrashRefines, StartRefines
     DEF Next, lock, proceed

\* With the mutex, the handlers and the temporary file abstracted away, the
\* server is the registry of NodeRegistry: each change reaches clients and
\* disk at once and alone (all handlers of server.go, saveNodes).
THEOREM ServerImplementsRegistry ==
    "read" \notin Faults => (Spec => ImplementsRegistry)
<1> SUFFICES ASSUME "read" \notin Faults PROVE Spec => Registry!Spec
  BY DEF ImplementsRegistry
<1>1. Protocol /\ [Next]_vars => [Registry!Next]_<<ServedNow, file.doc>>
  BY StepRefines DEF Step
<1> QED
  BY <1>1, InitRefines, InitProtocol, StepProtocol, PTL
     DEF Spec, Registry!Spec, Registry!rvars
=============================================================================
