--------------------------- MODULE GoNodeCLIProofs ---------------------------
(***************************************************************************)
(* Theorems about `vpn-registry node delete` next to the server, for any   *)
(* number of handlers, commands, nodes and records.  Types hold however    *)
(* the two run; the rest needs Offline, the operator's discipline: the     *)
(* service is stopped and one command runs at a time.                      *)
(***************************************************************************)
EXTENDS GoNodeCLI, GoNodeStoreProofs

Idle == \A c \in Cli : cpc[c] = "idle"

CliTypes == TypeInv /\ CliTypeOK

\* While a command runs the server is down with nothing under way, and no
\* other command runs.
Alone(c) ==
    /\ ~up
    /\ mu = Free
    /\ \A x \in Handler : pc[x] = "idle"
    /\ \A d \in Cli : cpc[d] # "idle" => d = c

\* The command alone has a file open, the one it truncated, and what it
\* renames is the list it collected.
FilesHeld(c) ==
    /\ file.kind = "doc"
    /\ \A p \in Proc : fd[p] # "none" => p = c /\ cpc[c] = "write"
    /\ cpc[c] = "write" => fd[c] = "tmp" /\ tmp = DataFile!Truncated
    /\ cpc[c] = "rename" => tmp = DataFile!Holding(cdoc[c])

\* The list is nodes.json without the node, and it covers what nodes.json
\* covered and the deletion itself.
ListHeld(c) ==
    /\ cid[c] \in NodeID
    /\ ctk[c] \in 1 .. Len(ops)
    /\ cpc[c] \in Saving =>
        /\ cdoc[c] = Without(file.doc, cid[c])
        /\ \A k \in acked \cup {ctk[c]} : Covers(ops, cdoc[c], k)
    /\ cpc[c] = "ok" => Covers(ops, file.doc, ctk[c])

CommandInv ==
    \A c \in Cli : cpc[c] # "idle" => Alone(c) /\ FilesHeld(c) /\ ListHeld(c)

\* The server's invariant, of which a running command only suspends the part
\* that says that all open files are the server's.
OfflineInv ==
    /\ CliTypes
    /\ Idle => MutexInv
    /\ SaveInv
    /\ FileLoads
    /\ AckInv
    /\ ReadInv
    /\ CommandInv

-----------------------------------------------------------------------------
(* Types.                                                                  *)

LEMMA WithoutStore ==
    ASSUME NEW d \in Store, NEW n \in NodeID
    PROVE  Without(d, n) \in Store
BY DEF Without, Store, Record

LEMMA CliInitTyped == CliInit => CliTypes
BY InitTyped, EmptyStore DEF CliInit, CliTypes, CliTypeOK, TypeInv, Saving

\* A command moves the files, the history and its own variables only.
LEMMA CliMoveTyped ==
    ASSUME CliTypes, UNCHANGED serverVars, DataFile!JsonTypeOK',
           ops' \in Seq(Op), acked' \subseteq Nat
    PROVE  TypeInv'
BY DEF CliTypes, serverVars, localVars, TypeInv, TypeOK

LEMMA CliStepTyped ==
    ASSUME CliTypes, NEW c \in Cli, cliStep(c)
    PROVE  CliTypes'
<1> USE DEF CliTypes
<1>t. /\ DataFile!JsonTypeOK /\ ops \in Seq(Op) /\ acked \subseteq Nat
      /\ cdoc[c] \in Store /\ ctk[c] \in Nat /\ file.doc \in Store /\ c \in Proc
      /\ Len(ops) \in Nat
  BY DEF TypeInv, TypeOK, CliTypeOK, DataFile!JsonTypeOK, DataFile!IsContent,
     Proc
<1>1. ASSUME NEW n \in NodeID, runNodeDelete(c, n)
      PROVE  CliTypes'
  <2>1. DataFile!JsonTypeOK'
    BY <1>1, <1>t, JsonTyped DEF runNodeDelete
  <2>2. ops' \in Seq(Op)
    BY <1>1, <1>t DEF runNodeDelete, Op, Record
  <2>3. TypeInv'
    BY <1>1, <1>t, <2>1, <2>2, CliMoveTyped DEF runNodeDelete
  <2>4. /\ cpc' \in [Cli -> {"idle", "ok"} \cup Saving]
        /\ cid' \in [Cli -> NodeID \cup {Absent}]
        /\ cdoc' \in [Cli -> Store]
        /\ ctk' \in [Cli -> Nat]
    BY <1>1, <1>t, WithoutStore DEF runNodeDelete, CliGoto, CliTypeOK, Saving
  <2> QED
    BY <2>3, <2>4 DEF CliTypeOK, TypeInv
<1>2. ASSUME cliOpenTmp(c) \/ cliWriteTmp(c) \/ cliRenameTmp(c)
      PROVE  CliTypes'
  <2>1. DataFile!JsonTypeOK'
    BY <1>2, <1>t, JsonTyped DEF cliOpenTmp, cliWriteTmp, cliRenameTmp
  <2>2. TypeInv'
    BY <1>2, <1>t, <2>1, CliMoveTyped DEF cliOpenTmp, cliWriteTmp, cliRenameTmp
  <2>3. cpc' \in [Cli -> {"idle", "ok"} \cup Saving]
    BY <1>2 DEF cliOpenTmp, cliWriteTmp, cliRenameTmp, CliGoto, CliTypeOK, Saving
  <2> QED
    BY <1>2, <2>2, <2>3
       DEF cliOpenTmp, cliWriteTmp, cliRenameTmp, CliTypeOK, TypeInv
<1>3. ASSUME CliGone(c), DataFile!JsonTypeOK', acked' \subseteq Nat
      PROVE  CliTypes'
  <2>1. TypeInv'
    BY <1>3, <1>t, CliMoveTyped DEF CliGone
  <2> QED
    BY <1>3, <2>1, EmptyStore DEF CliGone, CliGoto, CliTypeOK, TypeInv
<1>4. CASE cliExit(c)
  BY <1>3, <1>4, <1>t, JsonTyped DEF cliExit
<1>5. CASE cliFails(c)
  <2>1. DataFile!JsonTypeOK'
    BY <1>5, <1>t, JsonTyped DEF cliFails
  <2> QED
    BY <1>3, <1>5, <1>t, <2>1 DEF cliFails
<1> QED
  BY <1>1, <1>2, <1>4, <1>5 DEF cliStep

\* A step of the server next to the commands is a step of the server.
LEMMA ServerSteps == serverStep => Next /\ UNCHANGED cvars
BY DEF serverStep, Next

LEMMA CliNextTyped == CliTypes /\ [CliNext]_allVars => CliTypes'
<1> SUFFICES ASSUME CliTypes, [CliNext]_allVars PROVE CliTypes'
  OBVIOUS
<1>1. ASSUME [Next]_vars, UNCHANGED cvars
      PROVE  CliTypes'
  <2>1. TypeInv'
    BY <1>1, StepTyped DEF CliTypes
  <2> QED
    BY <1>1, <2>1 DEF CliTypes, CliTypeOK, TypeInv, cvars
<1> QED
  BY <1>1, ServerSteps, CliStepTyped DEF CliNext, allVars

\* Type correctness: whatever steps the server and any number of delete
\* commands interleave, their variables and the shared files keep their types.
THEOREM CliTypeCorrect == CliSpec => []CliTypeOK
<1>1. CliTypes => CliTypeOK
  BY DEF CliTypes
<1> QED
  BY <1>1, CliInitTyped, CliNextTyped, PTL DEF CliSpec

-----------------------------------------------------------------------------
(* The invariant of the discipline.                                        *)

LEMMA InitOffline == CliInit => OfflineInv
<1> SUFFICES ASSUME CliInit PROVE OfflineInv
  OBVIOUS
<1>1. Durable
  BY InitDurable DEF CliInit
<1>2. CommandInv
  BY DEF CliInit, CommandInv
<1> QED
  BY <1>1, <1>2, CliInitTyped DEF OfflineInv, Durable, Protocol

\* With no command running, this is the invariant of the server alone.
LEMMA IdleDurable == OfflineInv /\ Idle => Durable
BY DEF OfflineInv, Durable, Protocol, CliTypes

\* The server takes no step while a command runs.
LEMMA ServerWaits ==
    ASSUME Offline, OfflineInv, serverStep
    PROVE  Idle
<1> SUFFICES ASSUME NEW c \in Cli, cpc[c] # "idle" PROVE FALSE
  BY DEF Idle
<1>1. ~up /\ \A x \in Handler : pc[x] = "idle"
  BY DEF OfflineInv, CommandInv, Alone
<1>2. ASSUME NEW x \in Handler, request(x) \/ lock(x) \/ proceed(x)
      PROVE  FALSE
  BY <1>1, <1>2
     DEF request, handleRegister, handleAPINode, handleSub, handleAPINodes,
         Arrive, ReadArrives, lock, lockRegister, lockDelete, deleteNotFound,
         snapshot, proceed, openTmp, writeTmp, renameTmp, saveFails, replyOK,
         replyError, render
<1> QED
  BY <1>1, <1>2 DEF serverStep, Crash, ServiceMayStart

LEMMA ServerOffline ==
    ASSUME Offline, "read" \notin Faults, OfflineInv, serverStep
    PROVE  OfflineInv'
<1>1. Idle /\ UNCHANGED cvars /\ Next
  BY ServerWaits, ServerSteps
<1>2. Durable'
  BY <1>1, IdleDurable, StepDurable
<1>3. CliTypes'
  BY CliNextTyped DEF OfflineInv, CliNext
<1>4. CommandInv'
  BY <1>1 DEF Idle, CommandInv, cvars
<1> QED
  BY <1>2, <1>3, <1>4 DEF OfflineInv, Durable, Protocol

\* What a command's step leaves of the server's invariant.
LEMMA CommandKeeps ==
    ASSUME OfflineInv, UNCHANGED serverVars, ~up,
           \A x \in Handler : pc[x] = "idle",
           file'.kind \in {"missing", "doc"},
           acked' \subseteq 1 .. Len(ops'),
           \A k \in acked' : Covers(ops', file'.doc, k),
           acked \subseteq acked'
    PROVE  SaveInv' /\ FileLoads' /\ AckInv' /\ ReadInv'
<1>1. ~up' /\ (\A x \in Handler : pc'[x] = "idle") /\ known' = known
  BY DEF serverVars, localVars
<1>2. SaveInv'
  BY <1>1 DEF SaveInv, Saving
<1>3. FileLoads'
  BY DEF FileLoads, DataFile!Loads
<1>4. AckInv'
  BY <1>1 DEF AckInv
<1>5. ReadInv'
  BY <1>1 DEF OfflineInv, ReadInv, SubFresh
<1> QED
  BY <1>2, <1>3, <1>4, <1>5

LEMMA DeleteOffline ==
    ASSUME Offline, OfflineInv, NEW c \in Cli, NEW n \in NodeID,
           runNodeDelete(c, n)
    PROVE  OfflineInv'
<1>1. /\ ~up /\ Idle /\ UNCHANGED <<jsonVars, serverVars, acked>>
      /\ file.kind = "doc"
  BY DEF runNodeDelete, Idle
<1>2. /\ mu = Free
      /\ \A x \in Handler : pc[x] = "idle"
      /\ \A p \in Proc : fd[p] = "none"
  BY <1>1 DEF OfflineInv, CliTypes, TypeInv, TypeOK, MutexInv, Saving
<1>3. CliTypes'
  BY CliStepTyped DEF OfflineInv, cliStep
<1>4. /\ ops \in Seq(Op) /\ file.doc \in Store
      /\ acked \subseteq 1 .. Len(ops)
  BY DEF OfflineInv, CliTypes, TypeInv, TypeOK, AckInv, DataFile!JsonTypeOK,
     DataFile!IsContent
<1> DEFINE op == [id |-> n, out |-> Absent]
<1>5. op \in Op /\ op.id = n /\ op.out = Absent
  BY DEF Op, Record
<1>6. /\ ops' = Append(ops, op)
      /\ Len(ops') = Len(ops) + 1 /\ Len(ops) \in Nat
  BY <1>4, <1>5 DEF runNodeDelete
<1>7. /\ cpc' = [cpc EXCEPT ![c] = "open"]
      /\ \A d \in Cli : cpc'[d] = IF d = c THEN "open" ELSE "idle"
      /\ cid'[c] = n /\ cdoc'[c] = Without(file.doc, n)
      /\ ctk'[c] = Len(ops) + 1
  BY <1>1 DEF runNodeDelete, CliGoto, Idle, OfflineInv, CliTypes, CliTypeOK
<1>8. /\ Covers(ops', cdoc'[c], ctk'[c])
      /\ \A k \in acked : Covers(ops', cdoc'[c], k) /\ Covers(ops', file.doc, k)
  <2>1. \A k \in acked : Covers(ops, file.doc, k) /\ k \in 1 .. Len(ops)
    BY <1>4 DEF OfflineInv, AckInv
  <2>2. cdoc'[c] = [file.doc EXCEPT ![op.id] = op.out]
    BY <1>5, <1>7 DEF Without
  <2> HIDE DEF op
  <2> QED
    BY <1>4, <1>5, <1>6, <1>7, <2>1, <2>2, CoversApply
<1>9. SaveInv' /\ FileLoads' /\ AckInv' /\ ReadInv'
  <2>1. acked' = acked /\ file' = file /\ acked' \subseteq 1 .. Len(ops')
    BY <1>1, <1>4, <1>6 DEF jsonVars
  <2> QED
    BY <1>1, <1>2, <1>8, <2>1, CommandKeeps
<1>10. CommandInv'
  <2>1. Alone(c)'
    BY <1>1, <1>2, <1>7 DEF Alone, serverVars, localVars
  <2>2. FilesHeld(c)'
    BY <1>1, <1>2, <1>7 DEF FilesHeld, jsonVars
  <2>3. ListHeld(c)'
    BY <1>1, <1>6, <1>7, <1>8 DEF ListHeld, jsonVars
  <2> QED
    BY <1>7, <2>1, <2>2, <2>3 DEF CommandInv
<1> QED
  BY <1>3, <1>7, <1>9, <1>10 DEF OfflineInv, Idle

\* A running command's steps up to the rename.
LEMMA CommandMoves ==
    ASSUME OfflineInv, NEW c \in Cli, NEW label \in {"write", "rename", "ok"},
           cpc[c] \in Saving, CliGoto(c, label), CliTypes',
           UNCHANGED <<serverVars, ops, acked, cid, cdoc, ctk>>,
           file'.kind = "doc",
           FilesHeld(c)',
           \/ label # "ok" /\ file' = file
           \/ label = "ok" /\ file'.doc = cdoc[c]
    PROVE  OfflineInv'
<1>1. Alone(c) /\ FilesHeld(c) /\ ListHeld(c)
  BY DEF OfflineInv, CommandInv, Saving
<1>2. \A d \in Cli : cpc'[d] = IF d = c THEN label ELSE cpc[d]
  BY DEF CliGoto, OfflineInv, CliTypes, CliTypeOK
<1>3. Alone(c)'
  BY <1>1, <1>2 DEF Alone, serverVars, localVars
<1>4. ListHeld(c)'
  BY <1>1, <1>2 DEF ListHeld, Saving
<1>5. CommandInv'
  BY <1>1, <1>2, <1>3, <1>4 DEF CommandInv, Alone
<1>6. SaveInv' /\ FileLoads' /\ AckInv' /\ ReadInv'
  <2>1. \A k \in acked : Covers(ops, file'.doc, k)
    BY <1>1 DEF OfflineInv, AckInv, ListHeld
  <2> QED
    BY <1>1, <2>1, CommandKeeps DEF Alone, OfflineInv, AckInv
<1> QED
  BY <1>2, <1>5, <1>6 DEF OfflineInv, Idle

LEMMA SystemCallsOffline ==
    ASSUME OfflineInv, NEW c \in Cli,
           cliOpenTmp(c) \/ cliWriteTmp(c) \/ cliRenameTmp(c)
    PROVE  /\ OfflineInv'
           /\ \/ file' = file
              \/ cliRenameTmp(c) /\ file'.doc = cdoc[c]
<1>1. cpc[c] \in Saving
  BY DEF cliOpenTmp, cliWriteTmp, cliRenameTmp, Saving
<1>2. FilesHeld(c)
  BY <1>1 DEF OfflineInv, CommandInv, Saving
<1>3. CliTypes'
  BY CliStepTyped DEF OfflineInv, cliStep
<1>4. \A label \in {"write", "rename", "ok"} :
          CliGoto(c, label) => cpc'[c] = label
  BY DEF CliGoto, OfflineInv, CliTypes, CliTypeOK
<1>5. c \in Proc /\ fd \in [Proc -> DataFile!Place]
  BY DEF Proc, OfflineInv, CliTypes, TypeInv, TypeOK, DataFile!JsonTypeOK
<1>6. CASE cliOpenTmp(c)
  <2>1. FilesHeld(c)' /\ file' = file
    BY <1>2, <1>4, <1>5, <1>6
       DEF cliOpenTmp, DataFile!OpenTmp, FilesHeld, DataFile!Truncated
  <2> QED
    BY <1>1, <1>2, <1>3, <1>6, <2>1, CommandMoves DEF cliOpenTmp, FilesHeld
<1>7. CASE cliWriteTmp(c)
  <2>1. fd[c] = "tmp" /\ tmp = DataFile!Truncated
    BY <1>2, <1>7 DEF FilesHeld, cliWriteTmp
  <2>2. DataFile!Overlay(DataFile!Target(c), cdoc[c]) = {DataFile!Holding(cdoc[c])}
    BY <2>1 DEF DataFile!Overlay, DataFile!Target
  <2>3. DataFile!Land(c, DataFile!Holding(cdoc[c]))
    BY <1>7, <2>2 DEF cliWriteTmp, DataFile!WriteTmp
  <2>4. /\ tmp' = DataFile!Holding(cdoc[c])
        /\ file' = file
        /\ fd' = [fd EXCEPT ![c] = "none"]
    BY <2>1, <2>3 DEF DataFile!Land
  <2>5. FilesHeld(c)'
    BY <1>2, <1>4, <1>5, <1>7, <2>4
       DEF FilesHeld, cliWriteTmp, DataFile!Holding
  <2> QED
    BY <1>1, <1>2, <1>3, <1>7, <2>4, <2>5, CommandMoves
       DEF cliWriteTmp, FilesHeld
<1>8. CASE cliRenameTmp(c)
  <2>1. /\ file' = DataFile!Holding(cdoc[c])
        /\ \A p \in Proc : fd'[p] = "none"
    BY <1>2, <1>8 DEF cliRenameTmp, DataFile!RenameTmp, FilesHeld
  <2>2. FilesHeld(c)' /\ file'.doc = cdoc[c] /\ file'.kind = "doc"
    BY <1>4, <1>8, <2>1 DEF FilesHeld, cliRenameTmp, DataFile!Holding
  <2> QED
    BY <1>1, <1>3, <1>8, <2>2, CommandMoves DEF cliRenameTmp
<1> QED
  BY <1>6, <1>7, <1>8

\* The command ends with nodes.json as it stands and no file open.
LEMMA EndsOffline ==
    ASSUME OfflineInv, NEW c \in Cli, cpc[c] # "idle", CliGone(c), CliTypes',
           file' = file,
           \A p \in Proc : fd'[p] = "none",
           \/ acked' = acked
           \/ cpc[c] = "ok" /\ acked' = acked \cup {ctk[c]}
    PROVE  OfflineInv'
<1>1. Alone(c) /\ FilesHeld(c) /\ ListHeld(c)
  BY DEF OfflineInv, CommandInv
<1>2. \A d \in Cli : cpc'[d] = "idle"
  BY <1>1 DEF CliGone, CliGoto, OfflineInv, CliTypes, CliTypeOK, Alone
<1>3. UNCHANGED <<serverVars, ops>>
  BY DEF CliGone
<1>4. SaveInv' /\ FileLoads' /\ AckInv' /\ ReadInv'
  <2>1. /\ acked' \subseteq 1 .. Len(ops)
        /\ \A k \in acked' : Covers(ops, file.doc, k)
    BY <1>1 DEF OfflineInv, AckInv, ListHeld
  <2> QED
    BY <1>1, <1>3, <2>1, CommandKeeps DEF Alone, FilesHeld
<1>5. MutexInv'
  BY <1>1, <1>3, StoreAssumption
     DEF MutexInv, Alone, serverVars, localVars, Saving
<1>6. CommandInv'
  BY <1>2 DEF CommandInv
<1> QED
  BY <1>4, <1>5, <1>6 DEF OfflineInv

LEMMA FailureOffline ==
    ASSUME OfflineInv, NEW c \in Cli, cliExit(c) \/ cliFails(c)
    PROVE  OfflineInv' /\ file' = file
<1>1. cpc[c] # "idle" /\ CliGone(c)
  BY DEF cliExit, cliFails, Saving
<1>2. FilesHeld(c)
  BY <1>1 DEF OfflineInv, CommandInv
<1>3. CliTypes'
  BY CliStepTyped DEF OfflineInv, cliStep
<1>4. c \in Proc /\ fd \in [Proc -> DataFile!Place]
  BY DEF Proc, OfflineInv, CliTypes, TypeInv, TypeOK, DataFile!JsonTypeOK
<1>5. file' = file /\ \A p \in Proc : fd'[p] = "none"
  <2>1. CASE cliExit(c)
    BY <1>2, <2>1 DEF FilesHeld, cliExit, jsonVars
  <2>2. CASE DataFile!Quit({c})
    BY <1>2, <1>4, <2>2 DEF FilesHeld, DataFile!Quit
  <2>3. CASE cpc[c] = "write" /\ DataFile!WriteFails(c, cdoc[c])
    BY <1>2, <1>4, <2>3
       DEF FilesHeld, DataFile!WriteFails, DataFile!Land
  <2> QED
    BY <2>1, <2>2, <2>3 DEF cliFails
<1> QED
  BY <1>1, <1>3, <1>5, EndsOffline DEF cliExit, cliFails

LEMMA StepOffline ==
    ASSUME Offline, "read" \notin Faults
    PROVE  OfflineInv /\ [CliNext]_allVars => OfflineInv'
<1> SUFFICES ASSUME OfflineInv, [CliNext]_allVars PROVE OfflineInv'
  OBVIOUS
<1>1. CASE UNCHANGED allVars
  <2>1. CliTypes'
    BY <1>1, CliNextTyped DEF OfflineInv
  <2>2. (Idle => MutexInv)' /\ SaveInv' /\ FileLoads' /\ AckInv' /\ ReadInv'
    BY <1>1 DEF OfflineInv, allVars, vars, cvars, Idle, MutexInv, SaveInv,
       FileLoads, DataFile!Loads, AckInv, ReadInv, SubFresh, Covers, Saving,
       DataFile!Truncated, DataFile!Holding
  <2>3. CommandInv'
    BY <1>1 DEF OfflineInv, allVars, vars, cvars, CommandInv, Alone, FilesHeld,
       ListHeld, Covers, Without, DataFile!Truncated, DataFile!Holding
  <2> QED
    BY <2>1, <2>2, <2>3 DEF OfflineInv
<1>2. ASSUME NEW c \in Cli, cliStep(c)
      PROVE  OfflineInv'
  BY <1>2, DeleteOffline, SystemCallsOffline, FailureOffline DEF cliStep
<1> QED
  BY <1>1, <1>2, ServerOffline DEF CliNext

LEMMA OfflineAlways ==
    Offline /\ "read" \notin Faults => (CliSpec => []OfflineInv)
<1> SUFFICES ASSUME Offline, "read" \notin Faults PROVE CliSpec => []OfflineInv
  OBVIOUS
<1>1. OfflineInv /\ [CliNext]_allVars => OfflineInv'
  BY StepOffline
<1> QED
  BY <1>1, InitOffline, PTL DEF CliSpec

\* While the operator stops the service for `node delete` and runs one at a
\* time, no registration, removal or deletion that was acknowledged is ever
\* lost, whatever saves fail and wherever the server or a command is killed,
\* as long as a start can read nodes.json (runNodeDelete, saveNodes).
THEOREM OfflineNeverLoses ==
    Offline /\ "read" \notin Faults => (CliSpec => []AckedDurable)
<1>1. OfflineInv => AckedDurable
  BY DEF OfflineInv, AckInv, AckedDurable
<1> QED
  BY <1>1, OfflineAlways, PTL

\* Under the same discipline nodes.json stays missing or one complete document:
\* the two writers never share the temporary file (writeJSONAtomic).
THEOREM OfflineAlwaysLoads ==
    Offline /\ "read" \notin Faults => (CliSpec => []FileLoads)
<1>1. OfflineInv => FileLoads
  BY DEF OfflineInv
<1> QED
  BY <1>1, OfflineAlways, PTL

-----------------------------------------------------------------------------
(* The server and the commands implement the abstract registry.            *)

LEMMA CommandRefines ==
    ASSUME OfflineInv, NEW c \in Cli, cliStep(c), Offline
    PROVE  Step
<1>1. ~up /\ ~up'
  <2>1. UNCHANGED serverVars
    BY DEF cliStep, runNodeDelete, cliOpenTmp, cliWriteTmp, cliRenameTmp,
       cliExit, cliFails, CliGone
  <2>2. CASE cpc[c] # "idle"
    BY <2>1, <2>2 DEF OfflineInv, CommandInv, Alone, serverVars
  <2>3. CASE cpc[c] = "idle"
    <3>1. \E n \in NodeID : runNodeDelete(c, n)
      BY <2>3 DEF cliStep, cliOpenTmp, cliWriteTmp, cliRenameTmp, cliExit,
         cliFails, Saving
    <3> QED
      BY <2>1, <3>1 DEF runNodeDelete, serverVars
  <2> QED
    BY <2>2, <2>3
<1>2. ServedNow = file.doc /\ ServedNow' = file'.doc
  BY <1>1 DEF ServedNow
<1>3. CASE file' = file
  BY <1>2, <1>3, Stutters
<1>4. CASE cliRenameTmp(c) /\ file'.doc = cdoc[c]
  <2>1. cid[c] \in NodeID /\ cdoc[c] = Without(file.doc, cid[c])
    BY <1>4 DEF OfflineInv, CommandInv, ListHeld, cliRenameTmp, Saving
  <2>2. Registry!Commit(cid[c], Absent)
    BY <1>2, <1>4, <2>1 DEF Registry!Commit, Without
  <2> QED
    BY <2>1, <2>2 DEF Step, Registry!Next, Registry!Record
<1> QED
  BY <1>3, <1>4, SystemCallsOffline, FailureOffline
     DEF cliStep, runNodeDelete, jsonVars

LEMMA CliStepRefines ==
    ASSUME Offline, "read" \notin Faults
    PROVE  OfflineInv /\ [CliNext]_allVars => Step
<1> SUFFICES ASSUME OfflineInv, [CliNext]_allVars PROVE Step
  OBVIOUS
<1>1. CASE UNCHANGED allVars
  BY <1>1, Stutters DEF allVars, vars, ServedNow
<1>2. CASE serverStep
  BY <1>2, ServerWaits, ServerSteps, IdleDurable, StepRefines DEF Durable
<1> QED
  BY <1>1, <1>2, CommandRefines DEF CliNext

\* Under that discipline server and commands together are still the registry
\* of NodeRegistry: a deletion reaches disk in the one step of its rename.
THEOREM OfflineImplementsRegistry ==
    Offline /\ "read" \notin Faults => (CliSpec => ImplementsRegistry)
<1> SUFFICES ASSUME Offline, "read" \notin Faults
             PROVE  CliSpec => Registry!Spec
  BY DEF ImplementsRegistry
<1>1. OfflineInv /\ [CliNext]_allVars => [Registry!Next]_<<ServedNow, file.doc>>
  BY CliStepRefines DEF Step
<1>2. CliInit => Registry!Init
  BY InitRefines DEF CliInit
<1>3. CliSpec => []OfflineInv
  BY OfflineAlways
<1> QED
  BY <1>1, <1>2, <1>3, PTL DEF CliSpec, Registry!Spec, Registry!rvars
=============================================================================
