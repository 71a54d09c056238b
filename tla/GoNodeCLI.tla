----------------------------- MODULE GoNodeCLI ------------------------------
(***************************************************************************)
(* The server of GoNodeStore together with `vpn-registry node delete`,     *)
(* which edits the same nodes.json from processes of its own: it loads the *)
(* file, filters the node out and saves the rest, without the server's     *)
(* mutex and with the same temporary file.  `node list` and `node show`    *)
(* only read.                                                              *)
(*                                                                         *)
(* Offline is how the operator works: TRUE when the service is stopped     *)
(* while a command runs and only one command runs at a time.               *)
(***************************************************************************)
EXTENDS GoNodeStore

CONSTANT Offline

ASSUME OfflineAssumption == Offline \in BOOLEAN

VARIABLES
    cpc,      \* cpc[c]: where command c is
    cid,      \* cid[c]: its -id argument
    cdoc,     \* cdoc[c]: the list it will save
    ctk       \* ctk[c]: the ticket of its change

cvars == <<cpc, cid, cdoc, ctk>>
serverVars == <<up, mu, store, localVars, before>>
allVars == <<vars, cvars>>

CliTypeOK ==
    /\ TypeOK
    /\ cpc \in [Cli -> {"idle", "ok"} \cup Saving]
    /\ cid \in [Cli -> NodeID \cup {Absent}]
    /\ cdoc \in [Cli -> Store]
    /\ ctk \in [Cli -> Nat]

CliInit ==
    /\ Init
    /\ cpc = [c \in Cli |-> "idle"]
    /\ cid = [c \in Cli |-> Absent]
    /\ cdoc = [c \in Cli |-> Empty]
    /\ ctk = [c \in Cli |-> 0]

CliGoto(c, label) == cpc' = [cpc EXCEPT ![c] = label]

\* A plausible bug: the command saves nodes[:0] instead of what it appended.
KeepNone(d, n) == Empty

\* The loop that copies every node but the one to delete.
Without(d, n) == [d EXCEPT ![n] = Absent]

\* runNodeDelete up to saveNodes.  A file that does not parse and an id that
\* is not in it end the command with an error and change nothing.
runNodeDelete(c, n) ==
    /\ cpc[c] = "idle"
    /\ Offline => ~up /\ \A d \in Cli : cpc[d] = "idle"
    /\ Room
    /\ file.kind = "doc"
    /\ file.doc[n] # Absent
    /\ cid' = [cid EXCEPT ![c] = n]
    /\ cdoc' = [cdoc EXCEPT ![c] = Without(file.doc, n)]
    /\ ops' = Append(ops, [id |-> n, out |-> Absent])
    /\ ctk' = [ctk EXCEPT ![c] = Len(ops) + 1]
    /\ CliGoto(c, "open")
    /\ UNCHANGED <<jsonVars, serverVars, acked>>

cliOpenTmp(c) ==
    /\ cpc[c] = "open"
    /\ DataFile!OpenTmp(c)
    /\ CliGoto(c, "write")
    /\ UNCHANGED <<serverVars, ops, acked, cid, cdoc, ctk>>

cliWriteTmp(c) ==
    /\ cpc[c] = "write"
    /\ DataFile!WriteTmp(c, cdoc[c])
    /\ CliGoto(c, "rename")
    /\ UNCHANGED <<serverVars, ops, acked, cid, cdoc, ctk>>

cliRenameTmp(c) ==
    /\ cpc[c] = "rename"
    /\ DataFile!RenameTmp
    /\ CliGoto(c, "ok")
    /\ UNCHANGED <<serverVars, ops, acked, cid, cdoc, ctk>>

\* The process is gone.
CliGone(c) ==
    /\ CliGoto(c, "idle")
    /\ cid' = [cid EXCEPT ![c] = Absent]
    /\ cdoc' = [cdoc EXCEPT ![c] = Empty]
    /\ ctk' = [ctk EXCEPT ![c] = 0]
    /\ UNCHANGED <<serverVars, ops>>

\* Exit status 0: the operator knows the node is deleted.
cliExit(c) ==
    /\ cpc[c] = "ok"
    /\ acked' = acked \cup {ctk[c]}
    /\ CliGone(c)
    /\ UNCHANGED jsonVars

\* saveNodes returns an error, or the process is killed.
cliFails(c) ==
    /\ cpc[c] \in Saving
    /\ \/ DataFile!Quit({c})
       \/ /\ cpc[c] = "write"
          /\ "save" \in Faults
          /\ DataFile!WriteFails(c, cdoc[c])
    /\ CliGone(c)
    /\ UNCHANGED acked

cliStep(c) ==
    \/ \E n \in NodeID : runNodeDelete(c, n)
    \/ cliOpenTmp(c)
    \/ cliWriteTmp(c)
    \/ cliRenameTmp(c)
    \/ cliExit(c)
    \/ cliFails(c)

\* The operator starts the service again when the command has ended.
ServiceMayStart == Offline => \A c \in Cli : cpc[c] = "idle"

serverStep ==
    /\ \/ \E x \in Handler : request(x) \/ lock(x) \/ proceed(x)
       \/ Crash
       \/ Start /\ ServiceMayStart
    /\ UNCHANGED cvars

CliNext == serverStep \/ \E c \in Cli : cliStep(c)

CliSpec == CliInit /\ [][CliNext]_allVars

\* When no writer is under way and nodes.json is a complete document, it
\* holds the outcome of every change that was acknowledged, by a 200 of the
\* server or by exit status 0 of `node delete`.
NoLostUpdate ==
    /\ \A c \in Cli : cpc[c] = "idle"
    /\ \A x \in Handler : pc[x] \notin Saving
    /\ file.kind = "doc"
    => AckedDurable
=============================================================================
