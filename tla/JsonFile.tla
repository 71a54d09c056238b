------------------------------ MODULE JsonFile ------------------------------
(***************************************************************************)
(* One JSON file of the Go registry (nodes.json or config.json) and the    *)
(* system calls writeJSONAtomic (config.go:68-82) makes on it: open        *)
(* path.tmp with O_TRUNC, write the document into it, rename it over path. *)
(*                                                                         *)
(* Every writer of the file uses the same name path.tmp, and different     *)
(* processes (the server and the command line) take no lock on it, so the  *)
(* calls of two writers interleave.  An open descriptor follows its inode: *)
(* after another writer's rename it is linked at path itself, and after    *)
(* one more rename it is linked nowhere.                                   *)
(***************************************************************************)
CONSTANTS
    Proc,      \* everyone who may be inside writeJSONAtomic
    Doc,       \* the documents the file can hold
    Blank      \* the document of a program that found no usable file

VARIABLES
    file,      \* what is linked at path
    tmp,       \* what is linked at path + ".tmp"
    fd         \* fd[p]: where the file p has open is linked now

jvars == <<file, tmp, fd>>

\* An inode, as loadNodes and loadConfig tell them apart: absent
\* (os.ErrNotExist), not a JSON document (json.Unmarshal fails), a document.
Missing == [kind |-> "missing", doc |-> Blank]
Truncated == [kind |-> "empty", doc |-> Blank]
Torn == [kind |-> "torn", doc |-> Blank]
Holding(d) == [kind |-> "doc", doc |-> d]

IsContent(c) ==
    /\ c \in [kind : {"missing", "empty", "torn", "doc"}, doc : Doc]
    /\ c.kind # "doc" => c.doc = Blank

Place == {"none", "tmp", "file", "gone"}

JsonTypeOK ==
    /\ IsContent(file)
    /\ IsContent(tmp)
    /\ fd \in [Proc -> Place]

\* json.Unmarshal accepts it, or os.ReadFile reports os.ErrNotExist.
Loads(c) == c.kind \in {"missing", "doc"}

\* A plausible bug: write to path instead of path + ".tmp".
OpenInPlace(p) ==
    /\ fd[p] = "none"
    /\ file' = Truncated
    /\ fd' = [fd EXCEPT ![p] = "file"]
    /\ UNCHANGED tmp

\* A plausible bug: O_EXCL, which a left-over path.tmp makes fail.
OpenTmpExclusive(p) ==
    /\ fd[p] = "none"
    /\ tmp = Missing
    /\ tmp' = Truncated
    /\ fd' = [fd EXCEPT ![p] = "tmp"]
    /\ UNCHANGED file

\* os.WriteFile opens path.tmp with O_CREATE|O_TRUNC.
OpenTmp(p) ==
    /\ fd[p] = "none"
    /\ tmp' = Truncated
    /\ fd' = [fd EXCEPT ![p] = "tmp"]
    /\ UNCHANGED file

\* What p's descriptor refers to; an unlinked inode is nobody's concern.
Target(p) ==
    IF fd[p] = "tmp" THEN tmp
    ELSE IF fd[p] = "file" THEN file ELSE Truncated

\* p's write leaves c in the inode it has open, and p closes it.
Land(p, c) ==
    /\ tmp' = IF fd[p] = "tmp" THEN c ELSE tmp
    /\ file' = IF fd[p] = "file" THEN c ELSE file
    /\ fd' = [fd EXCEPT ![p] = "none"]

\* Writing d at offset 0 over c: the longer old text keeps its tail, which
\* json.Unmarshal rejects as data after the top-level value.
Overlay(c, d) ==
    {Holding(d)} \cup (IF c \in {Truncated, Holding(d)} THEN {} ELSE {Torn})

WriteTmp(p, d) ==
    /\ fd[p] # "none"
    /\ \E c \in Overlay(Target(p), d) : Land(p, c)

\* The write fails (disk full, I/O error at close): nothing, a part or all
\* of the text is there, and writeJSONAtomic returns before the rename.
WriteFails(p, d) ==
    /\ fd[p] # "none"
    /\ \E c \in {Target(p), Torn, Holding(d)} : Land(p, c)

\* os.Rename moves whatever inode is linked at path.tmp.
RenameTmp ==
    /\ tmp # Missing
    /\ file' = tmp
    /\ tmp' = Missing
    /\ fd' = [p \in Proc |-> IF fd[p] = "tmp" THEN "file"
                             ELSE IF fd[p] = "file" THEN "gone" ELSE fd[p]]

\* The processes P are killed: their descriptors close, a write that was
\* under way has put nothing or a part of its text into the inode.
Quit(P) ==
    /\ fd' = [p \in Proc |-> IF p \in P THEN "none" ELSE fd[p]]
    /\ \/ UNCHANGED <<file, tmp>>
       \/ \E p \in P :
            /\ fd[p] # "none"
            /\ tmp' = IF fd[p] = "tmp" THEN Torn ELSE tmp
            /\ file' = IF fd[p] = "file" THEN Torn ELSE file
=============================================================================
