----------------------------- MODULE TapiInlined -----------------------------
(***************************************************************************)
(* The ownership of the ImplData list behind the files create and         *)
(* getInlinedFramework return (LinkerInterfaceFile.cpp).                  *)
(*                                                                         *)
(* loadFile links one ImplData node per document: node k's next is k + 1. *)
(* create wraps the head in a std::shared_ptr held by the file's Impl     *)
(* (_data); getInlinedFramework walks the list from its own node's next   *)
(* and wraps a matching node in a new std::shared_ptr of its own.  Each   *)
(* file is the only holder of its shared_ptr, so deleting a file deletes *)
(* its node (ImplData's destructor does not follow next).                 *)
(*                                                                         *)
(* The client is any program using the API: it asks any returned file    *)
(* for an inlined framework by any name, with a supported cpu type or     *)
(* not, and deletes returned files in any order.  A file whose init       *)
(* fails inside getInlinedFramework is neither returned nor deleted.     *)
(***************************************************************************)
EXTENDS Naturals, Sequences, FiniteSets

CONSTANTS
    N,              \* number of documents, nodes 1..N
    installNameOf,  \* the _installName loadFile stored in each node
    Names,          \* the names a client asks for
    MaxFiles        \* bound on the LinkerInterfaceFile objects made

Nodes == 1..N

VARIABLES
    files,   \* every LinkerInterfaceFile made: [node, returned, live]
    frees,   \* frees[n]: how often node n has been deleted
    touched  \* the nodes the last step read or deleted

vars == << files, frees, touched >>

NewFile(n, returned) == [node |-> n, returned |-> returned, live |-> TRUE]

\* the nodes deleted so far
Freed == {n \in Nodes : frees[n] > 0}

\* create: one file whose _data owns the head
Init ==
    /\ files = << NewFile(1, TRUE) >>
    /\ frees = [n \in Nodes |-> 0]
    /\ touched = {}

\* the files the client holds
Held == {f \in DOMAIN files : files[f].returned /\ files[f].live}

(***************************************************************************)
(* getInlinedFramework(installName, cpuType, ...) on file f: the nodes    *)
(* after f's node are visited in order; for each one whose _installName   *)
(* equals the name a file is made and init run on a new shared_ptr to the *)
(* node.  init sets _data before it checks the cpu type, so a failing     *)
(* init leaves a file that owns the node and is never deleted, and the    *)
(* walk goes on.  The first file whose init succeeds is returned.         *)
(***************************************************************************)
getInlinedFramework(f, name, supported) ==
    LET from    == files[f].node
        matches == {it \in from + 1 .. N : installNameOf[it] = name}
        first   == CHOOSE it \in matches : \A j \in matches : it =< j
        made    == IF ~supported THEN matches
                   ELSE IF matches = {} THEN {} ELSE {first}
        last    == IF supported /\ matches # {} THEN first ELSE N
        walk    == [i \in 1..(N - from) |-> from + i]
        order   == SelectSeq(walk, LAMBDA it : it \in made)
    IN  /\ Len(files) + Cardinality(made) =< MaxFiles
        /\ files' = files \o [i \in DOMAIN order |-> NewFile(order[i], supported)]
        /\ touched' = {from} \cup (from + 1 .. last)
        /\ UNCHANGED frees

GetInlinedFramework ==
    \E f \in Held, name \in Names, supported \in BOOLEAN :
        getInlinedFramework(f, name, supported)

\* delete file: ~Impl releases _data, the last owner, which deletes the node
DeleteFile ==
    \E f \in Held :
        /\ files' = [files EXCEPT ![f].live = FALSE]
        /\ frees' = [frees EXCEPT ![files[f].node] = @ + 1]
        /\ touched' = {files[f].node}

Done ==
    /\ Held = {}
    /\ UNCHANGED vars

Next == GetInlinedFramework \/ DeleteFile \/ Done

Spec == Init /\ [][Next]_vars

(***************************************************************************)
(* No use after free: no call reads, and no delete frees, a node that has *)
(* already been deleted.  getInlinedFramework reads the node of the file  *)
(* it is called on (its next) and every node it walks; deleting a file    *)
(* deletes its node.                                                      *)
(***************************************************************************)
NoUseAfterFree == [][touched' \cap Freed = {}]_vars

=============================================================================
