------------------------------ MODULE XarExtract ------------------------------
(***************************************************************************)
(* xar_extract_tobuffersz (xar-additions.c) and a client of it.           *)
(*                                                                         *)
(* The function reads the entry's data/size property; without one it     *)
(* reads its type and succeeds, allocating nothing, for a plain "file".  *)
(* Otherwise it parses the size with strtoull, mallocs that many bytes    *)
(* and extracts into them, freeing the buffer when extraction fails.      *)
(*                                                                         *)
(* The client is what the header comment asks of a caller: it passes the  *)
(* addresses of its own buffer and size, and frees the buffer when the   *)
(* call returns 0.  A client may also free the buffer whatever the call  *)
(* returned (cleanup code that relies on free(NULL)); FreeStyles are the *)
(* styles clients follow.  ResetBuffer says whether a client sets buffer *)
(* to NULL before each call.                                              *)
(*                                                                         *)
(* xar_prop_get's answers are the entry's; malloc and xar_arcmod_extract *)
(* may fail on any call.                                                  *)
(***************************************************************************)
EXTENDS Integers, TLC

CONSTANTS
    Entries,      \* archive entries: [size, type], "none" for an absent property
    ResetBuffer,  \* the client sets buffer = NULL before each call
    FreeStyles,   \* "onSuccess": free after a 0 return; "always": after any
    MaxCalls      \* bound on the calls the client makes

\* a block is named by the call whose malloc returned it
Blocks == 1..MaxCalls
NULL   == 0
\* the value of the client's buffer before it is first assigned
Uninit == MaxCalls + 1

VARIABLES
    pc,           \* "idle", or where the current call is
    entry,        \* the entry of the current call
    buffer,       \* the client's char *buffer
    size,         \* the client's size_t size
    ret,          \* the value the current call returns
    heap,         \* heap[b]: "none", "live" or "freed"
    invalidFree,  \* the client has freed a pointer that was not a live block
    calls

vars == << pc, entry, buffer, size, ret, heap, invalidFree, calls >>

Init ==
    /\ pc = "idle"
    /\ entry = [size |-> "none", type |-> "none"]
    /\ buffer = Uninit
    /\ size = 0
    /\ ret = 0
    /\ heap = [b \in Blocks |-> "none"]
    /\ invalidFree = FALSE
    /\ calls = 0

\* the decimal size texts of the entries and their values
Digits == ("0" :> 0) @@ ("4" :> 4)

\* strtoull(sizestring, NULL, 10): the number, or 0 for text with no digits
strtoull(s) == IF s \in DOMAIN Digits THEN Digits[s] ELSE 0

\* the client calls xar_extract_tobuffersz(x, f, &buffer, &size)
Call ==
    /\ pc = "idle"
    /\ calls < MaxCalls
    /\ \E e \in Entries : entry' = e
    /\ buffer' = IF ResetBuffer THEN NULL ELSE buffer
    /\ calls' = calls + 1
    /\ pc' = "getSize"
    /\ UNCHANGED << size, ret, heap, invalidFree >>

\* line 19: xar_prop_get(f, "data/size", ...) fails without the property
GetDataSize ==
    /\ pc = "getSize"
    /\ pc' = IF entry.size = "none" THEN "getType" ELSE "alloc"
    /\ UNCHANGED << entry, buffer, size, ret, heap, invalidFree, calls >>

\* lines 20-26: no type is a failure, a "file" succeeds with size 0 and
\* buffer untouched, any other type fails
GetType ==
    /\ pc = "getType"
    /\ ret' = IF entry.type = "file" THEN 0 ELSE -1
    /\ size' = IF entry.type = "file" THEN 0 ELSE size
    /\ pc' = "returned"
    /\ UNCHANGED << entry, buffer, heap, invalidFree, calls >>

\* lines 29-34: *size = strtoull(...); *buffer = malloc(*size); a NULL
\* buffer returns -1 with *size left as parsed
Allocate ==
    /\ pc = "alloc"
    /\ size' = strtoull(entry.size)
    /\ \E ok \in BOOLEAN :
          /\ buffer' = IF ok THEN calls ELSE NULL
          /\ heap' = IF ok THEN [heap EXCEPT ![calls] = "live"] ELSE heap
          /\ ret' = IF ok THEN ret ELSE -1
          /\ pc' = IF ok THEN "extract" ELSE "returned"
    /\ UNCHANGED << entry, invalidFree, calls >>

\* mutant: the failure branch without free(*buffer)
ExtractWithoutFree ==
    /\ pc = "extract"
    /\ \E ok \in BOOLEAN :
          /\ ret' = IF ok THEN 0 ELSE -1
          /\ size' = IF ok THEN size ELSE 0
          /\ buffer' = IF ok THEN buffer ELSE NULL
    /\ pc' = "returned"
    /\ UNCHANGED << entry, heap, invalidFree, calls >>

\* mutant: the failure branch without *buffer = NULL
ExtractWithoutNullReset ==
    /\ pc = "extract"
    /\ \E ok \in BOOLEAN :
          /\ ret' = IF ok THEN 0 ELSE -1
          /\ size' = IF ok THEN size ELSE 0
          /\ heap' = IF ok THEN heap ELSE [heap EXCEPT ![buffer] = "freed"]
    /\ pc' = "returned"
    /\ UNCHANGED << entry, buffer, invalidFree, calls >>

\* lines 36-43: xar_arcmod_extract into the buffer; on failure *size = 0,
\* free(*buffer), *buffer = NULL; return its result
Extract ==
    /\ pc = "extract"
    /\ \E ok \in BOOLEAN :
          /\ ret' = IF ok THEN 0 ELSE -1
          /\ size' = IF ok THEN size ELSE 0
          /\ heap' = IF ok THEN heap ELSE [heap EXCEPT ![buffer] = "freed"]
          /\ buffer' = IF ok THEN buffer ELSE NULL
    /\ pc' = "returned"
    /\ UNCHANGED << entry, invalidFree, calls >>

\* free(p): NULL is a no-op, a live block is released, anything else is
\* an invalid free
Free(p) ==
    IF p = NULL THEN UNCHANGED << heap, invalidFree >>
    ELSE IF p \in Blocks /\ heap[p] = "live"
         THEN heap' = [heap EXCEPT ![p] = "freed"] /\ UNCHANGED invalidFree
         ELSE invalidFree' = TRUE /\ UNCHANGED heap

\* the client after the call: it frees the buffer on success, and in the
\* "always" style on failure too
ClientReturn ==
    /\ pc = "returned"
    /\ \E style \in FreeStyles :
          IF ret = 0 \/ style = "always" THEN Free(buffer) ELSE UNCHANGED << heap, invalidFree >>
    /\ pc' = "idle"
    /\ UNCHANGED << entry, buffer, size, ret, calls >>

Done ==
    /\ pc = "idle"
    /\ calls = MaxCalls
    /\ UNCHANGED vars

Next ==
    \/ Call \/ GetDataSize \/ GetType \/ Allocate \/ Extract \/ ClientReturn
    \/ Done

Spec == Init /\ [][Next]_vars

(***************************************************************************)
(* No leak: once the client has handled a call's result, no block is     *)
(* live: the buffer of a failed extraction is freed by the function       *)
(* (line 39), that of a success by the client.                            *)
(***************************************************************************)
NoLeak == pc = "idle" => \A b \in Blocks : heap[b] # "live"

(***************************************************************************)
(* No invalid free: the client never frees a block twice, or a pointer   *)
(* no malloc returned, whichever of the two styles it follows: after a    *)
(* failure the function has left buffer NULL (line 40) or untouched.     *)
(***************************************************************************)
NoInvalidFree == ~invalidFree

=============================================================================
