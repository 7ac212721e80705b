---------------------------- MODULE MC_XarExtract ----------------------------
(***************************************************************************)
(* Entries for checking XarExtract: a 4-byte file, an empty file, a size  *)
(* with no digits, a "file" without data, a directory and an entry with  *)
(* no properties; three calls, so that a buffer outlives a call.          *)
(***************************************************************************)
EXTENDS XarExtract

MCEntries ==
    {[size |-> "4", type |-> "file"], [size |-> "0", type |-> "file"],
     [size |-> "junk", type |-> "file"], [size |-> "none", type |-> "file"],
     [size |-> "none", type |-> "directory"], [size |-> "none", type |-> "none"]}

MCMaxCalls == 3

MCFreeStyles == {"onSuccess", "always"}

\* the client the header comment describes: it frees only what a 0
\* return hands it
HeaderClientStyles == {"onSuccess"}

=============================================================================
