------------------------- MODULE BranchIslandParams -------------------------
(***************************************************************************)
(* Architecture tables, fixup-kind classification and the island factory  *)
(* of the branch-island pass (src/ld64/src/ld/passes/branch_island.cpp).  *)
(*                                                                         *)
(* Everything here is a pure operator of an options record               *)
(*   o = [arch, thumb2, slidable, kind, allow]                             *)
(* where o.thumb2 stands for the conjunction                               *)
(*   opts.preferSubArchitecture() && opts.archSupportsThumb2()             *)
(* which is the only form in which the code ever consults the two.        *)
(*                                                                         *)
(* Fixup kinds are abstracted to their branch family: the code always     *)
(* treats kindStoreXBranch and kindStoreTargetAddressXBranch alike.       *)
(***************************************************************************)
EXTENDS Integers

Archs       == {"ppc", "arm", "arm64", "i386"}      \* ppc covers PPC and PPC64
OutputKinds == {"object", "executable", "dylib", "preload"}

(* Fixup kinds.  "followOn" is kindNoneFollowOn, "pointer" any other.     *)
BranchFamilies == {"ppc24", "arm24", "thumb22", "arm64b26"}
FixupKinds     == BranchFamilies \cup {"followOn", "pointer"}

(* The kinds makeIslandsForSection treats as branches (its haveBranch     *)
(* switch).                                                                *)
IsIslandBranchKind(k) == k \in BranchFamilies

(* The kinds mightNeedBranchIslands treats as branches: its switch has no *)
(* case for the ARM64 branch kinds.                                        *)
IsScanBranchKind(k) == k \in {"ppc24", "arm24", "thumb22"}

IsThumbBranchKind(k) == k = "thumb22"

(* doPass: only PPC, ARM and ARM64 output may need islands.               *)
ArchNeedsIslands(o) == o.arch \in {"ppc", "arm", "arm64"}

(***************************************************************************)
(* textSizeWhenMightNeedBranchIslands: the size beyond which a section    *)
(* (or the code span) is considered for islands.                          *)
(***************************************************************************)
textSizeWhenMightNeedBranchIslands(o, seenThumbBranch) ==
    CASE o.arch = "ppc"   -> 32000000
      [] o.arch = "arm"   -> IF ~seenThumbBranch THEN 32000000
                             ELSE IF o.thumb2 THEN 16000000
                             ELSE 4000000
      [] o.arch = "arm64" -> 128000000

(***************************************************************************)
(* maxDistanceBetweenIslands: the inter-region budget, also used by the   *)
(* resolver as the branch limit.                                          *)
(***************************************************************************)
maxDistanceBetweenIslands(o, seenThumbBranch) ==
    CASE o.arch = "ppc"   -> 30 * 1048576
      [] o.arch = "arm"   -> IF ~seenThumbBranch THEN 30 * 1048576
                             ELSE IF o.thumb2 THEN 14 * 1048576
                             ELSE 3500000
      [] o.arch = "arm64" -> 124 * 1048576

(***************************************************************************)
(* The island atom classes and their shapes (size, alignment power, thumb *)
(* flag), from the seven ld::Atom subclasses.                              *)
(***************************************************************************)
IslandClasses == {"ppc", "arm64", "arm2arm", "thumb2", "thumb2abs",
                  "arm2thumb1pic", "arm2thumb1nopic"}

IslandSize(c) ==
    CASE c \in {"ppc", "arm64", "arm2arm", "thumb2"} -> 4
      [] c = "thumb2abs"       -> 10
      [] c = "arm2thumb1pic"   -> 16
      [] c = "arm2thumb1nopic" -> 8

IslandAlignPow(c) == IF c \in {"thumb2", "thumb2abs"} THEN 1 ELSE 2

IslandIsThumb(c) == c \in {"thumb2", "thumb2abs"}

(***************************************************************************)
(* makeBranchIsland: which island class the factory manufactures for a   *)
(* branch of kind k whose final target is (or is not) thumb code.        *)
(***************************************************************************)
makeBranchIsland(o, k, crossSectionBranch, finalIsThumb) ==
    CASE k = "ppc24"              -> "ppc"
      [] k = "arm64b26"           -> "arm64"
      [] k \in {"arm24", "thumb22"} ->
            IF crossSectionBranch /\ o.thumb2 THEN "thumb2abs"
            ELSE IF finalIsThumb
                 THEN IF o.thumb2 THEN "thumb2"
                      ELSE IF o.slidable THEN "arm2thumb1pic"
                      ELSE "arm2thumb1nopic"
            ELSE "arm2arm"

(***************************************************************************)
(* Where an island transfers control, as its fixups (or, for the two      *)
(* thumb-1 islands, its copyRawContent) encode it: a record               *)
(*   [rel |-> TRUE,  kind, target, addend]  a relative branch fixup       *)
(*   [rel |-> FALSE, target, addend]        an absolute jump              *)
(* next is the next hop, final = <<atom, addend>> the final target.       *)
(***************************************************************************)
IslandJump(c, next, final) ==
    CASE c = "ppc" ->
            \* the three-fixup cluster when this is the last hop and the
            \* final target has an addend, else StoreTargetAddressPPCBranch24
            [rel |-> TRUE, kind |-> "ppc24", target |-> next,
             addend |-> IF next = final[1] /\ final[2] # 0
                        THEN final[2] ELSE 0]
      [] c = "arm64"   -> [rel |-> TRUE, kind |-> "arm64b26",
                           target |-> next, addend |-> 0]
      [] c = "arm2arm" -> [rel |-> TRUE, kind |-> "arm24",
                           target |-> next, addend |-> 0]
      [] c = "thumb2"  -> [rel |-> TRUE, kind |-> "thumb22",
                           target |-> next, addend |-> 0]
      \* movw/movt of SetTargetAddress(final), no AddAddend
      [] c = "thumb2abs" -> [rel |-> FALSE, target |-> final[1], addend |-> 0]
      \* .long final + offset - (this + 12)
      [] c = "arm2thumb1pic" ->
            [rel |-> FALSE, target |-> final[1], addend |-> final[2]]
      \* .long final->finalAddress(), the offset is not added
      [] c = "arm2thumb1nopic" ->
            [rel |-> FALSE, target |-> final[1], addend |-> 0]

=============================================================================
