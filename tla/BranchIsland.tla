---------------------------- MODULE BranchIsland ----------------------------
(***************************************************************************)
(* The branch-island pass of ld64 (src/ld64/src/ld/passes/branch_island.cpp,*)
(* doPass and the functions it calls), as a sequential state machine.     *)
(*                                                                         *)
(* The pass runs to completion in one thread; its nondeterminism is its   *)
(* input: the options and the program (sections, atoms, fixups) it is     *)
(* given.  pc follows doPass:                                              *)
(*   "start"   -> "scan"    mightNeedBranchIslands, one section per step   *)
(*             -> "plan"    findIslandInsertionPoints, one atom per step   *)
(*             -> "resolve" makeIslandsForSection, one branch per step     *)
(*             -> "splice"  the insertion loop, one region section per step*)
(*             -> "done" | "fatal" (throwf)                                *)
(*                                                                         *)
(* A fixup cluster is one record                                           *)
(*   [kind, binding, target, index, addend, hasAddend, offset]             *)
(* standing for the ld::Fixup records from first- to last-in-cluster: the *)
(* bound target (binding "direct"/"byContent": target; "indirect": the    *)
(* entry index of the indirect binding table; "none": no target), the     *)
(* AddAddend fixup if hasAddend, and the store fixup of kind kind at      *)
(* offsetInAtom offset.                                                    *)
(***************************************************************************)
EXTENDS Integers, Sequences, SequencesExt, TLC, BranchIslandParams, AddressMap

CONSTANTS
    Inputs,     \* the [opts, prog] pairs the pass may be run on: a program
                \* is linked for the architecture of its options
    MaxAddr     \* stands for 0xFFFFFFFFFFFFFFFF, lowestTextAddr's start

NoAtom   == 0                        \* NULL
NoIsland == [class |-> "none"]

VARIABLES
    opts,                   \* the Options in force
    prog,                   \* the program the pass started from (history)
    pc,
    sects,                  \* state.sections with the FinalSection fields
    atoms,                  \* every atom, including manufactured islands
    sectionOffset,          \* atom->sectionOffset() after layout
    seenCrossSectBr, seenThumbBr, lowestTextAddr, furthestStubSect,
    furthestCodeOrStubSect, anySectNeedsIslands, kBetweenRegions,
    sAtomToAddress,         \* buildAddressMap's side table
    cursor,                 \* section index (scan, plan), region (splice)
    atomIdx,                \* atom index in the planned section, 0 between
    previousIslandEndAddr, insertionPoint,
    branchIslandInsertionPoints, branchIslandInsertionSections,
    regionsMap,             \* per region: (target, addend) -> island
    regionAddresses, regionsIslands,
    work,                   \* branch clusters makeIslandsForSection has left
    islandCount, atomToSection

vars == << opts, prog, pc, sects, atoms, sectionOffset, seenCrossSectBr,
           seenThumbBr, lowestTextAddr, furthestStubSect,
           furthestCodeOrStubSect, anySectNeedsIslands, kBetweenRegions,
           sAtomToAddress, cursor, atomIdx, previousIslandEndAddr,
           insertionPoint, branchIslandInsertionPoints,
           branchIslandInsertionSections, regionsMap, regionAddresses,
           regionsIslands, work, islandCount, atomToSection >>

-----------------------------------------------------------------------------
(* Helpers over the program representation.                               *)

\* the atom a cluster is bound to (the target the code's switch on binding finds)
Target(c) ==
    CASE c.binding \in {"direct", "byContent"} -> c.target
      [] c.binding = "indirect"               -> prog.indirect[c.index]
      [] c.binding = "none"                   -> NoAtom

Addend(c) == IF c.hasAddend THEN c.addend ELSE 0

SectionOf(a) == atoms[a].sect                      \* atom->section()

AtomEnd(a) == sectionOffset[a] + atoms[a].size     \* section-relative

FollowOn(a) ==                            \* hasFixupsOfKind(kindNoneFollowOn)
    \E j \in DOMAIN atoms[a].fixups : atoms[a].fixups[j].kind = "followOn"

LayoutInfo == [a \in DOMAIN atoms |->
                 [size |-> atoms[a].size, pow |-> atoms[a].pow,
                  mod |-> atoms[a].mod]]

\* islands are numbered after the program's atoms
LastProgramAtom == CHOOSE m \in DOMAIN prog.atoms :
                     \A a \in DOMAIN prog.atoms : a =< m

-----------------------------------------------------------------------------
Init ==
    /\ \E in \in Inputs : opts = in.opts /\ prog = in.prog
    /\ pc = "start"
    /\ sects = [i \in DOMAIN prog.sects |->
                  prog.sects[i]
                  @@ [hasBranches |-> FALSE, hasThumbBranches |-> FALSE,
                      hasCrossSectionBranches |-> FALSE,
                      needsIslands |-> FALSE, address |-> 0, size |-> 0]]
    /\ atoms = [a \in DOMAIN prog.atoms |->
                  prog.atoms[a] @@ [sect |-> CHOOSE i \in DOMAIN prog.sects :
                                       \E j \in DOMAIN prog.sects[i].atoms :
                                           prog.sects[i].atoms[j] = a,
                                    island |-> NoIsland]]
    /\ sectionOffset = [a \in DOMAIN prog.atoms |-> 0]
    /\ seenCrossSectBr = FALSE /\ seenThumbBr = FALSE
    /\ lowestTextAddr = 0 /\ furthestStubSect = 0
    /\ furthestCodeOrStubSect = 0 /\ anySectNeedsIslands = FALSE
    /\ kBetweenRegions = 0
    /\ sAtomToAddress = [a \in {} |-> 0]
    /\ cursor = 0 /\ atomIdx = 0
    /\ previousIslandEndAddr = 0 /\ insertionPoint = NoAtom
    /\ branchIslandInsertionPoints = << >>
    /\ branchIslandInsertionSections = << >>
    /\ regionsMap = << >> /\ regionAddresses = << >> /\ regionsIslands = << >>
    /\ work = << >> /\ islandCount = 0
    /\ atomToSection = [a \in {} |-> 0]

-----------------------------------------------------------------------------
(***************************************************************************)
(* doPass: the gate.  Object files, -no_branch_islands and architectures  *)
(* other than PPC, ARM and ARM64 return at once.                          *)
(***************************************************************************)
SkipPass ==
    /\ pc = "start"
    /\ \/ opts.kind = "object"
       \/ ~opts.allow
       \/ ~ArchNeedsIslands(opts)
    /\ pc' = "done"
    /\ UNCHANGED << opts, prog, sects, atoms, sectionOffset, seenCrossSectBr,
                    seenThumbBr, lowestTextAddr, furthestStubSect,
                    furthestCodeOrStubSect, anySectNeedsIslands,
                    kBetweenRegions, sAtomToAddress, cursor, atomIdx,
                    previousIslandEndAddr, insertionPoint,
                    branchIslandInsertionPoints,
                    branchIslandInsertionSections, regionsMap,
                    regionAddresses, regionsIslands, work, islandCount,
                    atomToSection >>

(***************************************************************************)
(* doPass resets the scan globals and calls mightNeedBranchIslands, which *)
(* resets its own and has the layout collaborator assign section sizes,   *)
(* addresses and atom section offsets.                                    *)
(***************************************************************************)
StartPass ==
    /\ pc = "start"
    /\ opts.kind # "object" /\ opts.allow /\ ArchNeedsIslands(opts)
    /\ LET place == PlaceSections(sects, LayoutInfo, prog.base, "")
       IN  /\ sects' = [i \in DOMAIN sects |->
                          [sects[i] EXCEPT !.address = place[i].address,
                                           !.size = place[i].size]]
           /\ sectionOffset' =
                [a \in DOMAIN atoms |->
                   LET s == sects[SectionOf(a)].atoms
                       j == CHOOSE k \in DOMAIN s : s[k] = a
                   IN  LayoutAtoms(s, LayoutInfo, 0)[1][j]]
    /\ seenCrossSectBr' = FALSE /\ seenThumbBr' = FALSE
    /\ lowestTextAddr' = MaxAddr
    /\ furthestStubSect' = 0 /\ furthestCodeOrStubSect' = 0
    /\ anySectNeedsIslands' = FALSE
    /\ cursor' = 1
    /\ pc' = "scan"
    /\ UNCHANGED << opts, prog, atoms, kBetweenRegions, sAtomToAddress,
                    atomIdx, previousIslandEndAddr, insertionPoint,
                    branchIslandInsertionPoints,
                    branchIslandInsertionSections, regionsMap,
                    regionAddresses, regionsIslands, work, islandCount,
                    atomToSection >>

(***************************************************************************)
(* mightNeedBranchIslands, one iteration of its section loop: the __TEXT  *)
(* bounds, the furthest stub / code end, and for a code section its       *)
(* branch flags and whether it needs islands on its own.                  *)
(***************************************************************************)
ScanSection ==
    /\ pc = "scan"
    /\ cursor <= Len(sects)
    /\ LET s        == sects[cursor]
           sEnd     == s.address + s.size
           code     == s.type = "code"
           clusters == UNION {{<< a, atoms[a].fixups[j] >> :
                                   j \in DOMAIN atoms[a].fixups} :
                                  a \in Range(s.atoms)}
           branches == {b \in clusters : IsScanBranchKind(b[2].kind)}
           thumb    == \E b \in branches : IsThumbBranchKind(b[2].kind)
           cross    == \E b \in branches :
                           SectionOf(b[1]) # SectionOf(Target(b[2]))
           hasBr    == s.hasBranches \/ branches # {}
           hasThumb == s.hasThumbBranches \/ thumb
           needs    == hasBr /\ s.size > textSizeWhenMightNeedBranchIslands(opts, hasThumb)
       IN  /\ lowestTextAddr' = IF s.seg = "__TEXT" /\ s.address < lowestTextAddr
                                THEN s.address ELSE lowestTextAddr
           /\ furthestStubSect' = IF s.type = "stub" THEN sEnd ELSE furthestStubSect
           /\ furthestCodeOrStubSect' = IF s.type \in {"stub", "code"}
                                        THEN sEnd ELSE furthestCodeOrStubSect
           /\ sects' = IF code
                       THEN [sects EXCEPT ![cursor].hasBranches = hasBr,
                                          ![cursor].hasThumbBranches = hasThumb,
                                          ![cursor].hasCrossSectionBranches = @ \/ cross,
                                          ![cursor].needsIslands = @ \/ needs]
                       ELSE sects
           /\ seenThumbBr' = (seenThumbBr \/ (code /\ thumb))
           /\ seenCrossSectBr' = (seenCrossSectBr \/ (code /\ cross))
           /\ anySectNeedsIslands' = (anySectNeedsIslands \/ (code /\ needs))
    /\ cursor' = cursor + 1
    /\ UNCHANGED << opts, prog, pc, atoms, sectionOffset, kBetweenRegions,
                    sAtomToAddress, atomIdx, previousIslandEndAddr,
                    insertionPoint, branchIslandInsertionPoints,
                    branchIslandInsertionSections, regionsMap,
                    regionAddresses, regionsIslands, work, islandCount,
                    atomToSection >>

\* the verdict mightNeedBranchIslands returns once every section is scanned
MightNeedIslands ==
    \/ anySectNeedsIslands
    \/ /\ furthestCodeOrStubSect - lowestTextAddr
            > textSizeWhenMightNeedBranchIslands(opts, seenThumbBr)
       /\ seenCrossSectBr

\* the verdict is "no": doPass returns
ScanDoneNoIslands ==
    /\ pc = "scan"
    /\ cursor > Len(sects)
    /\ ~MightNeedIslands
    /\ kBetweenRegions' = maxDistanceBetweenIslands(opts, seenThumbBr)
    /\ pc' = "done"
    /\ UNCHANGED << opts, prog, sects, atoms, sectionOffset, seenCrossSectBr,
                    seenThumbBr, lowestTextAddr, furthestStubSect,
                    furthestCodeOrStubSect, anySectNeedsIslands,
                    sAtomToAddress, cursor, atomIdx, previousIslandEndAddr,
                    insertionPoint, branchIslandInsertionPoints,
                    branchIslandInsertionSections, regionsMap,
                    regionAddresses, regionsIslands, work, islandCount,
                    atomToSection >>

(***************************************************************************)
(* The verdict is "yes": doPass builds the address map when branches      *)
(* cross sections or the output is a preload image, and starts            *)
(* findIslandInsertionPoints at lowestTextAddr.                           *)
(***************************************************************************)
ScanDoneMightNeed ==
    /\ pc = "scan"
    /\ cursor > Len(sects)
    /\ MightNeedIslands
    /\ kBetweenRegions' = maxDistanceBetweenIslands(opts, seenThumbBr)
    /\ sAtomToAddress' =
         IF seenCrossSectBr \/ opts.kind = "preload"
         THEN AtomAddresses(sects, LayoutInfo,
                            [i \in DOMAIN sects |->
                               [address |-> sects[i].address]])
         ELSE sAtomToAddress
    /\ previousIslandEndAddr' = lowestTextAddr
    /\ cursor' = 1
    /\ atomIdx' = 0
    /\ pc' = "plan"
    /\ UNCHANGED << opts, prog, sects, atoms, sectionOffset, seenCrossSectBr,
                    seenThumbBr, lowestTextAddr, furthestStubSect,
                    furthestCodeOrStubSect, anySectNeedsIslands,
                    insertionPoint, branchIslandInsertionPoints,
                    branchIslandInsertionSections, regionsMap,
                    regionAddresses, regionsIslands, work, islandCount,
                    atomToSection >>

-----------------------------------------------------------------------------
(***************************************************************************)
(* findIslandInsertionPoints.                                              *)
(***************************************************************************)

\* the end of the last chosen insertion point, the limit of the current run
RunLimit == previousIslandEndAddr + kBetweenRegions

\* after the last section, or on the "Done." break: allocate the region tables
\* and let doPass start makeIslandsForSection on every code section
ResolverWork ==
    FlattenSeq([i \in DOMAIN sects |->
      IF sects[i].type # "code" THEN << >>
      ELSE FlattenSeq([k \in DOMAIN sects[i].atoms |->
             LET a == sects[i].atoms[k]
             IN  SelectSeq([j \in DOMAIN atoms[a].fixups |-> << a, j >>],
                           LAMBDA b : IsIslandBranchKind(atoms[a].fixups[b[2]].kind))])])

FinishPlan ==
    LET n == Len(branchIslandInsertionPoints)
    IN  /\ regionsMap' = [i \in 1..n |-> [k \in {} |-> NoAtom]]
        /\ regionsIslands' = [i \in 1..n |-> << >>]
        /\ regionAddresses' = [i \in 1..n |->
                                 AtomEnd(branchIslandInsertionPoints[i])]
        /\ islandCount' = 0
        /\ work' = ResolverWork
        /\ pc' = "resolve"

PlanUnchanged ==
    UNCHANGED << opts, prog, sects, atoms, sectionOffset, seenCrossSectBr,
                 seenThumbBr, lowestTextAddr, furthestStubSect,
                 furthestCodeOrStubSect, anySectNeedsIslands, kBetweenRegions,
                 sAtomToAddress, atomToSection >>

\* "No Islands in this section": the run limit lies beyond its end
PlanSkipSection ==
    /\ pc = "plan" /\ atomIdx = 0
    /\ cursor <= Len(sects)
    /\ RunLimit > sects[cursor].address + sects[cursor].size
    /\ cursor' = cursor + 1
    /\ PlanUnchanged
    /\ UNCHANGED << pc, atomIdx, previousIslandEndAddr, insertionPoint,
                    branchIslandInsertionPoints, branchIslandInsertionSections,
                    regionsMap, regionAddresses, regionsIslands, work,
                    islandCount >>

\* "Done.": the run limit lies beyond the furthest code or stub, or no
\* section is left
PlanStop ==
    /\ pc = "plan" /\ atomIdx = 0
    /\ \/ cursor > Len(sects)
       \/ /\ cursor =< Len(sects)
          /\ RunLimit =< sects[cursor].address + sects[cursor].size
          /\ RunLimit > furthestCodeOrStubSect
    /\ FinishPlan
    /\ PlanUnchanged
    /\ UNCHANGED << cursor, atomIdx, previousIslandEndAddr, insertionPoint,
                    branchIslandInsertionPoints, branchIslandInsertionSections >>

\* the section will hold islands: walk its atoms with no candidate yet
PlanEnterSection ==
    /\ pc = "plan" /\ atomIdx = 0
    /\ cursor <= Len(sects)
    /\ RunLimit =< sects[cursor].address + sects[cursor].size
    /\ RunLimit =< furthestCodeOrStubSect
    /\ atomIdx' = 1
    /\ insertionPoint' = NoAtom
    /\ PlanUnchanged
    /\ UNCHANGED << pc, cursor, previousIslandEndAddr,
                    branchIslandInsertionPoints, branchIslandInsertionSections,
                    regionsMap, regionAddresses, regionsIslands, work,
                    islandCount >>

PlannedAtom == sects[cursor].atoms[atomIdx]

\* variant for mutation checks: the run measured to the atom's start
RunOverflowsAtAtomStart ==
    sects[cursor].address + sectionOffset[PlannedAtom] > RunLimit

\* moving past the atom would make the run longer than kBetweenRegions
RunOverflows ==
    sects[cursor].address + AtomEnd(PlannedAtom) > RunLimit

\* the atom becomes the candidate unless it has a no-follow-on fixup; the
\* walk moves to the next atom, or past the section after its last one
NextCandidate(current) ==
    /\ insertionPoint' = IF ~FollowOn(PlannedAtom) THEN PlannedAtom ELSE current
    /\ IF atomIdx = Len(sects[cursor].atoms)
       THEN atomIdx' = 0 /\ cursor' = cursor + 1
       ELSE atomIdx' = atomIdx + 1 /\ UNCHANGED cursor

PlanAtom ==
    /\ pc = "plan" /\ atomIdx > 0
    /\ ~RunOverflows
    /\ NextCandidate(insertionPoint)
    /\ PlanUnchanged
    /\ UNCHANGED << pc, previousIslandEndAddr, branchIslandInsertionPoints,
                    branchIslandInsertionSections, regionsMap,
                    regionAddresses, regionsIslands, work, islandCount >>

\* the last candidate becomes an insertion point and starts a new run
PlanCommitInsertionPoint ==
    /\ pc = "plan" /\ atomIdx > 0
    /\ RunOverflows
    /\ insertionPoint # NoAtom
    /\ branchIslandInsertionPoints' =
         Append(branchIslandInsertionPoints, insertionPoint)
    /\ branchIslandInsertionSections' =
         Append(branchIslandInsertionSections, cursor)
    /\ previousIslandEndAddr' = sects[cursor].address + AtomEnd(insertionPoint)
    /\ NextCandidate(NoAtom)
    /\ PlanUnchanged
    /\ UNCHANGED << pc, regionsMap, regionAddresses, regionsIslands, work,
                    islandCount >>

\* throwf("Unable to insert branch island. No insertion point available.")
PlanNoInsertionPoint ==
    /\ pc = "plan" /\ atomIdx > 0
    /\ RunOverflows
    /\ insertionPoint = NoAtom
    /\ pc' = "fatal"
    /\ PlanUnchanged
    /\ UNCHANGED << cursor, atomIdx, previousIslandEndAddr, insertionPoint,
                    branchIslandInsertionPoints, branchIslandInsertionSections,
                    regionsMap, regionAddresses, regionsIslands, work,
                    islandCount >>

-----------------------------------------------------------------------------
(***************************************************************************)
(* makeIslandsForSection, one branch cluster per step.  work lists the    *)
(* branch clusters of every code section in section, atom and fixup order.*)
(***************************************************************************)
Branch    == Head(work)
BrAtom    == Branch[1]
BrCluster == atoms[BrAtom].fixups[Branch[2]]
BrTarget  == Target(BrCluster)
BrAddend  == Addend(BrCluster)
\* variant for mutation checks: the key built without the addend
FinalKeyWithoutAddend == << BrTarget, 0 >>
FinalKey  == << BrTarget, BrAddend >>                  \* TargetAndOffset

\* addresses are absolute once cross-section branches or a preload image
\* were seen, section offsets otherwise
GlobalMode == seenCrossSectBr \/ opts.kind = "preload"

SrcAddr == IF GlobalMode THEN sAtomToAddress[BrAtom] + BrCluster.offset
           ELSE sectionOffset[BrAtom] + BrCluster.offset

\* a branch to a stub is assumed to reach the end of the stub section
DstAddr == IF sects[SectionOf(BrTarget)].type = "stub" THEN furthestStubSect
           ELSE IF GlobalMode THEN sAtomToAddress[BrTarget] + BrAddend
           ELSE sectionOffset[BrTarget] + BrAddend

Displacement == DstAddr - SrcAddr

CrossSectionBranch == SectionOf(BrAtom) # SectionOf(BrTarget)

OutOfRange == Displacement > kBetweenRegions \/ Displacement < -kBetweenRegions

\* the region tables as one record, threaded through a chain walk
Tables == [next |-> BrTarget, map |-> regionsMap, lists |-> regionsIslands,
           atoms |-> atoms, count |-> islandCount, a2s |-> atomToSection]

\* variant for mutation checks: the island not recorded for the writer
SkipAtomToSection(a2s, id) == a2s

\* state.atomToSection[island] = sect, sect the section being scanned
RecordAtomToSection(a2s, id) == a2s @@ (id :> SectionOf(BrAtom))

(***************************************************************************)
(* One region of a chain walk: reuse the island the region already has    *)
(* for the final target and addend, or manufacture one whose next hop is  *)
(* the previous link, record it in the region and in atomToSection (as   *)
(* the section being scanned) and make it the link.                       *)
(***************************************************************************)
UseRegion(t, i, inSect, crossSection) ==
    IF FinalKey \in DOMAIN t.map[i]
    THEN [t EXCEPT !.next = t.map[i][FinalKey]]
    ELSE LET id  == LastProgramAtom + t.count + 1
             cls == makeBranchIsland(opts, BrCluster.kind, crossSection,
                                     atoms[BrTarget].thumb)
         IN  [next  |-> id,
              map   |-> [t.map EXCEPT ![i] = @ @@ (FinalKey :> id)],
              lists |-> [t.lists EXCEPT ![i] = Append(@, id)],
              atoms |-> t.atoms @@ (id :> [size |-> IslandSize(cls),
                                           pow |-> IslandAlignPow(cls),
                                           mod |-> 0,
                                           thumb |-> IslandIsThumb(cls),
                                           fixups |-> << >>,
                                           sect |-> inSect,
                                           island |-> [class |-> cls,
                                                       next |-> t.next,
                                                       final |-> FinalKey,
                                                       region |-> i]]),
              count |-> t.count + 1,
              a2s   |-> RecordAtomToSection(t.a2s, id)]

ForwardStep(t, i) ==
    IF SrcAddr < regionAddresses[i] /\ regionAddresses[i] =< DstAddr
    THEN UseRegion(t, i, branchIslandInsertionSections[i], FALSE)
    ELSE t

\* variant for mutation checks: the forward test pasted into the backward walk
BackwardStepAsForward(t, i) == ForwardStep(t, i)

BackwardStep(t, i) ==
    IF DstAddr < regionAddresses[i] /\ regionAddresses[i] =< SrcAddr
    THEN UseRegion(t, i, branchIslandInsertionSections[i], FALSE)
    ELSE t

\* retarget the cluster to the chain's first link, zero its addend, and
\* keep the tables the walk produced
Retarget(t) ==
    /\ atoms' = [t.atoms EXCEPT
                   ![BrAtom].fixups[Branch[2]].target  = t.next,
                   ![BrAtom].fixups[Branch[2]].binding = "direct",
                   ![BrAtom].fixups[Branch[2]].addend  =
                       IF BrCluster.hasAddend THEN 0 ELSE @]
    /\ regionsMap' = t.map
    /\ regionsIslands' = t.lists
    /\ islandCount' = t.count
    /\ atomToSection' = t.a2s
    /\ work' = Tail(work)

ResolveUnchanged ==
    UNCHANGED << opts, prog, pc, sects, sectionOffset, seenCrossSectBr,
                 seenThumbBr, lowestTextAddr, furthestStubSect,
                 furthestCodeOrStubSect, anySectNeedsIslands, kBetweenRegions,
                 sAtomToAddress, cursor, atomIdx, previousIslandEndAddr,
                 insertionPoint, branchIslandInsertionPoints,
                 branchIslandInsertionSections, regionAddresses >>

\* a cross-section branch out of range in a preload image: one island in
\* region 0, made as for a cross-section branch, placed in the caller's section
\* (with no region, regionsMap[0] is read out of bounds: no step is enabled)
ResolveAbsolute ==
    /\ pc = "resolve" /\ work # << >>
    /\ CrossSectionBranch /\ opts.kind = "preload" /\ OutOfRange
    /\ Len(regionsMap) > 0
    /\ Retarget(UseRegion(Tables, 1, SectionOf(BrAtom), TRUE))
    /\ ResolveUnchanged

\* forward chain: regions from the highest down, each in (src, dst]
ResolveForward ==
    /\ pc = "resolve" /\ work # << >>
    /\ ~(CrossSectionBranch /\ opts.kind = "preload" /\ OutOfRange)
    /\ Displacement > kBetweenRegions
    /\ Retarget(FoldLeft(ForwardStep, Tables,
                         [k \in 1..Len(regionsMap) |-> Len(regionsMap) + 1 - k]))
    /\ ResolveUnchanged

\* backward chain: regions from the lowest up, each in (dst, src]
ResolveBackward ==
    /\ pc = "resolve" /\ work # << >>
    /\ ~(CrossSectionBranch /\ opts.kind = "preload" /\ OutOfRange)
    /\ Displacement < -kBetweenRegions
    /\ Retarget(FoldLeft(BackwardStep, Tables,
                         [k \in 1..Len(regionsMap) |-> k]))
    /\ ResolveUnchanged

\* the branch is within kBetweenRegions: nothing changes
ResolveInRange ==
    /\ pc = "resolve" /\ work # << >>
    /\ ~OutOfRange
    /\ work' = Tail(work)
    /\ ResolveUnchanged
    /\ UNCHANGED << atoms, regionsMap, regionsIslands, islandCount,
                    atomToSection >>

\* every code section scanned and no island made: doPass returns
ResolveDoneNoIslands ==
    /\ pc = "resolve" /\ work = << >>
    /\ islandCount = 0
    /\ pc' = "done"
    /\ UNCHANGED << opts, prog, sects, atoms, sectionOffset, seenCrossSectBr,
                    seenThumbBr, lowestTextAddr, furthestStubSect,
                    furthestCodeOrStubSect, anySectNeedsIslands,
                    kBetweenRegions, sAtomToAddress, cursor, atomIdx,
                    previousIslandEndAddr, insertionPoint,
                    branchIslandInsertionPoints,
                    branchIslandInsertionSections, regionsMap,
                    regionAddresses, regionsIslands, work, islandCount,
                    atomToSection >>

ResolveDoneSplice ==
    /\ pc = "resolve" /\ work = << >>
    /\ islandCount > 0
    /\ cursor' = 1
    /\ pc' = "splice"
    /\ UNCHANGED << opts, prog, sects, atoms, sectionOffset, seenCrossSectBr,
                    seenThumbBr, lowestTextAddr, furthestStubSect,
                    furthestCodeOrStubSect, anySectNeedsIslands,
                    kBetweenRegions, sAtomToAddress, atomIdx,
                    previousIslandEndAddr, insertionPoint,
                    branchIslandInsertionPoints,
                    branchIslandInsertionSections, regionsMap,
                    regionAddresses, regionsIslands, work, islandCount,
                    atomToSection >>

-----------------------------------------------------------------------------
(***************************************************************************)
(* The splice loop of doPass: one iteration rebuilds the section of       *)
(* region cursor, inserting after each insertion point met in it the      *)
(* islands of the region being looked for, which then advances.           *)
(***************************************************************************)
RECURSIVE SpliceFrom(_, _)
SpliceFrom(seq, regionIndex) ==
    IF seq = << >> THEN << << >>, regionIndex >>
    ELSE LET a    == Head(seq)
             hit  == /\ regionIndex =< Len(branchIslandInsertionPoints)
                     /\ a = branchIslandInsertionPoints[regionIndex]
             rest == SpliceFrom(Tail(seq), IF hit THEN regionIndex + 1
                                                  ELSE regionIndex)
         IN  << (IF hit THEN << a >> \o regionsIslands[regionIndex]
                        ELSE << a >>) \o rest[1],
               rest[2] >>

SpliceRegionSection ==
    /\ pc = "splice"
    /\ cursor =< Len(branchIslandInsertionPoints)
    /\ LET s == branchIslandInsertionSections[cursor]
           r == SpliceFrom(sects[s].atoms, cursor)
       IN  /\ sects' = [sects EXCEPT ![s].atoms = r[1]]
           /\ cursor' = r[2]
           /\ pc' = IF r[2] > Len(branchIslandInsertionPoints)
                    THEN "done" ELSE "splice"
    /\ UNCHANGED << opts, prog, atoms, sectionOffset, seenCrossSectBr,
                    seenThumbBr, lowestTextAddr, furthestStubSect,
                    furthestCodeOrStubSect, anySectNeedsIslands,
                    kBetweenRegions, sAtomToAddress, atomIdx,
                    previousIslandEndAddr, insertionPoint,
                    branchIslandInsertionPoints,
                    branchIslandInsertionSections, regionsMap,
                    regionAddresses, regionsIslands, work, islandCount,
                    atomToSection >>

-----------------------------------------------------------------------------
\* the pass has returned (or aborted the link); later phases are not modelled
Terminated ==
    /\ pc \in {"done", "fatal"}
    /\ UNCHANGED vars

Next ==
    \/ SkipPass \/ StartPass
    \/ ScanSection \/ ScanDoneNoIslands \/ ScanDoneMightNeed
    \/ PlanSkipSection \/ PlanStop \/ PlanEnterSection
    \/ PlanAtom \/ PlanCommitInsertionPoint \/ PlanNoInsertionPoint
    \/ ResolveAbsolute \/ ResolveForward \/ ResolveBackward \/ ResolveInRange
    \/ ResolveDoneNoIslands \/ ResolveDoneSplice
    \/ SpliceRegionSection
    \/ Terminated

Spec == Init /\ [][Next]_vars

-----------------------------------------------------------------------------
(***************************************************************************)
(* What the pass promises, judged on the layout its result gets: the     *)
(* sections laid out again from the program's base with the islands       *)
(* spliced in.  Hardware reach is that of the branch instructions (a     *)
(* signed, word- or halfword-scaled displacement); the few bytes of pc   *)
(* bias are below the model's resolution.                                  *)
(***************************************************************************)
PassApplies == opts.kind # "object" /\ opts.allow /\ ArchNeedsIslands(opts)

FinalAddress == AtomAddresses(sects, LayoutInfo,
                              PlaceSections(sects, LayoutInfo, prog.base, ""))

BranchReach(k) ==
    CASE k \in {"ppc24", "arm24"} -> 2^25
      [] k = "thumb22"             -> IF opts.thumb2 THEN 2^24 ELSE 2^22
      [] k = "arm64b26"            -> 2^27

IsIsland(a) == atoms[a].island.class # "none"

IslandHop(a) == IslandJump(atoms[a].island.class, atoms[a].island.next,
                           atoms[a].island.final)

\* the branch clusters of the program's atoms
BranchSites ==
    UNION {{<< a, j >> : j \in {k \in DOMAIN atoms[a].fixups :
                                   IsIslandBranchKind(atoms[a].fixups[k].kind)}} :
           a \in DOMAIN prog.atoms}

\* every relative branch of the linked image: the program's branch clusters
\* and the relative jumps of the islands
Hops ==
    {[from |-> FinalAddress[a] + atoms[a].fixups[j].offset,
      to   |-> FinalAddress[Target(atoms[a].fixups[j])]
                 + Addend(atoms[a].fixups[j]),
      kind |-> atoms[a].fixups[j].kind] :
        << a, j >> \in BranchSites}
    \cup
    {[from |-> FinalAddress[a],
      to   |-> FinalAddress[IslandHop(a).target] + IslandHop(a).addend,
      kind |-> IslandHop(a).kind] :
        a \in {i \in DOMAIN atoms : IsIsland(i) /\ IslandHop(i).rel}}

InReach(h) == -BranchReach(h.kind) =< h.to - h.from
              /\ h.to - h.from < BranchReach(h.kind)

\* where a branch really lands: through its islands' jumps to a non-island
RECURSIVE Destination(_, _)
Destination(t, addend) ==
    IF ~IsIsland(t) THEN << t, addend >>
    ELSE Destination(IslandHop(t).target, IslandHop(t).addend)

\* the end of insertion point i, as an address
PointEnd(i) == sects[branchIslandInsertionSections[i]].address
                 + AtomEnd(branchIslandInsertionPoints[i])

-----------------------------------------------------------------------------
TypeOK ==
    /\ pc \in {"start", "scan", "plan", "resolve", "splice", "done", "fatal"}
    /\ cursor \in Nat /\ atomIdx \in Nat /\ islandCount \in Nat
    /\ insertionPoint \in DOMAIN atoms \cup {NoAtom}
    /\ Len(branchIslandInsertionPoints) = Len(branchIslandInsertionSections)
    /\ \A a \in DOMAIN atoms : atoms[a].sect \in DOMAIN sects
    /\ DOMAIN atomToSection = {a \in DOMAIN atoms : IsIsland(a)}

(***************************************************************************)
(* Reach (spec section 8, the first and fifth universal invariants): once *)
(* doPass has returned, every branch of the program and every relative    *)
(* island jump spans less than the hardware reach of its kind.  It rests  *)
(* on the planner (findIslandInsertionPoints), the chain walks of         *)
(* makeIslandsForSection and the splice agreeing on one notion of address.*)
(***************************************************************************)
ReachAfterPass ==
    (pc = "done" /\ PassApplies) => \A h \in Hops : InReach(h)

(***************************************************************************)
(* Destination: after the pass every branch cluster, followed through the *)
(* islands it was retargeted to (their fixups or, for the thumb-1        *)
(* islands, the words copyRawContent writes), still lands on the target  *)
(* and addend it had before: makeIslandsForSection zeroes the caller's    *)
(* AddAddend, so the islands must carry it.                                *)
(***************************************************************************)
DestinationPreserved ==
    pc = "done" =>
      \A a \in DOMAIN prog.atoms : \A j \in DOMAIN prog.atoms[a].fixups :
        IsIslandBranchKind(prog.atoms[a].fixups[j].kind) =>
          Destination(Target(atoms[a].fixups[j]), Addend(atoms[a].fixups[j]))
            = << Target(prog.atoms[a].fixups[j]),
                 Addend(prog.atoms[a].fixups[j]) >>

(***************************************************************************)
(* Region spacing (spec section 8; the comment on                         *)
(* findIslandInsertionPoints: "No atom run without an island can exceed   *)
(* kBetweenRegions"): the ends of consecutive insertion points are at    *)
(* most kBetweenRegions apart.                                             *)
(***************************************************************************)
RegionSpacing ==
    \A i \in 1..Len(branchIslandInsertionPoints) - 1 :
        PointEnd(i + 1) - PointEnd(i) =< kBetweenRegions

(***************************************************************************)
(* Host section (spec section 4.6): the side mapping atomToSection that  *)
(* makeIslandsForSection fills for the writer names, for each island, the *)
(* section the splice puts it in.                                          *)
(***************************************************************************)
AtomToSectionIsHost ==
    pc = "done" =>
      \A i \in DOMAIN atomToSection :
        \E s \in DOMAIN sects : i \in Range(sects[s].atoms) /\ atomToSection[i] = s

=============================================================================
