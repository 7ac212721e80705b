----------------------------- MODULE AddressMap -----------------------------
(***************************************************************************)
(* Provisional layout of atoms and sections.                               *)
(*                                                                         *)
(* AlignedOffset and LayoutAtoms translate the per-atom loop of           *)
(* buildAddressMap (branch_island.cpp).  The layout collaborator the pass *)
(* calls first (setSectionSizesAndAlignments, assignFileOffsets) is not   *)
(* part of src/; it is modelled from the spec (section 4.1 and 6) with the *)
(* same alignment rule: sections follow each other, each aligned to the   *)
(* largest alignment of its atoms, a new segment starting on a page.      *)
(*                                                                         *)
(* info is a function from atoms to [size, pow, mod]: the atom's size and *)
(* its alignment (powerOf2, modulus).                                      *)
(***************************************************************************)
EXTENDS Integers, Sequences


\* variant for mutation checks: the requiredModulus > currentModulus case
\* dropped, so the offset always moves into the next period
AlignedOffsetAlwaysWrapping(offset, pow, mod) ==
    LET alignment      == 2^pow
        currentModulus == offset % alignment
    IN  IF currentModulus = mod THEN offset
        ELSE offset + mod + alignment - currentModulus

(***************************************************************************)
(* The offset an atom of alignment (pow, mod) is placed at when the       *)
(* running offset is offset: the next offset congruent to mod modulo      *)
(* 2^pow.                                                                  *)
(***************************************************************************)
AlignedOffset(offset, pow, mod) ==
    LET alignment      == 2^pow
        currentModulus == offset % alignment
    IN  IF currentModulus = mod THEN offset
        ELSE IF mod > currentModulus THEN offset + mod - currentModulus
        ELSE offset + mod + alignment - currentModulus

(***************************************************************************)
(* Lays out the atoms of seq from offset: the pair                        *)
(*   << offsets, end >>                                                    *)
(* where offsets[i] is the offset of seq[i] and end the offset after the  *)
(* last atom.                                                              *)
(***************************************************************************)
RECURSIVE LayoutAtoms(_, _, _)
LayoutAtoms(seq, info, offset) ==
    IF seq = << >> THEN << << >>, offset >>
    ELSE LET a    == Head(seq)
             at   == AlignedOffset(offset, info[a].pow, info[a].mod)
             rest == LayoutAtoms(Tail(seq), info, at + info[a].size)
         IN  << << at >> \o rest[1], rest[2] >>

(* The largest alignment power among the atoms of seq (the section's     *)
(* alignment).                                                             *)
MaxAlignPow(seq, info) ==
    LET pows == {info[seq[i]].pow : i \in DOMAIN seq} \cup {0}
    IN  CHOOSE p \in pows : \A q \in pows : q =< p

(***************************************************************************)
(* Section addresses and sizes: sects is a sequence of [seg, atoms], the  *)
(* result a sequence of [address, size] in the same order.  The first     *)
(* section starts at base.                                                 *)
(***************************************************************************)
RECURSIVE PlaceSections(_, _, _, _)
PlaceSections(sects, info, at, prevSeg) ==
    IF sects = << >> THEN << >>
    ELSE LET s     == Head(sects)
             start == IF prevSeg # s.seg /\ prevSeg # ""
                      THEN AlignedOffset(at, 12, 0)   \* a 4096-byte page
                      ELSE AlignedOffset(at, MaxAlignPow(s.atoms, info), 0)
             size  == LayoutAtoms(s.atoms, info, 0)[2]
         IN  << [address |-> start, size |-> size] >>
               \o PlaceSections(Tail(sects), info, start + size, s.seg)

(***************************************************************************)
(* The address of every atom of every section (buildAddressMap's          *)
(* sAtomToAddress), given the sections' placement.                        *)
(***************************************************************************)
AtomAddresses(sects, info, place) ==
    LET owner(a) == CHOOSE i \in DOMAIN sects :
                        \E j \in DOMAIN sects[i].atoms : sects[i].atoms[j] = a
        index(a) == CHOOSE j \in DOMAIN sects[owner(a)].atoms :
                        sects[owner(a)].atoms[j] = a
        placed   == UNION {{sects[i].atoms[j] : j \in DOMAIN sects[i].atoms}
                           : i \in DOMAIN sects}
        offsets  == [i \in DOMAIN sects |-> LayoutAtoms(sects[i].atoms, info, 0)[1]]
    IN  [a \in placed |-> place[owner(a)].address + offsets[owner(a)][index(a)]]

=============================================================================
