--------------------------- MODULE MC_BranchIsland ---------------------------
(***************************************************************************)
(* Inputs for checking BranchIsland.                                      *)
(*                                                                         *)
(* Sizes are real byte counts, expressed in a per-configuration unit U    *)
(* of 1/32 of the branch reach, so that every configuration has the same  *)
(* shape: reach 32U, an inter-region budget of 26.7U to 31U and a         *)
(* "might need islands" threshold of about 30.5U.  A program is one       *)
(* __TEXT,__text section of five atoms and, optionally, a __TEXT,__stubs *)
(* section of one stub:                                                    *)
(*   a1 (1U)  a2  a3  a4 (8U or 24U each)  a5 (1U)   | a6 (12 bytes)      *)
(* a1 branches forward to a5 (with an addend or not), a5 back to a1, and *)
(* with stubs a3 calls the stub through the indirect binding table.       *)
(* With 8U+8U+8U the text stays under the threshold.  Some inputs give   *)
(* a3 an alignment of 2^3 (modulus 0 or 4) and a1 4 more bytes.          *)
(***************************************************************************)
EXTENDS BranchIsland

\* the base address of an executable's __TEXT (the default -image_base
\* of 32-bit images: past the zero page's first 4KB)
ExecBase == 4096

Cluster(k, t, addend, off) ==
    [kind |-> k, binding |-> "direct", target |-> t, index |-> 0,
     addend |-> addend, hasAddend |-> addend # 0, offset |-> off]

StubCall(k) ==
    [kind |-> k, binding |-> "indirect", target |-> NoAtom, index |-> 1,
     addend |-> 0, hasAddend |-> FALSE, offset |-> 0]

CodeAtom(size, thumb, fixups) ==
    [size |-> size, pow |-> 2, mod |-> 0, thumb |-> thumb, fixups |-> fixups]

FollowOnFixup ==
    [kind |-> "followOn", binding |-> "direct", target |-> NoAtom, index |-> 0,
     addend |-> 0, hasAddend |-> FALSE, offset |-> 0]

(***************************************************************************)
(* The program a shape p describes: p.u the unit, p.k1 the kind of a1's  *)
(* branch (to p.t1), p.k5 of a5's (to p.t5) and of the stub call, p.thumb5 *)
(* whether a5 is thumb code and p.thumbRest whether the other atoms are, *)
(* p.sizes the sizes of a2..a4 and p.followOn the atoms that carry a     *)
(* kindNoneFollowOn fixup.  p.cold (never with p.stub) adds a second     *)
(* code section, __TEXT,__text_cold, whose one atom a6 branches to a1.   *)
(***************************************************************************)
Program(p) ==
    LET u == p.u
        fo(a) == IF a \in p.followOn THEN << FollowOnFixup >> ELSE << >>
    IN
    [sects |-> << [seg |-> "__TEXT", type |-> "code", atoms |-> << 1, 2, 3, 4, 5 >>] >>
               \o (IF p.stub THEN << [seg |-> "__TEXT", type |-> "stub", atoms |-> << 6 >>] >>
                   ELSE << >>)
               \o (IF p.cold THEN << [seg |-> "__TEXT", type |-> "code", atoms |-> << 6 >>] >>
                   ELSE << >>),
     atoms |-> [a \in 1..(IF p.stub \/ p.cold THEN 6 ELSE 5) |->
                 CASE a = 1 -> CodeAtom(u + p.a1extra, p.thumbRest, << Cluster(p.k1, p.t1, p.addend, 0) >>)
                   [] a = 3 -> [CodeAtom(p.sizes[2], p.thumbRest,
                                         (IF p.stub THEN << StubCall(p.k5) >> ELSE << >>)
                                         \o fo(3))
                                EXCEPT !.pow = p.a3align.pow, !.mod = p.a3align.mod]
                   [] a \in {2, 4} -> CodeAtom(p.sizes[a - 1], p.thumbRest, fo(a))
                   [] a = 5 -> CodeAtom(u, p.thumb5, << Cluster(p.k5, p.t5, 0, 0) >>)
                   [] a = 6 /\ p.stub -> CodeAtom(12, FALSE, << >>)
                   [] a = 6 -> CodeAtom(u, p.thumbRest, << Cluster(p.k5, 1, 0, 0) >>)],
     indirect |-> << 6 >>,
     base |-> p.base]

\* the shape of a program whose branches all have kind k
Shape(u, k) ==
    [u |-> u, k1 |-> k, k5 |-> k, thumb5 |-> FALSE, thumbRest |-> FALSE,
     addend |-> 0, stub |-> FALSE, base |-> ExecBase,
     sizes |-> << 24 * u, 24 * u, 24 * u >>, t1 |-> 5, t5 |-> 1,
     followOn |-> {}, cold |-> FALSE,
     a1extra |-> 0, a3align |-> [pow |-> 2, mod |-> 0]]

Sizes(u) == {<< x, y, z >> : x, y, z \in {8 * u, 24 * u}}

Opt(arch, thumb2, slidable, kind, allow) ==
    [arch |-> arch, thumb2 |-> thumb2, slidable |-> slidable,
     kind |-> kind, allow |-> allow]

PPCExe   == Opt("ppc", FALSE, TRUE, "executable", TRUE)
ARMExe   == Opt("arm", FALSE, TRUE, "executable", TRUE)
Thumb2   == Opt("arm", TRUE, TRUE, "executable", TRUE)
Thumb1   == {Opt("arm", FALSE, sl, "executable", TRUE) : sl \in BOOLEAN}
Skipping == {Opt("ppc", FALSE, TRUE, "object", TRUE),
             Opt("ppc", FALSE, TRUE, "executable", FALSE),
             Opt("i386", FALSE, TRUE, "executable", TRUE)}

UPPC    == 2^20     \* reach 2^25
UThumb2 == 2^19     \* reach 2^24
UThumb1 == 2^17     \* reach 2^22

In(o, p) == [opts |-> o, prog |-> Program(p)]

(***************************************************************************)
(* Images the pass handles: PPC with and without an addend on the        *)
(* forward branch, ARM-to-ARM, Thumb-2 (executable and preload), and ARM *)
(* calling Thumb-1 code (slidable or not); each with and without a stub  *)
(* section, over every combination of sizes; PPC with a second code      *)
(* section calling back.  Besides: a large text whose                     *)
(* branches are all short, a text with no legal insertion point (a2 and   *)
(* a3 must follow each other and a1), and the options the gate rejects.   *)
(***************************************************************************)
PassInputs ==
    {In(PPCExe, [Shape(UPPC, "ppc24") EXCEPT !.addend = ad, !.stub = st, !.sizes = sz]) :
        ad \in {0, 64}, st \in BOOLEAN, sz \in Sizes(UPPC)}
    \cup
    {In(ARMExe, [Shape(UPPC, "arm24") EXCEPT !.stub = st, !.sizes = sz]) :
        st \in BOOLEAN, sz \in Sizes(UPPC)}
    \cup
    {In([Thumb2 EXCEPT !.kind = kd],
        [Shape(UThumb2, "thumb22") EXCEPT !.thumb5 = TRUE, !.thumbRest = TRUE,
                                          !.stub = st, !.sizes = sz]) :
        kd \in {"executable", "preload"}, st \in BOOLEAN, sz \in Sizes(UThumb2)}
    \cup
    {In(o, [Shape(UThumb1, "arm24") EXCEPT !.k5 = "thumb22", !.thumb5 = TRUE,
                                           !.stub = st, !.sizes = sz]) :
        o \in Thumb1, st \in BOOLEAN, sz \in Sizes(UThumb1)}
    \cup
    {In(PPCExe, [Shape(UPPC, "ppc24") EXCEPT !.cold = TRUE, !.sizes = sz]) :
        sz \in Sizes(UPPC)}
    \cup
    {In(PPCExe, [Shape(UPPC, "ppc24") EXCEPT !.t1 = 2, !.t5 = 4]),
     In(PPCExe, [Shape(UPPC, "ppc24") EXCEPT !.followOn = {2, 3}])}
    \cup
    {In(PPCExe, [Shape(UPPC, "ppc24") EXCEPT !.a1extra = x, !.a3align = [pow |-> 3, mod |-> m]]) :
        x \in {0, 4}, m \in {0, 4}}
    \cup
    {In(o, Shape(UPPC, "ppc24")) : o \in Skipping}

(***************************************************************************)
(* Inputs on which the code is expected to go wrong.                      *)
(***************************************************************************)

\* an ARM64 executable whose text spans 73 * 2^22 bytes, well past the
\* 2^27 reach of b/bl (spec section 8, scenario 1 in spirit)
UARM64 == 2^22
ARM64Inputs ==
    {In(Opt("arm64", FALSE, TRUE, "executable", TRUE), Shape(UARM64, "arm64b26"))}

\* an ARM branch to a5 plus 64 bytes that needs islands
ARMAddendInputs ==
    {In(ARMExe, [Shape(UPPC, "arm24") EXCEPT !.addend = 64])}

\* a2 must be followed by a3: the only candidate before the first
\* overflow is a1
FollowOnInputs ==
    {In(PPCExe, [Shape(UPPC, "ppc24") EXCEPT !.followOn = {2}])}

\* a PPC64 image with stubs: __TEXT starts above the budget
\* (64 * 2^20 here, 0x100000000 in a real PPC64 image)
LargeBaseInputs ==
    {In(PPCExe, [Shape(UPPC, "ppc24") EXCEPT !.stub = TRUE, !.base = 64 * UPPC])}

\* a PPC preload image whose stub is called from the middle of the text
PreloadInputs ==
    {In([PPCExe EXCEPT !.kind = "preload"],
        [Shape(UPPC, "ppc24") EXCEPT !.stub = TRUE])}

\* a second code section whose atom is the only one calling back to the
\* start of __text (a5 calls a4 next to it)
ColdInputs ==
    {In(PPCExe, [Shape(UPPC, "ppc24") EXCEPT !.cold = TRUE, !.t5 = 4])}

\* stands for 2^64 - 1: above every address of these programs
MCMaxAddr == 2^30

\* the offset buildAddressMap should give an atom of alignment (p, m) when
\* the one before it ends at o: the least offset not below o congruent to
\* m modulo 2^p
LeastAligned(o, p, m) == CHOOSE x \in o..(o + 2^p - 1) :
                             /\ x % 2^p = m
                             /\ \A y \in o..(x - 1) : y % 2^p # m

\* the pass got past the gate and laid the sections out
LaidOut == pc # "start" /\ opts.kind # "object" /\ opts.allow /\ ArchNeedsIslands(opts)

(***************************************************************************)
(* Alignment: buildAddressMap's adjustment of the running offset (the     *)
(* two branches on requiredModulus > currentModulus) puts every atom of   *)
(* every section at the least offset that respects its alignment, after *)
(* the end of the atom before it.                                          *)
(***************************************************************************)
AlignmentIsLeast ==
    LaidOut =>
        \A i \in DOMAIN prog.sects :
            LET s == prog.sects[i].atoms
            IN  \A j \in DOMAIN s :
                    sectionOffset[s[j]] =
                        LeastAligned(IF j = 1 THEN 0 ELSE sectionOffset[s[j - 1]] + atoms[s[j - 1]].size,
                                     atoms[s[j]].pow, atoms[s[j]].mod)

=============================================================================
