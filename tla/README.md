# TLA+ models of the darwin-xtools branch-island pass, text-stub loader and archive extraction

This directory holds TLA+ models of three parts of darwin-xtools:
- the ld64 branch-island pass (`src/ld64/src/ld/passes/branch_island.cpp`);
- the TAPI-lite text-stub loader (`src/tapilite/src/LinkerInterfaceFile.cpp`);
- xar archive extraction into a buffer (`src/xar-additions/xar-additions.c`).

It also holds the TLC configurations that check them, and `PROJECT.json`. `PROJECT.json` maps every definition to the
source lines it translates and lists the runs, mutants, findings and hazards.

## The system

The branch-island pass runs once per link, on one thread, after the atoms are
laid out. PPC, ARM and ARM64 branch instructions only reach a limited
distance (±32MB, ±16MB or ±4MB for Thumb, ±128MB for ARM64). When the text is
larger, the pass inserts *islands*: small atoms that jump further. A branch
that is too far is retargeted to a chain of islands.

`doPass` has these parts, each working on the linker state (sections, atoms
and fixups) and on a set of file-level statics:

| part | code | what it does |
|---|---|---|
| gate | `doPass` 830-851 | returns at once for object files, `-no_branch_islands`, and other architectures |
| scan | `mightNeedBranchIslands` 677-766 | has the layout collaborator assign addresses; per section, notes branches, thumb branches and cross-section branches, `lowestTextAddr` and the furthest stub / code end; decides whether islands might be needed; sets the budget `kBetweenRegions` |
| address map | `buildAddressMap` 634-670 | in *global mode* (cross-section branches seen, or a preload image) computes absolute atom addresses |
| planner | `findIslandInsertionPoints` 771-828 | walks all atoms and chooses *insertion points* so that no run without an island is longer than the budget; atoms with a no-follow-on fixup cannot be points; throws when no point exists |
| resolver | `makeIslandsForSection` 462-631 | for each branch cluster of each code section, compares the displacement with the budget and builds a forward or backward chain through the regions between source and destination. It memoises one island per (target, addend) per region. In preload images a cross-section branch instead gets an "absolute" island in region 0. The caller is retargeted and its addend cleared |
| factory | `makeBranchIsland` 332-389 and the seven `*IslandAtom` classes 71-330 | picks the island kind (PPC, ARM64, ARM-to-ARM, Thumb-2, Thumb-2 absolute, ARM-to-Thumb-1 PIC / non-PIC) and what it jumps to |
| splice | `doPass` 888-925 | inserts each region's islands after its insertion point |

The loader and the extraction are described in their own sections below.

## Modules

- **`BranchIslandParams`**: the pure tables and the factory.
  - The architecture gate, the fixup-kind classifications of the scan and
    of the resolver (they differ), `textSizeWhenMightNeedBranchIslands` and
    `maxDistanceBetweenIslands`.
  - `makeBranchIsland`.
  - Each island class's size, alignment, thumb flag and `IslandJump`:
    where it jumps, by its fixups or by the words `copyRawContent` writes.
- **`AddressMap`**: `AlignedOffset` and `LayoutAtoms` translate the atom loop
  of `buildAddressMap`. `AtomAddresses` gives its side table.
  - `PlaceSections` and `MaxAlignPow` stand for the layout collaborator
    (`setSectionSizesAndAlignments`, `assignFileOffsets`), which is not in
    `src/`. They are modelled from the spec.
- **`BranchIsland`**: the pass as a sequential state machine.
  - The statics and the linker state are VARIABLES; `prog` keeps the input
    for the properties.
  - `pc` follows `doPass`: `start`, then `scan` (one section per step), `plan`
    (one atom per step), `resolve` (one branch cluster per step), `splice`
    (one region section per step), and finally `done` or `fatal` (`throwf`).
  - Each action is one iteration of one loop, with its guard taken from the
    code's conditions and early returns:
    - `ScanSection`;
    - `PlanSkipSection` / `PlanStop` / `PlanEnterSection` / `PlanAtom` /
      `PlanCommitInsertionPoint` / `PlanNoInsertionPoint`;
    - `ResolveAbsolute` / `ResolveForward` / `ResolveBackward` /
      `ResolveInRange`;
    - `SpliceRegionSection`.
  - A chain walk is a `FoldLeft` of `UseRegion` over the region indices, in
    the code's order, threading the region tables.
  - A fixup cluster is one record (target binding, optional addend, store
    kind, offset).
- **`MC_BranchIsland`**: the inputs.
  - Programs are one `__TEXT,__text` section of five atoms and an optional
    `__TEXT,__stubs` section:
    - a1 branches to a5 (optionally with an addend);
    - a5 branches back to a1;
    - a3 calls the stub through the indirect binding table;
    - optionally, a second code section holds a6, which calls a1.
  - Sizes are real bytes, in a unit of 1/32 of the branch reach. Every
    architecture therefore has the same shape: reach 32 units, a budget of
    26.7 to 31 units, and a trigger of 30.5 units. With the middle atoms of
    8 or 24 units, every case occurs:
    - the text is below the trigger;
    - one or two regions are needed;
    - chains of two islands are built;
    - islands are shared between the forward branch and the stub call.
- Four PPC inputs give a3 an alignment of 2^3 with modulus 0 or 4, after
  an a1 of size U or U + 4. Together they reach both branches of the
  alignment step of `buildAddressMap`.

## Runs

| run | cfg | expect | what it shows |
|---|---|---|---|
| pass | `MC_BranchIsland.cfg` | pass | covered: PPC (with and without addend), ARM, Thumb-2 (executable and preload), ARM calling Thumb-1 code (PIC and not), with and without stubs, PPC with a second code section calling back, all size combinations, a large text with only short branches, a text with no legal insertion point (fatal), and the gate. `ReachAfterPass`: every branch and island hop is within hardware reach in the final layout. `DestinationPreserved`: every branch still lands on its target plus addend. `RegionSpacing`: consecutive points are within the budget. `AlignmentIsLeast`: once the sections are laid out, every atom sits at the least offset that respects its alignment after the end of the atom before it. 1900 states; every action fires |
| host | `BranchIsland_host.cfg` | violation | a call from a second code section (`__text_cold`) back to a1 gets islands spliced into `__text`, but `atomToSection` records them as `__text_cold` (line 613). The spec says it records the host section |
| arm64 | `BranchIsland_arm64.cfg` | violation | ARM64 branch kinds are missing from the scan's switch (line 727), so an ARM64 text of 300MB gets no island |
| arm_addend | `BranchIsland_arm_addend.cfg` | violation | an ARM branch to a5+64 through islands lands on a5. The caller's addend is cleared, and only the PPC island re-applies it |
| followon | `BranchIsland_followon.cfg` | violation | with a2 marked no-follow-on, the planner commits a1 and then takes a3 as candidate without re-checking it (line 808). The regions end 48 units apart with a 30-unit budget |
| largebase | `BranchIsland_largebase.cfg` | violation | with stubs (global mode), `regionAddresses` are section offsets (line 824) but branch addresses are absolute. When `__TEXT` starts above the budget (PPC64 images start at 0x100000000), no region lies between source and destination and no island is made |
| preload | `BranchIsland_preload.cfg` | violation | in a PPC preload image a far stub call gets a relative PPC island in region 0 (line 547), which cannot reach the stub |

Each property of a passing run has a mutant in `PROJECT.json`: a plausible
bug in the mapped code that TLC shows the property catches. The mutants are:

- the backward walk given the forward range test;
- the memo key built without the addend;
- the run measured to an atom's start;
- `atomToSection` not recorded;
- the modulus case of the alignment step dropped.

### Bounds

- Three middle-atom sizes of two values each give 8 layouts. The text is then
  either below the trigger (26 units) or needs up to two regions (up to 74
  units).
- The first and last atoms are one unit each, so branches start and end
  next to insertion points. That is where the `<` versus `<=` region tests
  and the relative/absolute address mix matter.
- Addends are 0 or 64 bytes.
- The base is 4096 (a 32-bit executable) or, for the PPC64 case, 64 units,
  which is above the budget the way 0x100000000 is.
- `MaxAddr` (2^30) stands for 2^64-1.

### Fairness

`Spec` assumes no fairness: every property of the pass is a safety
property. Termination is not checked, since every modelled loop advances
by construction (the planner records each insertion point with the
section it was found in, so the splice loop always finds it).

## The text-stub loader

ld64 reads a `.tbd` file through `LinkerInterfaceFile::create`. The call runs
on one thread and has three steps:

| step | code | what it does |
|---|---|---|
| argument check | `create` 918-921 | an empty path, a null buffer or fewer than 8 bytes fail |
| `loadFile` | 251-766 | consumes libyaml events one at a time. `state` (header, exports, undefineds, reexports), `substate` (the open key), `version` (from the mapping tag and `tbd-version`), `selectSection` and `inList` drive it. Each document gets an `ImplData`; the first matching arch is selected; symbols of selected sections are collected |
| `Impl::init` | 793-897 | on the first document: pre-scans `$ld$` symbols (`processSymbol` 143-206: hide, add, weak, install_name, compatibility_version), sorts the hidden names, turns exports and undefineds into linker names (ObjC1/ObjC2 class names), and records the install names of the further documents |

`parseVersion32` (35-82) turns `"a.b.c"` into a packed version.

### Modules

- **`TapiVersion`**: `parseVersion32`. A string is abstracted to its
  `.`-separated fields, with `Empty` for an empty field and `NoDigits` for
  text that does not start with a digit. They differ only as the last
  field: "1.2." packs 1.2.0, while on "1.2.x" `stoull` throws. `Throw`
  stands for the `std::invalid_argument` of `std::stoull`.
  `PackedVersion32` is a triple, because 2^16 * 65535 is beyond TLC's
  integers.
- **`TapiLoader`**: `create` as a state machine.
  - `pc` runs create → load → init → prescan → exports → undefineds →
    done. It ends in `error` (nullptr) or `terminate` (an exception out of
    the `noexcept` create).
  - `isSupported` enters at `IsSupportedLoad`: loadFile for
    `CPU_TYPE_ANY`, with no argument check. It ends in `answered`, where
    `SupportedResult` reads the head document's platform.
  - The path-based `create` (944-956) enters at `CreatePath`: the file's
    text, read whole through an `ifstream`, goes to loadFile with no
    argument check. An unreadable path reads as empty text, a stream of
    no document, on which loadFile returns nullptr.
  - Each loadFile action handles one event kind, with its `case`:
    - `DocumentStart`, `StreamEnd`, `ParseError`;
    - `ScalarKey` (a key), `TbdVersionValue`, `ArchValue`,
      `HeaderFieldValue`, `SectionValue` (a value);
    - `SequenceStart`/`End`, `MappingStart`/`End`, `OtherEvent`.
  - The key `if` chains are lookup tables. A scalar is a record (`[text]`,
    a target `[text, arch, rest]`, `[ver]`, `[num]` or a parsed `$ld$`
    name), so that no string is built character by character.
  - `DocumentStart` allocates an `ImplData` whose four fields the
    constructor leaves uninitialised. Their value is a choice (`Garbage`)
    between all-zero bits and another pattern.
  - Impl::init walks one symbol per step (`PreScan`, `ExportStep`,
    `UndefinedStep`).
- **`TapiInterface`**: the abstract `create` and `isSupported`, each one
  atomic step. `isSupported` answers whether the text is a text stub whose
  first document names a platform. It reads
  the first document the way the text-stub format and loadFile's own
  comments describe:
  - the first listed arch that matches is selected;
  - exports and re-exports are taken from the items that list it;
  - `$ld$` symbols whose `osX.Y` condition is the minimum OS act;
  - a text that is not YAML, an unknown version or a malformed version
    fails.
- **`TapiInlined`**: who owns the `ImplData` list.
  - Node k's `next` is node k + 1.
  - `create` gives the head to the file's `shared_ptr`.
  - `getInlinedFramework` walks from its own node's `next` and wraps each
    matching node in a new `shared_ptr`. A failing `init` leaves a leaked
    owner and the walk goes on.
  - Deleting a file deletes its node.
  - The client is any user of the API: it asks any held file for any name,
    with a supported cpu or not, and deletes files in any order.
    `touched` records the nodes a step reads or frees.
  - `MC_TapiInlined` uses three documents (an umbrella and two inlined
    libraries) and at most four files.
- **`MC_TapiLoader`**: the documents and their event streams, in the
  order the TextStub writer emits keys. `TapiLoader` refines `TapiInterface`
  with this mapping:
  - `status` is created / failed / crashed / pending from `pc`;
  - `file` is the getters' values (`FileOf`).

### Runs

| run | cfg | expect | what it shows |
|---|---|---|---|
| tapi_create | `MC_TapiLoader.cfg` | pass | `ImplementsInterface`, over 29 calls:<br>• v3 files with two archs, for five cpu types (including ANY and an unsupported one);<br>• `$ld$` hide/add/weak/install_name/compatibility_version symbols, some not applying;<br>• a v4 file with re-exports;<br>• an undefineds-only file and a v1 untagged file;<br>• four refused versions, bad arguments, and a text that is not YAML;<br>• `isSupported` on a v3 file with and without a platform, on v4 files with a macOS and a tvOS target, on a refused version and on a text that is not YAML;<br>• the path-based create on A, on a refused version and on an unreadable path, and `isSupported` on empty text.<br>create returns the abstract file, or fails exactly when it should; isSupported gives the abstract answer; both always return. 1792 states. `ThreeFieldVersions` (a constant-level invariant): `parseVersion32` of every string of one to four fields over {0, 14, 255, 256, 65535, 65536, empty} packs a three-field version, or is 0 when a field overflows |
| tapi_single_arch | `TapiLoader_single_arch.cfg` | violation | a v3 file listing only x86_64, linked for x86_64, yields no exports: line 534 selects when `strcmp` is non-zero |
| tapi_multi_doc | `TapiLoader_multi_doc.cfg` | violation | in a two-document file the second document is parsed in the exports state, and its install name comes out as "" |
| tapi_inlined_uaf | `TapiInlined_use_after_free.cfg` | violation | `NoUseAfterFree`: the umbrella file returns libsystem_c; the client deletes it; asking the umbrella for libsystem_kernel then walks the freed node (line 1075) |

The run limit leaves seven more counterexamples as inputs in
`MC_TapiLoader` rather than runs. Each violates `ImplementsInterface` when
it replaces `PassInputs`:

| input | what it shows |
|---|---|
| `UndefAfterExportsInputs` | undefineds listed after exports become exports (line 395) |
| `TwoFieldLdInputs` | `$ld$hide$os10.14$` does not hide, because `"10.14"` parses as 10.0.14 (line 57) |
| `TruncatedInputs` | a text cut by a syntax error is accepted (line 335) |
| `MalformedVersionInputs` | `current-version: 1..2` terminates the process (line 562) |
| `HeaderBeforeArchsInputs` | current-version 1.2.3 written before archs comes out as 1.0.0: the defaults are applied at the first archs value (line 469) |
| `V4ClientsInputs` | a v4 allowable-clients list of mappings (targets and clients) gives no allowable clients, and its target is added to `_arches` (line 580) |
| `NoArchsInputs` | a document without archs is created with fileType Unsupported and the uninitialised versions, swift ABI version and objc constraint (line 91) |

Mutants of the tapi_create properties:
- `FieldTooBig` tested with `>=`;
- `EndValue` closing a key inside a list.

### Bounds and fairness

- Three documents and four files are enough for the shortest misuse (get,
  delete, get) and for the double ownership (get twice).
- Field values sit at the edges of the byte and half-word ranges.
  Strings have one to four fields.
- Loader inputs are one- or two-document files with two archs or targets,
  two or three items and the `$ld$` actions. Every action and every
  loadFile case that a TextStub-ordered file reaches is taken.
- `Spec` has weak fairness on `Next`: create is a single-threaded loop
  over a finite event stream.
- The abstract side states termination as `<>(status # "pending")`,
  which is what weak fairness on its one action amounts to.

## Archive extraction (xar-additions.c)

`xar_extract_tobuffersz` extracts an entry of a xar archive into a buffer
it mallocs. The header comment asks the caller to free the buffer after a
successful call. No caller is in the repository, so the client is modelled
from that comment.

### Module

- **`XarExtract`**: one action per step of the function:
  - `GetDataSize` (line 19);
  - `GetType` (lines 20-26): no type fails; a `"file"` type succeeds with
    size 0 and `*buffer` untouched; any other type fails;
  - `Allocate` (lines 29-34): `strtoull`, then `malloc`, which may fail;
  - `Extract` (lines 36-43): `xar_arcmod_extract`, which may fail. On
    failure the step zeroes the size, frees the buffer and sets it to NULL.

  The client's side:
  - `Call`: sets `buffer` to NULL first when `ResetBuffer` holds;
  - `ClientReturn`: frees the buffer after a 0 return. A client of the
    `"always"` style frees it after any return, relying on `free(NULL)`.

  `heap` records each malloc'd block as live or freed. `invalidFree`
  records a `free` of anything else.
- **`MC_XarExtract`** has six entries:
  - a 4-byte file, an empty file, and a size with no digits;
  - a `"file"` with no data, a directory, and an entry with no
    properties.

  It makes three calls, so that a buffer outlives a call.

### Runs

| run | cfg | expect | what it shows |
|---|---|---|---|
| xar_extract | `MC_XarExtract.cfg` | pass | The client resets `buffer` before each call and follows either style. `NoLeak`: once a result is handled, no block is live. `NoInvalidFree`: nothing is freed twice, and nothing malloc did not return is freed. 460 states; every action fires |

Mutants:
- `Extract` without the `free` (breaks `NoLeak`);
- `Extract` without `*buffer = NULL` (breaks `NoInvalidFree`).

There is also a witness: with `ResetBuffer = FALSE` and
`FreeStyles <- HeaderClientStyles`, `NoInvalidFree` is violated. A
`"file"` entry with no data returns 0 (line 24) without assigning
`*buffer`, and the client frees its uninitialised pointer.

### Bounds and fairness

Three calls are enough for a buffer to outlive a call and to be handed
back stale. Sizes 0 and 4 cover `malloc(0)`. The model checks safety
only, so it assumes no fairness.

## Not modelled

- In the loader:
  - libyaml itself (its event stream is the input);
  - the `CpuSubTypeMatching` overload of `create` (897-910): it only
    turns its mode into `ExactCpuSubType`, which `getArchForCPU` ignores;
  - the heap behind `loadFile`'s raw `ImplData` pointer, and so the list
    that `isSupported` never deletes and that `loadFile`'s `error()` macro
    returns without deleting (open hazards in `PROJECT.json`);
  - error messages.
- With no state or decision of their own:
  - `Version.cpp` / `Version.h`: strings built from compile-time
    constants;
  - `cctools_map_fd.c`: a wrapper whose one choice (`MAP_FIXED` at `*addr`
    when `find_space` is false) goes straight to `mmap`. What happens is
    decided by `mmap`, and by its own comment cctools never passes
    `find_space` false;
  - `ld.h` and `string.h`: declarations only.
- In the pass:
  - island names and instruction bytes (formatting);
  - logging;
  - `sizeOfTEXTSeg` and `sectionsWithBanches` (logging only);
  - `stubCount` (passed but unused);
  - the pc bias of branch encodings (a few bytes, below the unit);
  - negative addends: `makeIslandsForSection` stores the addend in a
    `uint32_t` (line 476), so -4 becomes 2^32 - 4. TLC's integers are
    32-bit signed and cannot hold that value;
  - an insertion point inside `__stubs` (line 786): the code only prints a
    message, and what it would break (stubs indexed by position) is outside
    the model;
  - a second run of the pass. `doPass` resets `seenCrossSectBr`,
    `seenThumbBr` and `lowestTextAddr` (853-855), but the insertion-point
    vectors persist across calls. ld64 performs one link, and so one run of the pass, per process.
