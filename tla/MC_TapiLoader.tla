--------------------------- MODULE MC_TapiLoader ---------------------------
(***************************************************************************)
(* Inputs for checking TapiLoader: .tbd files given as their documents,   *)
(* and the libyaml event stream of each (what yaml_parser_parse returns   *)
(* for the block and flow layout of a text stub).                         *)
(*                                                                         *)
(* A document is a record:                                                 *)
(*   tag          the tag of its top mapping                              *)
(*   tbdVersion   << >> or << the tbd-version scalar >>                   *)
(*   archKey      "archs" (v1-v3) or "targets" (v4)                       *)
(*   archs        the archs / targets list                                 *)
(*   platform     << >> or << the platform scalar >>                       *)
(*   installName  the install-name text                                    *)
(*   curVersion   << >> or << the fields of current-version >>            *)
(*   compatVersion  likewise, compatibility-version                        *)
(*   swift        << >> or << the swift-abi-version number scalar >>       *)
(*   objc         << >> or << the objc-constraint scalar >>                *)
(*   clients      the allowable-clients list (<< >>: no key)              *)
(*   uuids        the uuids list (<< >>: no key)                          *)
(*   sections     a sequence of [key, items], each item an archs / targets *)
(*                list and a sequence of [key, values] symbol lists       *)
(* Keys are emitted in this order, which is the order of the llvm TextStub *)
(* writer.                                                                 *)
(***************************************************************************)
EXTENDS TapiLoader

NoTag == [tapi |-> FALSE, v |-> "none"]
TapiTag(v) == [tapi |-> TRUE, v |-> v]

Event(t) == [type |-> t]
ScalarEv(v) == [type |-> "scalar", value |-> v]
MapStartEv(tag) == [type |-> "mapStart", tag |-> tag]

ListEvents(vs) ==
    << Event("seqStart") >> \o [i \in DOMAIN vs |-> ScalarEv(vs[i])] \o << Event("seqEnd") >>
KeyList(key, vs) == << ScalarEv(S(key)) >> \o ListEvents(vs)
KeyVal(key, v) == << ScalarEv(S(key)), ScalarEv(v) >>
Opt(key, o) == IF o = << >> THEN << >> ELSE KeyVal(key, o[1])
OptList(key, vs) == IF vs = << >> THEN << >> ELSE KeyList(key, vs)
OptVer(key, o) == IF o = << >> THEN << >> ELSE KeyVal(key, [ver |-> o[1]])

ItemEvents(it, archKey) ==
    << MapStartEv(NoTag) >> \o KeyList(archKey, it.archs)
    \o FlattenSeq([j \in DOMAIN it.lists |-> KeyList(it.lists[j].key, it.lists[j].values)])
    \o << Event("mapEnd") >>

SectionEvents(sec, archKey) ==
    << ScalarEv(S(sec.key)), Event("seqStart") >>
    \o FlattenSeq([j \in DOMAIN sec.items |-> ItemEvents(sec.items[j], archKey)])
    \o << Event("seqEnd") >>

DocEvents(d) ==
    << Event("docStart"), MapStartEv(d.tag) >>
    \o Opt("tbd-version", d.tbdVersion)
    \o KeyList(d.archKey, d.archs)
    \o OptList("uuids", d.uuids)
    \o Opt("platform", d.platform)
    \o KeyVal("install-name", S(d.installName))
    \o OptVer("current-version", d.curVersion)
    \o OptVer("compatibility-version", d.compatVersion)
    \o Opt("swift-abi-version", d.swift)
    \o Opt("objc-constraint", d.objc)
    \o OptList("allowable-clients", d.clients)
    \o FlattenSeq([j \in DOMAIN d.sections |-> SectionEvents(d.sections[j], d.archKey)])
    \o << Event("mapEnd"), Event("other") >>

StreamEvents(ds) ==
    << Event("other") >> \o FlattenSeq([i \in DOMAIN ds |-> DocEvents(ds[i])]) \o << Event("streamEnd") >>

Call(cpu, os, weak, ds) ==
    [op |-> "create", cpu |-> cpu, args |-> TRUE, minOS |-> os, disallowWeak |-> weak,
     docs |-> ds, events |-> StreamEvents(ds)]

\* isSupported on the text of documents ds
SupportedCall(ds) == [Call("CPU_TYPE_ANY", << 0, 0, 0 >>, FALSE, ds) EXCEPT !.op = "isSupported"]

\* create(path, ...) on a file holding documents ds
PathCall(ds) == [Call("CPU_TYPE_X86_64", << 10, 14, 2 >>, FALSE, ds) EXCEPT !.op = "createPath"]

\* a path the ifstream cannot open: its text is empty, a stream of no
\* document
Unreadable(c) == [c EXCEPT !.docs = << >>, !.events = << Event("other"), Event("streamEnd") >>]

(***************************************************************************)
(* Symbols.                                                                *)
(***************************************************************************)
Ld(action, ver, sym) == [ld |-> TRUE, action |-> action, n |-> 3, os |-> TRUE, ver |-> ver, sym |-> sym]
Target(a, p) == [text |-> a \o "-" \o p, arch |-> a, rest |-> p]

Lists(syms, classes, weak) ==
    << [key |-> "symbols", values |-> syms] >>
    \o (IF classes = << >> THEN << >> ELSE << [key |-> "objc-classes", values |-> classes] >>)
    \o (IF weak = << >> THEN << >> ELSE << [key |-> "weak-def-symbols", values |-> weak] >>)

Item(archs, lists) == [archs |-> archs, lists |-> lists]

V10_14 == << 10, 14, 0 >>

\* a v3 document for i386 and x86_64: x86_64 exports _foo, _bar, class
\* Foo and, at 10.14, hides _bar; i386 exports _old
V3Doc(archs, name) ==
    [tag |-> TapiTag("3"), tbdVersion |-> << >>, archKey |-> "archs",
     archs |-> archs, platform |-> << S("macosx") >>, installName |-> name,
     curVersion |-> << << 1, 2, 3 >> >>, compatVersion |-> << << 1, 0, 0 >> >>,
     swift |-> << [num |-> 5] >>, objc |-> << S("retain_release") >>,
     clients |-> << S("ld") >>, uuids |-> << S("x86_64: 0000") >>,
     sections |-> << [key |-> "exports",
                      items |-> << Item(<< S("x86_64") >>,
                                        Lists(<< S("_foo"), S("_bar"), Ld("hide", V10_14, S("_bar")),
                                                 Ld("weak", V10_14, S("_foo")),
                                                 Ld("install_name", V10_14, S("/usr/lib/libNew.dylib")),
                                                 Ld("compatibility_version", V10_14, [ver |-> << 2, 0 >>]),
                                                 Ld("hide", << 10, 13, 0 >>, S("_foo")),
                                                 [Ld("hide", V10_14, S("_foo")) EXCEPT !.n = 2] >>,
                                              << S("Foo") >>, << S("_wk") >>)),
                                   Item(<< S("i386") >>, Lists(<< S("_old") >>, << >>, << >>)) >>] >>]

\* a v4 document for x86_64 and arm64 macOS
V4Doc(name) ==
    [tag |-> TapiTag("none"), tbdVersion |-> << S("4") >>, archKey |-> "targets",
     archs |-> << Target("x86_64", "macos"), Target("arm64", "macos") >>, platform |-> << >>,
     installName |-> name, curVersion |-> << >>, compatVersion |-> << >>,
     swift |-> << >>, objc |-> << >>, clients |-> << >>, uuids |-> << >>,
     sections |-> << [key |-> "exports",
                      items |-> << Item(<< Target("x86_64", "macos"), Target("arm64", "macos") >>,
                                        Lists(<< S("_both") >>, << >>, << >>)),
                                   Item(<< Target("arm64", "macos") >>,
                                        Lists(<< S("_armonly"), Ld("add", V10_14, S("_new")) >>,
                                              << S("Bar") >>, << >>)) >>] >>]

\* a reexported-libraries section, as the v4 writer puts it before exports
WithReexports(d) ==
    [d EXCEPT !.sections = << [key |-> "reexported-libraries",
                               items |-> << Item(<< Target("arm64", "macos") >>,
                                                 << [key |-> "libraries",
                                                     values |-> << S("/usr/lib/libC.dylib") >>] >>) >>] >>
                           \o @]

\* a v3 document that only imports: _u, class Baz and the weak _w
UndefDoc ==
    [V3Doc(<< S("i386"), S("x86_64") >>, "/usr/lib/libU.dylib") EXCEPT
        !.sections = << [key |-> "undefineds",
                         items |-> << Item(<< S("x86_64") >>,
                                           << [key |-> "symbols", values |-> << S("_u") >>],
                                              [key |-> "objc-classes", values |-> << S("Baz") >>],
                                              [key |-> "weak-ref-symbols", values |-> << S("_w") >>] >>) >>] >>]

Cpus == {"CPU_TYPE_X86_64", "CPU_TYPE_I386", "CPU_TYPE_ARM64", "CPU_TYPE_ANY", "CPU_TYPE_MIPS"}

A == V3Doc(<< S("i386"), S("x86_64") >>, "/usr/lib/libA.dylib")

\* documents whose format version create refuses: a tag of an unknown
\* version, a bare tag with no tbd-version, a tbd-version other than 4 and
\* a tbd-version under a versioned tag; and an untagged (v1) document
BadDocs ==
    {[A EXCEPT !.tag = TapiTag("5")],
     [V4Doc("/usr/lib/libB.dylib") EXCEPT !.tbdVersion = << >>],
     [V4Doc("/usr/lib/libB.dylib") EXCEPT !.tbdVersion = << S("5") >>],
     [A EXCEPT !.tbdVersion = << S("4") >>],
     [A EXCEPT !.tag = NoTag]}

PassInputs ==
    {Call(cpu, << 10, 14, 2 >>, w, << V3Doc(<< S("i386"), S("x86_64") >>, "/usr/lib/libA.dylib") >>) :
        cpu \in Cpus, w \in BOOLEAN}
    \cup
    {Call(cpu, << 10, 14, 2 >>, FALSE, << WithReexports(V4Doc("/usr/lib/libB.dylib")) >>) : cpu \in Cpus}
    \cup
    {Call("CPU_TYPE_X86_64", << 10, 14, 2 >>, FALSE, << d >>) : d \in BadDocs \cup {UndefDoc}}
    \cup
    {SupportedCall(<< d >>) :
        d \in {A, [A EXCEPT !.platform = << >>], V4Doc("/usr/lib/libB.dylib"),
               [V4Doc("/usr/lib/libB.dylib") EXCEPT !.archs = << Target("x86_64", "tvos") >>],
               [A EXCEPT !.tag = TapiTag("5")]}}
    \cup
    {[SupportedCall(<< A >>) EXCEPT !.events = << Event("other"), Event("error") >>]}
    \cup
    {PathCall(<< A >>), PathCall(<< [A EXCEPT !.tag = TapiTag("5")] >>),
     Unreadable(PathCall(<< A >>)), Unreadable(SupportedCall(<< A >>))}
    \cup
    {[Call("CPU_TYPE_X86_64", << 10, 14, 2 >>, FALSE, << A >>) EXCEPT !.args = FALSE],
     [Call("CPU_TYPE_X86_64", << 10, 14, 2 >>, FALSE, << A >>) EXCEPT
        !.events = << Event("other"), Event("error") >>]}

(***************************************************************************)
(* parseVersion32 against the dotted-decimal reading of a version, over  *)
(* every string of one to four fields whose values sit at the edges of   *)
(* the byte and half-word ranges, and strings with fields that are empty *)
(* or hold no digits.                                                      *)
(***************************************************************************)
FieldValues == {Empty, NoDigits, 0, 14, UINT8_MAX, UINT8_MAX + 1, UINT16_MAX, UINT16_MAX + 1}
MaxFields   == 4
VersionStrings == UNION {[1..n -> FieldValues] : n \in 1..MaxFields}

\* a field that is a number of at most max
Num(f, max) == ~NoNumber(f) /\ f =< max

(***************************************************************************)
(* Three-field versions: parseVersion32 of "major.minor.patch" (and of    *)
(* longer strings, whose extra fields it ignores) packs the three numbers *)
(* when each fits its field (major 16 bits, minor and patch 8), and is 0  *)
(* when one of them does not fit: the range checks of lines 51, 63 and   *)
(* 75 against the reference reading.                                      *)
(***************************************************************************)
ThreeFieldVersions ==
    \A str \in VersionStrings :
        (Len(str) >= 3 /\ \A i \in 1..3 : ~NoNumber(str[i])) =>
            parseVersion32(str) =
                IF Num(str[1], UINT16_MAX) /\ Num(str[2], UINT8_MAX) /\ Num(str[3], UINT8_MAX)
                THEN PackedVersion32(str[1], str[2], str[3])
                ELSE Zero

(***************************************************************************)
(* Inputs on which the loader is expected to disagree with the format.   *)
(***************************************************************************)

\* a v3 file for x86_64 alone, linked for x86_64
SingleArchInputs ==
    {Call("CPU_TYPE_X86_64", << 10, 14, 2 >>, FALSE, << V3Doc(<< S("x86_64") >>, "/usr/lib/libA.dylib") >>)}

\* A, importing _u after its exports, as the v3 writer orders the sections
UndefAfterExportsInputs ==
    {Call("CPU_TYPE_X86_64", << 10, 14, 2 >>, FALSE,
          << [A EXCEPT !.sections = @ \o UndefDoc.sections] >>)}

\* a file of two documents: A and a framework it inlines
MultiDocInputs ==
    {Call("CPU_TYPE_X86_64", << 10, 14, 2 >>, FALSE,
          << A, V3Doc(<< S("i386"), S("x86_64") >>, "/usr/lib/libInner.dylib") >>)}

\* A's text, cut off by a syntax error inside its exports section
TruncatedInputs ==
    LET c == Call("CPU_TYPE_X86_64", << 10, 14, 2 >>, FALSE, << A >>)
    IN  {[c EXCEPT !.events = SubSeq(@, 1, Len(@) - 12) \o << Event("error") >>]}

\* A with current-version "1..2"
MalformedVersionInputs ==
    {Call("CPU_TYPE_X86_64", << 10, 14, 2 >>, FALSE,
          << [A EXCEPT !.curVersion = << << 1, Empty, 2 >> >>] >>)}

\* A hiding _bar at "os10.14", the way $ld$ conditions are written
TwoFieldLdInputs ==
    {Call("CPU_TYPE_X86_64", << 10, 14, 2 >>, FALSE,
          << [A EXCEPT !.sections[1].items[1].lists[1].values =
                 << S("_foo"), S("_bar"), Ld("hide", << 10, 14 >>, S("_bar")) >>] >>)}


\* the events of document d with extra inserted before its first key
\* scalar key
Before(d, key, extra) ==
    LET es == DocEvents(d)
        pos  == CHOOSE i \in DOMAIN es : es[i] = ScalarEv(S(key)) /\ \A j \in 1..(i - 1) : es[j] # es[i]
    IN  SubSeq(es, 1, pos - 1) \o extra \o SubSeq(es, pos, Len(es))

\* A with current-version and compatibility-version written before archs,
\* an order the format allows (a YAML mapping is unordered)
HeaderBeforeArchsInputs ==
    LET d == [A EXCEPT !.curVersion = << >>, !.compatVersion = << >>]
        c == Call("CPU_TYPE_X86_64", << 10, 14, 2 >>, FALSE, << A >>)
    IN  {[c EXCEPT !.events =
             << Event("other") >>
             \o Before(d, "archs", OptVer("current-version", A.curVersion)
                                  \o OptVer("compatibility-version", A.compatVersion))
             \o << Event("streamEnd") >>]}

\* a v4 document allowing the client ld on x86_64, written the way the v4
\* format writes allowable-clients: a list of mappings of targets and clients
V4ClientsInputs ==
    LET d == [V4Doc("/usr/lib/libB.dylib") EXCEPT !.clients = << S("ld") >>]
        m == << Event("seqStart"), MapStartEv(NoTag) >>
             \o KeyList("targets", << Target("x86_64", "macos") >>)
             \o KeyList("clients", d.clients)
             \o << Event("mapEnd"), Event("seqEnd") >>
        c == Call("CPU_TYPE_X86_64", << 10, 14, 2 >>, FALSE, << d >>)
    IN  {[c EXCEPT !.events =
             << Event("other") >>
             \o Before([d EXCEPT !.clients = << >>], "exports",
                       << ScalarEv(S("allowable-clients")) >> \o m)
             \o << Event("streamEnd") >>]}

\* A with no archs key (which the format requires and create does not
\* check for) and no current-version, swift-abi-version or objc-constraint
NoArchsInputs ==
    LET d == [A EXCEPT !.archs = << >>, !.curVersion = << >>, !.swift = << >>, !.objc = << >>]
        c == Call("CPU_TYPE_X86_64", << 10, 14, 2 >>, FALSE, << d >>)
        es == DocEvents(d)
        pos  == CHOOSE i \in DOMAIN es : es[i] = ScalarEv(S("archs"))
    IN  {[c EXCEPT !.events = << Event("other") >> \o SubSeq(es, 1, pos - 1)
                              \o SubSeq(es, pos + 3, Len(es)) \o << Event("streamEnd") >>]}

=============================================================================
