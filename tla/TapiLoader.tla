------------------------------ MODULE TapiLoader ------------------------------
(***************************************************************************)
(* The tapilite text-stub loader (src/tapilite/src/LinkerInterfaceFile.cpp)*)
(* as a sequential state machine: LinkerInterfaceFile::create checks its  *)
(* arguments, ImplData::loadFile consumes the libyaml event stream of a   *)
(* .tbd file one event per step, and Impl::init then walks the first      *)
(* document's symbols one per step.  isSupported runs the same loadFile  *)
(* for CPU_TYPE_ANY and reads the head document's platform.               *)
(*                                                                         *)
(* Data abstraction.  A YAML scalar is a record:                          *)
(*   [text |-> s]                   a key, arch, platform, name or symbol *)
(*   [text |-> s, arch |-> a, rest |-> r]   a target "a-r" (split at the  *)
(*                                   first '-', a has no '-')             *)
(*   [ver |-> f]                    a version string, as TapiVersion's    *)
(*                                   fields                               *)
(*   [num |-> n]                    a decimal number                      *)
(*   [ld |-> TRUE, action, n, os, ver, sym]   a symbol "$ld$action$osV$sym"*)
(*                                   with n the number of '$'-separated   *)
(*                                   fields after "$ld$" (at most 3),    *)
(*                                   os whether the condition starts with *)
(*                                   "os", ver the fields of the rest of *)
(*                                   the condition, sym the symbol-name  *)
(*                                   (a [text] or [ver] scalar)          *)
(* A mapping-start tag is [tapi, v]: tapi whether it starts with          *)
(* "!tapi-tbd", v the rest: "none" (nothing), a digit d for "-vd...", or  *)
(* "other".  A NULL tag is [tapi |-> FALSE, v |-> "none"].                *)
(***************************************************************************)
EXTENDS Integers, Sequences, SequencesExt, TapiVersion

CONSTANTS
    Inputs   \* set of [cpu, args, minOS, disallowWeak, events]

VARIABLES
    in,             \* the call: cpu type, argument validity, minOSVersion, flags, events
    pc,             \* "create", "load", "init", "prescan", "sort", "exports",
                    \* "undefineds", "inlined", "done", "error", "terminate"
    ev,             \* index of the next libyaml event
    state, substate, version, selectSection, inList,   \* loadFile's locals
    myarch,         \* getArchForCPU(cpuType, ...) in loadFile
    docs,           \* the ImplData list ret/cur: one record per document
    arch,           \* Impl::init's arch
    minOS,          \* Impl::init's minOSVersion, patch removed
    compat, installName, installPathOverride,  \* Impl fields
    ignoreExports, exports, undefineds, hasWeakDefExports, inlined,
    k               \* index of the symbol Impl::init's loops are at

loadVars == << state, substate, version, selectSection, inList, myarch, docs >>
implVars == << arch, minOS, compat, installName, installPathOverride,
               ignoreExports, exports, undefineds, hasWeakDefExports, inlined, k >>
vars == << in, pc, ev, loadVars, implVars >>

S(t) == [text |-> t]
NoName == S("")

\* the text of a scalar, or "" for one ymlcmp cannot equal a key with
TextOf(v) == IF "text" \in DOMAIN v THEN v.text ELSE ""

\* getArchForCPU (enforceCpuSubType is unused)
getArchForCPU(cpu) ==
    CASE cpu = "CPU_TYPE_I386"      -> "i386"
      [] cpu = "CPU_TYPE_X86_64"    -> "x86_64"
      [] cpu = "CPU_TYPE_ARM"       -> "arm"
      [] cpu = "CPU_TYPE_POWERPC"   -> "ppc"
      [] cpu = "CPU_TYPE_POWERPC64" -> "ppc64"
      [] cpu = "CPU_TYPE_ARM64"     -> "arm64"
      [] cpu = "CPU_TYPE_ANY"       -> ""
      [] OTHER                      -> "unsupported"

\* a freshly allocated ImplData.  Its defaulted constructor leaves
\* _currentVersion, _compatibilityVersion, _swiftABIVersion and
\* _objcConstraint uninitialised until an archs value sets them: they hold
\* whatever the allocator's memory held, here all-zero bits or the
\* pattern Unset
Unset == << -2, -2, -2 >>
Garbage ==
    {[version |-> Zero, num |-> 0, objc |-> "None"],
     [version |-> Unset, num |-> -2, objc |-> "Unset"]}
NewImplData(g) ==
    [fileType |-> "Unsupported", platform |-> "Unknown", installName |-> "",
     currentVersion |-> g.version, compatibilityVersion |-> g.version,
     swiftABIVersion |-> g.num, objcConstraint |-> g.objc,
     reexportedLibraries |-> << >>, allowableClients |-> << >>,
     exports |-> << >>, undefineds |-> << >>, arches |-> << >>, selectedArch |-> ""]

Cur == Len(docs)

(***************************************************************************)
(* The keys loadFile recognises while substate is TAPILITE_FINDKEY, per   *)
(* state: the substate a key opens, and in the header the keys that open *)
(* a section.  The if / else-if chains are lookups: a key matches at most *)
(* one entry.                                                              *)
(***************************************************************************)
HeaderSubKeys ==
    ("archs" :> "ARCHS") @@ ("targets" :> "ARCHS") @@ ("platform" :> "PLATFORM")
    @@ ("install-name" :> "INSTALLNAME") @@ ("current-version" :> "CURVERSION")
    @@ ("compatibility-version" :> "COMPATVERSION")
    @@ ("swift-version" :> "SWIFTVERSION") @@ ("swift-abi-version" :> "SWIFTVERSION")
    @@ ("objc-constraint" :> "OBJCCONSTR") @@ ("uuids" :> "UUIDS")
    @@ ("parent-umbrella" :> "PARENTUMBR") @@ ("allowable-clients" :> "ALLOWED_CLNTS")
    @@ ("flags" :> "FLAGS") @@ ("tbd-version" :> "VERSION")
HeaderSectionKeys ==
    ("exports" :> "EXPORTS") @@ ("reexported-libraries" :> "REEXPORTS")
    @@ ("undefineds" :> "UNDEFINEDS")
ExportSubKeys ==
    ("archs" :> "ARCHS") @@ ("targets" :> "ARCHS") @@ ("allowed-clients" :> "ALLOWED_CLNTS")
    @@ ("re-exports" :> "RE_EXPORTS") @@ ("libraries" :> "RE_EXPORTS")
    @@ ("symbols" :> "SYMBOLS") @@ ("objc-classes" :> "OBJCCLASSES")
    @@ ("objc-eh-types" :> "OBJCEHTYPES") @@ ("objc-ivars" :> "OBJCIVARS")
    @@ ("weak-def-symbols" :> "WEAKDEFSYMS") @@ ("weak-symbols" :> "WEAKDEFSYMS")
    @@ ("thread-local-symbols" :> "THRLOCSYMS")
UndefSubKeys ==
    ("archs" :> "ARCHS") @@ ("targets" :> "ARCHS") @@ ("symbols" :> "SYMBOLS")
    @@ ("objc-classes" :> "OBJCCLASSES") @@ ("objc-eh-types" :> "OBJCEHTYPES")
    @@ ("objc-ivars" :> "OBJCIVARS") @@ ("weak-ref-symbols" :> "WEAKDEFSYMS")
    @@ ("weak-symbols" :> "WEAKDEFSYMS")

\* the Symbol (flags, kind) a value of a symbol list becomes, per substate
ExportSymbols ==
    ("SYMBOLS" :> [flags |-> "None", kind |-> "GlobalSymbol"])
    @@ ("OBJCCLASSES" :> [flags |-> "None", kind |-> "ObjectiveCClass"])
    @@ ("OBJCEHTYPES" :> [flags |-> "None", kind |-> "ObjectiveCClassEHType"])
    @@ ("OBJCIVARS" :> [flags |-> "None", kind |-> "ObjectiveCInstanceVariable"])
    @@ ("WEAKDEFSYMS" :> [flags |-> "WeakDefined", kind |-> "GlobalSymbol"])
    @@ ("THRLOCSYMS" :> [flags |-> "ThreadLocalValue", kind |-> "GlobalSymbol"])
UndefSymbols ==
    [sub \in DOMAIN ExportSymbols \ {"THRLOCSYMS"} |->
        IF sub = "WEAKDEFSYMS" THEN [flags |-> "WeakReferenced", kind |-> "GlobalSymbol"]
        ELSE ExportSymbols[sub]]

ObjCConstraints ==
    ("none" :> "None") @@ ("retain_release" :> "Retain_Release")
    @@ ("retain_release_for_simulator" :> "Retain_Release_For_Simulator")
    @@ ("retain_release_or_gc" :> "Retain_Release_Or_GC") @@ ("gc" :> "GC")

\* the fileType an archs value records for each TAPI version
FileTypeOf == ("V1" :> "TBD_V1") @@ ("V2" :> "TBD_V2") @@ ("V3" :> "TBD_V3") @@ ("V4" :> "TBD_V4")

-----------------------------------------------------------------------------
(***************************************************************************)
(* LinkerInterfaceFile::create(path, data, size, ...): argument check,    *)
(* then loadFile's set-up.                                                 *)
(***************************************************************************)
Init ==
    /\ in \in Inputs
    /\ pc = "create"
    /\ ev = 1
    /\ state = "INIT" /\ substate = "FINDKEY" /\ version = "V1"
    /\ selectSection = FALSE /\ inList = FALSE
    /\ myarch = getArchForCPU(in.cpu)
    /\ docs = << >>
    /\ arch = "" /\ minOS = Zero /\ compat = Zero /\ installName = ""
    /\ installPathOverride = FALSE
    /\ ignoreExports = << >> /\ exports = << >> /\ undefineds = << >>
    /\ hasWeakDefExports = FALSE /\ inlined = << >> /\ k = 1

\* path.empty() || data == nullptr || size < 8
CreateInvalidArgument ==
    /\ pc = "create" /\ in.op = "create" /\ ~in.args
    /\ pc' = "error"
    /\ UNCHANGED << in, ev, loadVars, implVars >>

CreateLoad ==
    /\ pc = "create" /\ in.op = "create" /\ in.args
    /\ pc' = "load"
    /\ UNCHANGED << in, ev, loadVars, implVars >>

\* isSupported(path, data, size): loadFile for CPU_TYPE_ANY, with no
\* argument check
IsSupportedLoad ==
    /\ pc = "create" /\ in.op = "isSupported"
    /\ pc' = "load"
    /\ UNCHANGED << in, ev, loadVars, implVars >>

\* create(path, ...): the file's text, read whole through an ifstream (an
\* unreadable path reads as empty text), goes to loadFile with no argument
\* check
CreatePath ==
    /\ pc = "create" /\ in.op = "createPath"
    /\ pc' = "load"
    /\ UNCHANGED << in, ev, loadVars, implVars >>

-----------------------------------------------------------------------------
(***************************************************************************)
(* loadFile's loop: one libyaml event per step.  The first iteration     *)
(* turns TAPILITE_INIT into TAPILITE_HEADER before it looks at its event. *)
(***************************************************************************)
Ev == in.events[ev]
St == IF state = "INIT" THEN "HEADER" ELSE state

OnEvent(t) == pc = "load" /\ ev =< Len(in.events) /\ Ev.type = t

\* error(...): errorMessage set, nullptr returned, create returns nullptr
Fail == pc' = "error" /\ UNCHANGED loadVars

\* an exception out of std::stoull leaves the noexcept create: std::terminate
Terminate == pc' = "terminate" /\ UNCHANGED loadVars

\* mutant: the value closes its key even inside a list
EndValueInList == substate' = "FINDKEY"

\* the end of a value: substate is closed unless a list is open
EndValue == substate' = IF inList THEN substate ELSE "FINDKEY"

\* loop exit: "return ret", a null ret being create's failure; isSupported
\* then reads the head's platform
LoadReturn ==
    /\ pc' = IF docs = << >> THEN "error" ELSE IF in.op = "isSupported" THEN "answered" ELSE "init"
    /\ UNCHANGED << ev, substate, version, selectSection, inList, myarch, docs >>

DocumentStart ==
    /\ OnEvent("docStart")
    /\ \E g \in Garbage : docs' = Append(docs, NewImplData(g))
    /\ state' = St /\ ev' = ev + 1
    /\ UNCHANGED << in, pc, substate, version, selectSection, inList, myarch, implVars >>

StreamEnd ==
    /\ OnEvent("streamEnd")
    /\ state' = "DONE"
    /\ LoadReturn
    /\ UNCHANGED << in, implVars >>

\* yaml_parser_parse fails: break out of the loop, return what was built
ParseError ==
    /\ OnEvent("error")
    /\ state' = St
    /\ LoadReturn
    /\ UNCHANGED << in, implVars >>

\* a scalar while no key is open: the key selects a substate or a section
ScalarKey ==
    /\ OnEvent("scalar") /\ substate = "FINDKEY"
    /\ LET key  == TextOf(Ev.value)
           subs == CASE St = "HEADER" -> HeaderSubKeys
                     [] St \in {"EXPORTS", "REEXPORTS"} -> ExportSubKeys
                     [] OTHER -> UndefSubKeys
           sub  == IF key \in DOMAIN subs THEN subs[key] ELSE substate
       IN  /\ state' = IF St = "HEADER" /\ key \in DOMAIN HeaderSectionKeys
                       THEN HeaderSectionKeys[key] ELSE St
           /\ substate' = sub
           /\ selectSection' = IF sub = "ARCHS" THEN FALSE ELSE selectSection
    /\ ev' = ev + 1
    /\ UNCHANGED << in, pc, version, inList, myarch, docs, implVars >>

\* a scalar while a key is open: a value of the open key
OnValue(sts) ==
    /\ OnEvent("scalar") /\ substate # "FINDKEY" /\ St \in sts
    /\ ev' = ev + 1

\* "tbd-version": only after a bare !tapi-tbd tag, and only "4"
TbdVersionValue ==
    /\ OnValue({"HEADER"}) /\ substate = "VERSION"
    /\ IF version = "V4_OR_LATER" /\ TextOf(Ev.value) = "4"
       THEN /\ version' = "V4" /\ state' = St /\ EndValue
            /\ UNCHANGED << pc, selectSection, inList, myarch, docs >>
       ELSE Fail
    /\ UNCHANGED << in, implVars >>

\* the first archs value of a document: per-version defaults and fileType
ApplyDefaults(c) ==
    IF c.fileType # "Unsupported" THEN c
    ELSE [c EXCEPT !.currentVersion = parseVersion32(<< 1, 0 >>),
                   !.compatibilityVersion = parseVersion32(<< 1, 0 >>),
                   !.swiftABIVersion = 0,
                   !.objcConstraint = IF version = "V1" THEN "None" ELSE "Retain_Release",
                   !.fileType = FileTypeOf[version]]

\* the platform a target's part after the first '-' names (the whole text
\* when it has none: find_first_of returns npos and npos + 1 is 0)
TargetPlatform(v, c) ==
    LET p == IF "arch" \in DOMAIN v THEN v.rest ELSE v.text
    IN  CASE p = "macos" -> "OSX" [] p = "ios" -> "iOS" [] OTHER -> c.platform

\* v4: a target "myarch-..." (or any, for an empty myarch) is selected
SelectV4(c, v) ==
    IF myarch = "" \/ ("arch" \in DOMAIN v /\ v.arch = myarch)
    THEN [c EXCEPT !.selectedArch = v.text, !.platform = TargetPlatform(v, c)]
    ELSE c

\* v1-v3: "if (ymlcmp(yamlscalar.value, myarch.c_str()))" selects myarch
\* when strcmp is non-zero
SelectV3(c, v) ==
    IF myarch = "" THEN [c EXCEPT !.selectedArch = v.text]
    ELSE IF TextOf(v) # myarch THEN [c EXCEPT !.selectedArch = myarch]
    ELSE c

\* a value of the header's archs (or targets) list
ArchValue ==
    /\ OnValue({"HEADER"}) /\ substate = "ARCHS"
    /\ IF version \in {"V4_OR_LATER", "V_INVALID"} THEN Fail
       ELSE LET v  == Ev.value
                c  == [ApplyDefaults(docs[Cur]) EXCEPT !.arches = Append(@, TextOf(v))]
                c2 == IF c.selectedArch # "" THEN c
                      ELSE IF version = "V4" THEN SelectV4(c, v) ELSE SelectV3(c, v)
            IN  /\ docs' = [docs EXCEPT ![Cur] = c2]
                /\ state' = St /\ EndValue
                /\ UNCHANGED << pc, version, selectSection, inList, myarch >>
    /\ UNCHANGED << in, implVars >>

\* a version or number field: parsed, or std::terminate on an exception
SetParsed(field, val) ==
    IF val = Throw THEN Terminate
    ELSE /\ docs' = [docs EXCEPT ![Cur][field] = val]
         /\ state' = St /\ EndValue
         /\ UNCHANGED << pc, version, selectSection, inList, myarch >>

\* the other header values
HeaderFieldValue ==
    /\ OnValue({"HEADER"}) /\ substate \notin {"VERSION", "ARCHS"}
    /\ LET v == Ev.value
           t == TextOf(v)
           c == docs[Cur]
           set(field, val) ==
               /\ docs' = [docs EXCEPT ![Cur][field] = val]
               /\ state' = St /\ EndValue
               /\ UNCHANGED << pc, version, selectSection, inList, myarch >>
       IN  CASE substate = "PLATFORM" ->
                    set("platform", CASE t = "macosx" -> "OSX" [] t = "ios" -> "iOS"
                                      [] OTHER -> c.platform)
             [] substate = "INSTALLNAME" -> set("installName", t)
             [] substate \in {"CURVERSION", "COMPATVERSION"} ->
                    SetParsed(IF substate = "CURVERSION" THEN "currentVersion"
                              ELSE "compatibilityVersion",
                              parseVersion32(IF "ver" \in DOMAIN v THEN v.ver ELSE << Empty >>))
             [] substate = "SWIFTVERSION" ->
                    IF "num" \in DOMAIN v THEN set("swiftABIVersion", v.num) ELSE Terminate
             [] substate = "OBJCCONSTR" ->
                    set("objcConstraint", IF t \in DOMAIN ObjCConstraints
                                          THEN ObjCConstraints[t] ELSE c.objcConstraint)
             [] substate = "ALLOWED_CLNTS" ->
                    set("allowableClients", Append(c.allowableClients, t))
             [] OTHER ->     \* uuids, parent-umbrella, flags: ignored
                    /\ state' = St /\ EndValue
                    /\ UNCHANGED << pc, version, selectSection, inList, myarch, docs >>
    /\ UNCHANGED << in, implVars >>

\* a value inside an exports, reexported-libraries or undefineds section
SectionValue ==
    /\ OnValue({"EXPORTS", "REEXPORTS", "UNDEFINEDS"})
    /\ LET v     == Ev.value
           c     == docs[Cur]
           undef == St = "UNDEFINEDS"
           syms  == IF undef THEN UndefSymbols ELSE ExportSymbols
           list  == IF undef THEN "undefineds" ELSE "exports"
       IN  /\ selectSection' = (selectSection \/
                                (substate = "ARCHS" /\ "text" \in DOMAIN v /\ v.text = c.selectedArch))
           /\ docs' = CASE selectSection /\ substate = "RE_EXPORTS" /\ ~undef ->
                             [docs EXCEPT ![Cur].reexportedLibraries = Append(@, TextOf(v))]
                        [] selectSection /\ substate \in DOMAIN syms ->
                             [docs EXCEPT ![Cur][list] =
                                 Append(@, [name |-> v] @@ syms[substate])]
                        [] OTHER -> docs
    /\ state' = St /\ EndValue
    /\ UNCHANGED << in, pc, version, inList, myarch, implVars >>

SequenceStart ==
    /\ OnEvent("seqStart")
    /\ inList' = TRUE
    /\ state' = St /\ ev' = ev + 1
    /\ UNCHANGED << in, pc, substate, version, selectSection, myarch, docs, implVars >>

SequenceEnd ==
    /\ OnEvent("seqEnd")
    /\ substate' = "FINDKEY" /\ inList' = FALSE
    /\ state' = St /\ ev' = ev + 1
    /\ UNCHANGED << in, pc, version, selectSection, myarch, docs, implVars >>

\* the version a header mapping's tag announces
TagVersion(tag) ==
    CASE ~tag.tapi       -> version
      [] tag.v = "none"  -> "V4_OR_LATER"
      [] tag.v = "1"     -> "V1"
      [] tag.v = "2"     -> "V2"
      [] tag.v = "3"     -> "V3"
      [] tag.v = "other" -> version
      [] OTHER           -> "V_INVALID"

MappingStart ==
    /\ OnEvent("mapStart")
    /\ version' = IF St = "HEADER" THEN TagVersion(Ev.tag) ELSE version
    /\ substate' = "FINDKEY" /\ inList' = FALSE
    /\ state' = St /\ ev' = ev + 1
    /\ UNCHANGED << in, pc, selectSection, myarch, docs, implVars >>

MappingEnd ==
    /\ OnEvent("mapEnd")
    /\ inList' = FALSE
    /\ state' = St /\ ev' = ev + 1
    /\ UNCHANGED << in, pc, substate, version, selectSection, myarch, docs, implVars >>

\* stream start, document end, alias: ignored
OtherEvent ==
    /\ OnEvent("other")
    /\ state' = St /\ ev' = ev + 1
    /\ UNCHANGED << in, pc, substate, version, selectSection, inList, myarch, docs, implVars >>

-----------------------------------------------------------------------------
(***************************************************************************)
(* Impl::init on the first document (create passes ret, the head of the  *)
(* list).                                                                  *)
(***************************************************************************)
Data == docs[1]

InitStart ==
    /\ pc = "init"
    /\ arch' = getArchForCPU(in.cpu)
    /\ IF arch' = "unsupported"
       THEN pc' = "error" /\ UNCHANGED << minOS, compat, installName, k >>
       ELSE /\ compat' = Data.compatibilityVersion
            /\ installName' = Data.installName
            /\ minOS' = PackedVersion32(getMajor(in.minOS), getMinor(in.minOS), 0)
            /\ k' = 1
            /\ pc' = "prescan"
    /\ UNCHANGED << in, ev, loadVars, installPathOverride, ignoreExports, exports,
                    undefineds, hasWeakDefExports, inlined >>

ApplicationServices == "/System/Library/Frameworks/ApplicationServices.framework/Versions/A/ApplicationServices"

(***************************************************************************)
(* processSymbol(name, minOSVersion, disallowWeakImports): a             *)
(* "$ld$action$osV$symbol" name whose V parses to minOSVersion hides,    *)
(* adds, weak-hides, renames or re-versions.  Any other name, or one     *)
(* missing a '$' field, an empty symbol, a condition not starting with   *)
(* "os", or another version, changes nothing.                            *)
(***************************************************************************)
processSymbol(name, disallowWeakImports) ==
    LET applies == /\ "ld" \in DOMAIN name
                   /\ name.n = 3 /\ name.sym # NoName /\ name.os
        cond    == parseVersion32(name.ver)
        sym     == name.sym
        none    == UNCHANGED << pc, ignoreExports, exports, installName, installPathOverride, compat >>
    IN  IF ~applies THEN none
        ELSE IF cond = Throw THEN pc' = "terminate" /\ UNCHANGED << ignoreExports, exports, installName, installPathOverride, compat >>
        ELSE IF cond # minOS THEN none
        ELSE CASE name.action = "hide" ->
                    /\ ignoreExports' = Append(ignoreExports, sym)
                    /\ UNCHANGED << pc, exports, installName, installPathOverride, compat >>
               [] name.action = "add" ->
                    /\ exports' = Append(exports, [name |-> sym, flags |-> "None"])
                    /\ UNCHANGED << pc, ignoreExports, installName, installPathOverride, compat >>
               [] name.action = "weak" /\ disallowWeakImports ->
                    /\ ignoreExports' = Append(ignoreExports, sym)
                    /\ UNCHANGED << pc, exports, installName, installPathOverride, compat >>
               [] name.action = "install_name" ->
                    /\ installName' = TextOf(sym)
                    /\ installPathOverride' = TRUE
                    /\ compat' = IF TextOf(sym) = ApplicationServices
                                 THEN parseVersion32(<< 1, 0 >>) ELSE compat
                    /\ UNCHANGED << pc, ignoreExports, exports >>
               [] name.action = "compatibility_version" ->
                    LET v == parseVersion32(IF "ver" \in DOMAIN sym THEN sym.ver ELSE << Empty >>)
                    IN  IF v = Throw
                        THEN pc' = "terminate" /\ UNCHANGED << ignoreExports, exports, installName, installPathOverride, compat >>
                        ELSE compat' = v /\ UNCHANGED << pc, ignoreExports, exports, installName, installPathOverride >>
               [] OTHER -> none

\* the pre-scan for special linker symbols: one export per step
PreScan ==
    /\ pc = "prescan" /\ k =< Len(Data.exports)
    /\ IF Data.exports[k].kind = "GlobalSymbol"
       THEN processSymbol(Data.exports[k].name, in.disallowWeak)
       ELSE UNCHANGED << pc, ignoreExports, exports, installName, installPathOverride, compat >>
    /\ k' = k + 1
    /\ UNCHANGED << in, ev, loadVars, arch, minOS, undefineds, hasWeakDefExports, inlined >>

\* std::sort, std::unique and erase: the vector becomes its sorted set of
\* names, which is determined by the set
SortIgnoreExports ==
    /\ pc = "prescan" /\ k > Len(Data.exports)
    /\ ignoreExports' = ToSet(ignoreExports)
    /\ k' = 1
    /\ pc' = "exports"
    /\ UNCHANGED << in, ev, loadVars, arch, minOS, compat, installName, installPathOverride,
                    exports, undefineds, hasWeakDefExports, inlined >>

useObjC1ABI == Data.platform = "OSX" /\ arch = "i386"

\* prefix + name
Mangle(prefix, name) == S(prefix \o TextOf(name))

\* the linker-visible names of a symbol of a kind
LinkerNames(sym) ==
    CASE sym.kind = "GlobalSymbol" -> << sym.name >>
      [] sym.kind = "ObjectiveCClass" /\ useObjC1ABI -> << Mangle(".objc_class_name_", sym.name) >>
      [] sym.kind = "ObjectiveCClass" -> << Mangle("_OBJC_CLASS_$_", sym.name),
                                           Mangle("_OBJC_METACLASS_$_", sym.name) >>
      [] sym.kind = "ObjectiveCClassEHType" -> << Mangle("_OBJC_EHTYPE_$_", sym.name) >>
      [] sym.kind = "ObjectiveCInstanceVariable" -> << Mangle("_OBJC_IVAR_$_", sym.name) >>

\* addSymbol for each name: appended unless in _ignoreExports
addSymbols(names, flags) ==
    LET kept == SelectSeq(names, LAMBDA n : n \notin ignoreExports)
    IN  exports \o [i \in DOMAIN kept |-> [name |-> kept[i], flags |-> flags]]

\* one export per step; a "$ld$" global is skipped (continue)
ExportStep ==
    /\ pc = "exports" /\ k =< Len(Data.exports)
    /\ LET sym == Data.exports[k]
       IN  IF sym.kind = "GlobalSymbol" /\ "ld" \in DOMAIN sym.name
           THEN UNCHANGED << exports, hasWeakDefExports >>
           ELSE /\ exports' = addSymbols(LinkerNames(sym), sym.flags)
                /\ hasWeakDefExports' = (hasWeakDefExports \/ sym.flags = "WeakDefined")
    /\ k' = k + 1
    /\ UNCHANGED << in, pc, ev, loadVars, arch, minOS, compat, installName,
                    installPathOverride, ignoreExports, undefineds, inlined >>

ExportsDone ==
    /\ pc = "exports" /\ k > Len(Data.exports)
    /\ k' = 1 /\ pc' = "undefineds"
    /\ UNCHANGED << in, ev, loadVars, arch, minOS, compat, installName, installPathOverride,
                    ignoreExports, exports, undefineds, hasWeakDefExports, inlined >>

\* one undefined per step
UndefinedStep ==
    /\ pc = "undefineds" /\ k =< Len(Data.undefineds)
    /\ LET sym == Data.undefineds[k]
       IN  undefineds' = undefineds \o [i \in 1..Len(LinkerNames(sym)) |->
                                           [name |-> LinkerNames(sym)[i], flags |-> sym.flags]]
    /\ k' = k + 1
    /\ UNCHANGED << in, pc, ev, loadVars, arch, minOS, compat, installName,
                    installPathOverride, ignoreExports, exports, hasWeakDefExports, inlined >>

\* the install names of the further documents; init returns true
InlinedFrameworks ==
    /\ pc = "undefineds" /\ k > Len(Data.undefineds)
    /\ inlined' = [i \in 1..(Len(docs) - 1) |-> docs[i + 1].installName]
    /\ pc' = "done"
    /\ UNCHANGED << in, ev, loadVars, arch, minOS, compat, installName, installPathOverride,
                    ignoreExports, exports, undefineds, hasWeakDefExports, k >>

Terminated == pc \in {"done", "answered", "error", "terminate"}

Next ==
    \/ CreateInvalidArgument \/ CreateLoad \/ IsSupportedLoad \/ CreatePath
    \/ DocumentStart \/ StreamEnd \/ ParseError
    \/ ScalarKey \/ TbdVersionValue \/ ArchValue \/ HeaderFieldValue \/ SectionValue
    \/ SequenceStart \/ SequenceEnd \/ MappingStart \/ MappingEnd \/ OtherEvent
    \/ InitStart \/ PreScan \/ SortIgnoreExports \/ ExportStep \/ ExportsDone
    \/ UndefinedStep \/ InlinedFrameworks
    \/ (Terminated /\ UNCHANGED vars)

Spec == Init /\ [][Next]_vars /\ WF_vars(Next)

Termination == <>Terminated

-----------------------------------------------------------------------------
(***************************************************************************)
(* Refinement: create, seen through the getters of the file it returns,  *)
(* implements TapiInterface.  The file exists once init has returned true.*)
(***************************************************************************)
FileOf ==
    [fileType             |-> Data.fileType,
     platform             |-> Data.platform,
     installName          |-> installName,
     compatibilityVersion |-> compat,
     installPathOverride  |-> installPathOverride,
     swiftABIVersion      |-> Data.swiftABIVersion,
     objcConstraint       |-> Data.objcConstraint,
     allowableClients     |-> Data.allowableClients,
     currentVersion       |-> Data.currentVersion,
     exports              |-> exports,
     undefineds           |-> undefineds,
     reexportedLibraries  |-> Data.reexportedLibraries,
     ignoreExports        |-> ignoreExports,
     hasWeakDefExports    |-> hasWeakDefExports,
     inlined              |-> inlined]

\* isSupported's result: "return file && file->_platform != Platform::Unknown"
SupportedResult == [supported |-> pc = "answered" /\ docs[1].platform # "Unknown"]

Interface == INSTANCE TapiInterface
    WITH status <- CASE pc = "done" -> "created"
                     [] pc = "answered" \/ (pc = "error" /\ in.op = "isSupported") -> "answered"
                     [] pc = "error" -> "failed"
                     [] pc = "terminate" -> "crashed"
                     [] OTHER -> "pending",
         file   <- CASE pc = "done" -> FileOf
                     [] pc = "answered" \/ (pc = "error" /\ in.op = "isSupported") -> SupportedResult
                     [] OTHER -> [none |-> TRUE]

\* create implements the abstract create: every call that returns a file
\* returns the file the text-stub format describes, and every call returns
ImplementsInterface == Interface!Spec

=============================================================================
