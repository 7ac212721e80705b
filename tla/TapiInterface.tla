---------------------------- MODULE TapiInterface ----------------------------
(***************************************************************************)
(* What LinkerInterfaceFile::create promises, as one atomic step: from the*)
(* documents of a .tbd file, the cpu type, the minimum OS version and the *)
(* flags, either no file, or the interface file its getters describe.    *)
(*                                                                         *)
(* The file is read the way the text-stub format defines it, document by *)
(* document, not event by event: the first listed arch (v1-v3) or target *)
(* (v4) that matches the cpu type is selected ("return the first one that *)
(* matches the cpu specification", loadFile's comment); the symbols are  *)
(* those of the export-side sections (exports, reexported-libraries) and  *)
(* of undefineds whose arch list names the selection; "$ld$" symbols of  *)
(* the first document whose condition is the minimum OS version (patch   *)
(* removed) hide, add, weak-hide and rename; ObjC classes, eh-types and   *)
(* ivars get their linker names; versions are dotted decimals.            *)
(*                                                                         *)
(* isSupported answers whether the text is a text stub (it loads) whose *)
(* first document names a platform.                                       *)
(*                                                                         *)
(* Documents and scalars are those of TapiLoader's inputs.                *)
(***************************************************************************)
EXTENDS Integers, Sequences, SequencesExt, TapiVersion

CONSTANTS Inputs

VARIABLES in, status, file

absVars == << in, status, file >>

NoFile == [none |-> TRUE]

Text(v) == IF "text" \in DOMAIN v THEN v.text ELSE ""

CpuArch(cpu) ==
    CASE cpu = "CPU_TYPE_I386"      -> "i386"
      [] cpu = "CPU_TYPE_X86_64"    -> "x86_64"
      [] cpu = "CPU_TYPE_ARM"       -> "arm"
      [] cpu = "CPU_TYPE_POWERPC"   -> "ppc"
      [] cpu = "CPU_TYPE_POWERPC64" -> "ppc64"
      [] cpu = "CPU_TYPE_ARM64"     -> "arm64"
      [] cpu = "CPU_TYPE_ANY"       -> ""
      [] OTHER                      -> "unsupported"

\* the format version a document's tag and tbd-version declare
DocVersion(d) ==
    CASE d.tag.tapi /\ d.tag.v = "none" /\ d.tbdVersion = << [text |-> "4"] >> -> "V4"
      [] d.tbdVersion # << >> -> "invalid"
      [] d.tag.tapi /\ d.tag.v \in {"1", "2", "3"} -> "V" \o d.tag.v
      [] ~d.tag.tapi \/ d.tag.v = "other" -> "V1"
      [] OTHER -> "invalid"

\* a dotted version "a.b.c": missing fields are 0
Dotted(f) == PackedVersion32(f[1], IF Len(f) >= 2 THEN f[2] ELSE 0, IF Len(f) >= 3 THEN f[3] ELSE 0)

\* the arch or target of d that the cpu type selects, or ""
Selected(d, cpu) ==
    LET m       == CpuArch(cpu)
        matches == SelectSeq(d.archs, LAMBDA a : m = "" \/ (IF DocVersion(d) = "V4"
                                                          THEN "arch" \in DOMAIN a /\ a.arch = m
                                                          ELSE Text(a) = m))
    IN  IF matches = << >> THEN "" ELSE Text(matches[1])

\* the platform of document d with selection sel: that of the selected
\* target (v4) or of the platform key
PlatformOf(d, sel) ==
    IF DocVersion(d) = "V4"
    THEN LET t == SelectSeq(d.archs, LAMBDA a : Text(a) = sel)
         IN  IF t # << >> /\ "rest" \in DOMAIN t[1] /\ t[1].rest = "macos" THEN "OSX"
             ELSE IF t # << >> /\ "rest" \in DOMAIN t[1] /\ t[1].rest = "ios" THEN "iOS"
             ELSE "Unknown"
    ELSE IF d.platform = << [text |-> "macosx"] >> THEN "OSX"
    ELSE IF d.platform = << [text |-> "ios"] >> THEN "iOS" ELSE "Unknown"

\* the values of the lists named by keys, in the items of the sections
\* named by skeys that list the selection sel
Listed(d, sel, skeys, keys) ==
    LET secs  == SelectSeq(d.sections, LAMBDA s : s.key \in skeys)
        items == FlattenSeq([i \in DOMAIN secs |-> secs[i].items])
        chosen == SelectSeq(items, LAMBDA it : sel # "" /\ \E j \in DOMAIN it.archs : Text(it.archs[j]) = sel)
        lists == SelectSeq(FlattenSeq([i \in DOMAIN chosen |-> chosen[i].lists]), LAMBDA l : l.key \in keys)
    IN  FlattenSeq([i \in DOMAIN lists |-> [j \in DOMAIN lists[i].values |->
                                             [name |-> lists[i].values[j], key |-> lists[i].key]]])

ExportSide == {"exports", "reexported-libraries"}

\* the flags and kind each symbol-list key gives
KeyFlags(key, undef) ==
    CASE key \in {"weak-def-symbols", "weak-symbols"} /\ ~undef -> "WeakDefined"
      [] key \in {"weak-ref-symbols", "weak-symbols"} /\ undef -> "WeakReferenced"
      [] key = "thread-local-symbols" -> "ThreadLocalValue"
      [] OTHER -> "None"
KeyKind(key) ==
    CASE key = "objc-classes"  -> "ObjectiveCClass"
      [] key = "objc-eh-types" -> "ObjectiveCClassEHType"
      [] key = "objc-ivars"    -> "ObjectiveCInstanceVariable"
      [] OTHER                 -> "GlobalSymbol"

ExportKeys == {"symbols", "objc-classes", "objc-eh-types", "objc-ivars", "weak-def-symbols",
               "weak-symbols", "thread-local-symbols"}
UndefKeys  == {"symbols", "objc-classes", "objc-eh-types", "objc-ivars", "weak-ref-symbols",
               "weak-symbols"}

IsLd(n) == "ld" \in DOMAIN n

ObjCConstraintNames ==
    [n \in {"none", "retain_release", "retain_release_for_simulator", "retain_release_or_gc", "gc"} |->
        CASE n = "none" -> "None" [] n = "retain_release" -> "Retain_Release"
          [] n = "retain_release_for_simulator" -> "Retain_Release_For_Simulator"
          [] n = "retain_release_or_gc" -> "Retain_Release_Or_GC" [] OTHER -> "GC"]

AppServices == "/System/Library/Frameworks/ApplicationServices.framework/Versions/A/ApplicationServices"

\* the linker names of a listed symbol
NamesOf(e, objc1) ==
    LET pre(p) == [text |-> p \o Text(e.name)]
    IN  CASE KeyKind(e.key) = "ObjectiveCClass" /\ objc1 -> << pre(".objc_class_name_") >>
          [] KeyKind(e.key) = "ObjectiveCClass" -> << pre("_OBJC_CLASS_$_"), pre("_OBJC_METACLASS_$_") >>
          [] KeyKind(e.key) = "ObjectiveCClassEHType" -> << pre("_OBJC_EHTYPE_$_") >>
          [] KeyKind(e.key) = "ObjectiveCInstanceVariable" -> << pre("_OBJC_IVAR_$_") >>
          [] OTHER -> << e.name >>

\* the symbols list es as the linker sees them, with their flags
Linked(es, objc1, undef) ==
    FlattenSeq([i \in DOMAIN es |-> [j \in DOMAIN NamesOf(es[i], objc1) |->
                    [name |-> NamesOf(es[i], objc1)[j], flags |-> KeyFlags(es[i].key, undef)]]])

(***************************************************************************)
(* The interface file of call c.                                           *)
(***************************************************************************)
Intended(c) ==
    LET d      == c.docs[1]
        sel    == Selected(d, c.cpu)
        plat   == PlatformOf(d, sel)
        objc1  == plat = "OSX" /\ CpuArch(c.cpu) = "i386"
        exps   == Listed(d, sel, ExportSide, ExportKeys)
        undefs == Listed(d, sel, {"undefineds"}, UndefKeys)
        os     == PackedVersion32(getMajor(c.minOS), getMinor(c.minOS), 0)
        ld     == SelectSeq(exps, LAMBDA e : /\ KeyKind(e.key) = "GlobalSymbol" /\ IsLd(e.name)
                                             /\ e.name.n = 3 /\ e.name.os
                                             /\ e.name.sym # [text |-> ""]
                                             /\ Dotted(e.name.ver) = os)
        acts(a) == SelectSeq(ld, LAMBDA e : e.name.action = a)
        hidden == {acts("hide")[i].name.sym : i \in DOMAIN acts("hide")}
                  \cup (IF c.disallowWeak THEN {acts("weak")[i].name.sym : i \in DOMAIN acts("weak")}
                        ELSE {})
        added  == [i \in DOMAIN acts("add") |-> [name |-> acts("add")[i].name.sym, flags |-> "None"]]
        plain  == SelectSeq(exps, LAMBDA e : ~(KeyKind(e.key) = "GlobalSymbol" /\ IsLd(e.name)))
        rename == acts("install_name")
        \* install_name and compatibility_version, in the order listed
        names  == FoldLeft(LAMBDA acc, e :
                      IF e.name.action = "install_name"
                      THEN [acc EXCEPT !.installName = Text(e.name.sym),
                                       !.compat = IF Text(e.name.sym) = AppServices
                                                  THEN PackedVersion32(1, 0, 0) ELSE @]
                      ELSE IF e.name.action = "compatibility_version" /\ "ver" \in DOMAIN e.name.sym
                      THEN [acc EXCEPT !.compat = Dotted(e.name.sym.ver)]
                      ELSE acc,
                      [installName |-> d.installName,
                       compat |-> IF d.compatVersion = << >> THEN PackedVersion32(1, 0, 0)
                                  ELSE Dotted(d.compatVersion[1])], ld)
        libs   == Listed(d, sel, ExportSide, {"re-exports", "libraries"})
    IN  [fileType            |-> "TBD_" \o DocVersion(d),
         platform            |-> plat,
         installName         |-> names.installName,
         compatibilityVersion |-> names.compat,
         installPathOverride |-> rename # << >>,
         swiftABIVersion     |-> IF d.swift = << >> THEN 0 ELSE d.swift[1].num,
         objcConstraint      |-> IF d.objc # << >> /\ Text(d.objc[1]) \in DOMAIN ObjCConstraintNames
                                 THEN ObjCConstraintNames[Text(d.objc[1])]
                                 ELSE IF DocVersion(d) = "V1" THEN "None" ELSE "Retain_Release",
         allowableClients    |-> [i \in DOMAIN d.clients |-> Text(d.clients[i])],
         currentVersion      |-> IF d.curVersion = << >> THEN PackedVersion32(1, 0, 0)
                                 ELSE Dotted(d.curVersion[1]),
         exports             |-> added \o SelectSeq(Linked(plain, objc1, FALSE),
                                                    LAMBDA s : s.name \notin hidden),
         undefineds          |-> Linked(undefs, objc1, TRUE),
         reexportedLibraries |-> [i \in DOMAIN libs |-> Text(libs[i].name)],
         ignoreExports       |-> hidden,
         hasWeakDefExports   |-> \E i \in DOMAIN plain : KeyFlags(plain[i].key, FALSE) = "WeakDefined",
         inlined             |-> [i \in 1..(Len(c.docs) - 1) |-> c.docs[i + 1].installName]]

\* the text is not YAML: libyaml reports an error somewhere in it
Malformed(c) == \E i \in DOMAIN c.events : c.events[i].type = "error"

\* a dotted version the format cannot hold: a field of text that is no
\* number, or nothing between two dots
BadVersion(f) ==
    Len(f) > 1 /\ \E i \in DOMAIN f : f[i] = NoDigits \/ (f[i] = Empty /\ i < Len(f))

\* the text is no text stub: it holds no document, it is not YAML, a
\* document declares an unknown format version, or the first holds a
\* malformed version
LoadFails(c) ==
    \/ c.docs = << >>
    \/ Malformed(c)
    \/ \E i \in DOMAIN c.docs[1].curVersion : BadVersion(c.docs[1].curVersion[i])
    \/ \E i \in DOMAIN c.docs : DocVersion(c.docs[i]) = "invalid"

\* create returns no file: bad arguments (only the buffer form checks
\* them), an unsupported cpu type, or a text that is no text stub
Fails(c) == (c.op = "create" /\ ~c.args) \/ CpuArch(c.cpu) = "unsupported" \/ LoadFails(c)

\* isSupported: the text is a text stub whose first document names a
\* platform (for any cpu type, so the first arch or target is selected)
Supported(c) ==
    ~LoadFails(c) /\ PlatformOf(c.docs[1], Selected(c.docs[1], "CPU_TYPE_ANY")) # "Unknown"

Init ==
    /\ in \in Inputs
    /\ status = "pending"
    /\ file = NoFile

Create ==
    /\ status = "pending"
    /\ in.op \in {"create", "createPath"}
    /\ IF Fails(in)
       THEN status' = "failed" /\ file' = NoFile
       ELSE status' = "created" /\ file' = Intended(in)
    /\ UNCHANGED in

\* isSupported(path, data, size) answers whether the text is a stub it
\* supports
IsSupported ==
    /\ status = "pending"
    /\ in.op = "isSupported"
    /\ status' = "answered" /\ file' = [supported |-> Supported(in)]
    /\ UNCHANGED in

\* the call returns.  Create or IsSupported is enabled exactly while the
\* status is pending, so this is what weak fairness on them asserts, stated
\* without ENABLED
Returns == <>(status # "pending")

Spec == Init /\ [][Create \/ IsSupported]_absVars /\ Returns

=============================================================================
