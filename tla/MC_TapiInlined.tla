--------------------------- MODULE MC_TapiInlined ---------------------------
(***************************************************************************)
(* An umbrella .tbd of three documents: the umbrella and two frameworks  *)
(* it inlines, under distinct install names.                              *)
(***************************************************************************)
EXTENDS TapiInlined

MCN == 3
MCInstallNames == << "/usr/lib/libSystem.B.dylib", "/usr/lib/system/libsystem_c.dylib",
                     "/usr/lib/system/libsystem_kernel.dylib" >>
MCNames == {MCInstallNames[2], MCInstallNames[3]}
MCMaxFiles == 4

=============================================================================
