------------------------------ MODULE LoadRows ------------------------------
(***************************************************************************)
(* How an app's libraries are loaded on OpenHarmony (gapmap.py             *)
(* native_loading_rows and after): which of them the board's own libraries *)
(* shadow, which are routed to the Android namespace to avoid it, and the  *)
(* arguments that a row gives the launcher.                                *)
(***************************************************************************)
EXTENDS NativeRows

CONSTANTS
  SearchedFirst,  \* names of the board's libraries that are found before the app's
  NamespaceLibs,  \* libraries the Android namespace has of its own
  RuntimeLibs     \* the runtime's libraries, as Libraries has them

Target == "--android-native-target"   NetTarget == "--android-native-net-target"
NetAppLibraries == "--android-native-net-app-libraries"

-----------------------------------------------------------------------------
(* The graph of what needs what is by SONAME, but the launcher routes files. *)

\* What is in start, and whatever needs it: the least set that holds both.
Complete(T, nodes, needs) == \A x \in nodes : needs[x] \cap T # {} => x \in T
Dependents(start, nodes, needs) ==
  {x \in nodes : \A T \in SUBSET nodes : (start \subseteq T /\ Complete(T, nodes, needs)) => x \in T}

\* A file's own name first, else the first of the APK with the SONAME.
FileOf_Soname(name) == name
FileOf(name) ==
  LET with == {l \in Packaged : l.name = name}
  IN  IF name \in Files(Packaged) \/ with = {} THEN name
      ELSE (CHOOSE l \in with : \A k \in with : l.at <= k.at).file

NeededBy == [n \in NamesOf(Packaged) |-> UNION {l.needed : l \in {k \in Packaged : k.name = n}}]
Shadowed == NamesOf(Packaged) \cap SearchedFirst
ShadowTargets == Dependents(Shadowed, NamesOf(Packaged), NeededBy)

\* packaged_dependents: the same by file, after the names are made files.
FilesNeeded(file) == {FileOf(n) : n \in UNION {l.needed : l \in {k \in Packaged : k.file = file}}}
PackagedDependents_Direct(files) == files \cap Files(Packaged)
PackagedDependents(files) ==
  Dependents(files \cap Files(Packaged), Files(Packaged), [f \in Files(Packaged) |-> FilesNeeded(f)])

-----------------------------------------------------------------------------
(* native_loading_rows *)

Loader == "webview_bionic_shim"   Launcher == "probe_source_app"
CanRoute == Target \in Text(S, Launcher)
CanRouteNet == NetTarget \in Text(S, Launcher)

ShadowRows ==
  {Row("native-loading", <<"load", "shadowed-by-board">>, "missing", IF CanRoute THEN "XS" ELSE "M") :
     s \in IF Shadowed # {} THEN {TRUE} ELSE {}}
  \cup Ruled("native-loading", <<"ns", "assets">>,
             Shadowed # {} /\ \E l \in Importing(Elfs, {"AAssetManager_fromJava", "AAssetManager_open"}) : l.name \in ShadowTargets,
             Claim("libwestlake_asset_bridge" \in tree.libs), "S")

Resolvers == Importing(Packaged, {"getaddrinfo"})
AddrinfoRows ==
  {[r EXCEPT !.effort = IF CanRouteNet THEN "XS" ELSE "M"] :
     r \in Ruled("native-loading", <<"abi", "addrinfo">>, Resolvers # {}, Claim(CanRouteNet), "M")}
FunopenRows == Ruled("native-loading", <<"abi", "funopen">>, Importing(Elfs, {"funopen"}) # {},
  Claim("setvbuf(_IONBF)" \in Text(S, Loader)), "S")
InApkRows == Ruled("native-loading", <<"load", "in-apk">>, ~app.extracts /\ Packaged # {},
  Claim("extract_libraries" \in Text(S, "prepare_app")), "S")

\* SoLoader opens members of an APK itself, so what the launcher mends in a file it does not see.
ApkMemberRows == Ruled("native-loading", <<"load", "apk-member">>,
  app.soloader /\ \E l \in Marked(Packaged, "split") : l.marks \cap {"relocations", "null-init"} # {},
  Claim(".apk!/lib/" \in Text(S, Loader)), "S")
NeededSiblingRows == Ruled("native-loading", <<"load", "needed-sibling">>,
  \E l \in Packaged : l.name \in app.loadLibrary /\ l.needed \cap (NamesOf(Packaged) \ {l.name}) # {},
  Claim("westlake_open_lib_by_name" \in Text(S, Loader)), "S")
PackedInitRows == Ruled("native-loading", <<"load", "packed-init-array">>,
  \E l \in Marked(Packaged, "packed-init") :
     l.name \in app.loadLibrary \/ l.name \notin UNION {k.needed : k \in Packaged},
  Claim("case DT_ANDROID_RELA" \in Text(S, "link_stubs_arm64")), "XS")

\* Libraries written at run time that need packaged ones get second copies, unless they are shared.
Chaquopy == {"libchaquopy_java", "libpython"} \subseteq Files(Packaged)
WrittenNeedsPackaged == Chaquopy \/ UNION {l.needed : l \in Unpacked} \cap NamesOf(Packaged) # {}
WrittenNeedsRows == Ruled("native-loading", <<"load", "written-needs-packaged">>,
  WrittenNeedsPackaged, Claim("westlake_shared_with_default" \in Text(S, Loader)), "S")
LoadsWritten == app.soloader \/ app.pathLoads \/ Unpacked # {}
AppStorageRows == Ruled("native-loading", <<"load", "app-storage-exec">>,
  LoadsWritten, Claim("westlake_load_from_code_cache" \in Text(S, Loader)), "M")

\* The launcher mends files it stages; what is written later is past it.
NullConstructorRows ==
  Ruled("native-loading", <<"load", "null-constructors">>, Marked(Elfs, "null-init") # {},
        Claim("init_array_sanitized" \in Text(S, Launcher) /\ Marked(Unpacked, "null-init") = {}),
        IF Marked(Unpacked, "null-init") = {} THEN "XS" ELSE "S")
RelocationRows ==
  LET all == NamesOf(Marked(Elfs, "relocations"))   written == NamesOf(Marked(Unpacked, "relocations"))
      staged == Cardinality(written) < Cardinality(all)
  IN  Ruled("native-loading", <<"load", "android-relocations">>, all # {},
            Claim(/\ staged => "android_relr_retagged" \in Text(S, Launcher)
                  /\ written # {} => "wl_write_loadable_copy" \in Text(S, "android_relocs")), "S")

NativeLoadingRows ==
  ShadowRows \cup AddrinfoRows \cup FunopenRows \cup InApkRows \cup ApkMemberRows \cup NeededSiblingRows
  \cup PackedInitRows \cup WrittenNeedsRows \cup AppStorageRows \cup NullConstructorRows \cup RelocationRows

NeededLibraryRows ==
  LET provided == NamesOf(Elfs) \cup Files(Elfs) \cup NamesOf(BoardLibs) \cup tree.libs \cup StagedLibraries(S)
                  \cup {"libc", "libm", "libdl", "ld-android"}
      missing == UNION {l.needed : l \in Elfs} \ provided
  IN  {Row("native-loading", <<"load", "needed-missing">>, "missing",
           IF missing \cap {"libmediandk", "libGLESv1_CM", "libcamera2ndk", "libaaudio"} # {} THEN "L" ELSE "M") :
         n \in IF missing = {} THEN {} ELSE {TRUE}}

\* ART's stub says that libraries of some names were loaded, and loads nothing.
SilentlyLoaded(names) ==
  {n \in names : \E part \in Body(S, "openjdk_stub", "Runtime_nativeLoad") : <<part, n>> \in PartOf}
SilentLoadRows ==
  {Row("native-loading", <<"load", "silent-success">>, "hollow", "S") : n \in SilentlyLoaded(NamesOf(Elfs))}
\* The runtime's own libraries: the provider's, whatever the app.
RuntimeSilentRows ==
  {Row("native-loading", <<"load", "runtime-silent-success">>, "unresolved", "verify") : n \in SilentlyLoaded(tree.libs)}

-----------------------------------------------------------------------------
(* The arguments that a row gives the launcher *)

Args(flag, files) ==
  LET order == SetToSeq(files)
  IN  [i \in 1 .. 2 * Len(order) |-> IF i % 2 = 1 THEN flag ELSE order[i \div 2]]
Zipped(args) == {<<args[2 * i - 1], args[2 * i]>> : i \in 1 .. Len(args) \div 2}

LoadingArgs(id) ==
  CASE id = <<"load", "shadowed-by-board">> -> Args(Target, {FileOf(n) : n \in ShadowTargets})
    [] id = <<"abi", "addrinfo">> -> Args(NetTarget, Files(Resolvers))
    [] id = <<"load", "app-storage-exec">> -> <<NetAppLibraries>>
    [] OTHER -> <<>>

IdsOf(rows) == {r.id : r \in rows}
RoutedBy(rows) == {p[2] : p \in {p \in UNION {Zipped(LoadingArgs(id)) : id \in IdsOf(rows)} : p[1] = Target}}

-----------------------------------------------------------------------------
(* interposition_rows: what the runtime exports too binds to the runtime's copy. *)

OwnExports(l) == {s \in l.exports : s # "JNI_OnLoad" /\ s \notin tree.jniNames}
Interposed(l) == FoldSet(LAMBDA r, n : n + Cardinality(OwnExports(l) \cap r.exports), 0, RuntimeLibs) >= 3
Hits == Files({l \in Elfs : Interposed(l)})

Exposed(rows) == Hits \ RoutedBy(rows)
InterpositionTargets(rows) ==
  IF CanRoute /\ <<"load", "written-needs-packaged">> \notin IdsOf(rows)
  THEN PackagedDependents(Exposed(rows)) \ RoutedBy(rows) ELSE {}
InterpositionRows(rows) ==
  Ruled("native-loading", <<"load", "interposed-by-runtime">>, Hits # {},
        Claim(Exposed(rows) \subseteq InterpositionTargets(rows)), "S")

\* launch_args: the pairs of every row.
RowArgs(rows, id) ==
  IF id = <<"load", "interposed-by-runtime">> THEN Args(Target, InterpositionTargets(rows)) ELSE LoadingArgs(id)
LaunchPairs(rows, all) == UNION {Zipped(RowArgs(rows, id)) : id \in IdsOf(all)}
UnpackagedTargets(pairs) ==
  {p[2] : p \in {p \in pairs : p[1] \in {Target, NetTarget}}} \ Files(Packaged)

-----------------------------------------------------------------------------
(* android_namespace_rows: what the namespace's library lacks of the NDK that *)
(* the runtime's library of the name, with those it needs, defines.           *)

RuntimeClosure(name) ==
  LET named == [l \in NamesOf(RuntimeLibs) |-> UNION {k.needed : k \in {k \in RuntimeLibs : k.name = l}}]
      grown[n \in 0 .. Cardinality(RuntimeLibs)] ==
        IF n = 0 THEN {name} ELSE grown[n - 1] \cup (UNION {named[l] : l \in grown[n - 1]} \cap DOMAIN named)
  IN  ExportsOf({l \in RuntimeLibs : l.name \in grown[Cardinality(RuntimeLibs)]})

Unreachable(lib) ==
  (RuntimeClosure(lib.name) \cap {s \in DOMAIN Ndk : Ndk[s].library = lib.name}) \ (lib.exports \cup ExportsOf(Elfs))

\* Its users there: those routed, or all that an app which writes libraries may load.
NamespaceUsers(lib, targets, writes) ==
  {l \in Elfs : /\ lib.name \in l.needed
                /\ targets # {} /\ ~writes => {l.name, l.file} \cap targets # {}}
AndroidNamespaceRows(targets, writes) ==
  UNION {LET imported == UNION {l.undefined : l \in NamespaceUsers(lib, targets, writes)} \cap Unreachable(lib)
         IN  {IF Open(imported) = {} THEN Row("native-symbols", <<"load:android-namespace-ndk", lib.name>>, "supplied", "none")
              ELSE Row("native-symbols", <<"load:android-namespace-ndk", lib.name>>, "missing", "XS") :
                n \in IF imported = {} \/ ~(targets # {} \/ writes) THEN {} ELSE {TRUE}} :
           lib \in {l \in NamespaceLibs : l.name \in NamesOf(RuntimeLibs)}}
=============================================================================
