----------------------------- MODULE NativeRows -----------------------------
(***************************************************************************)
(* The rows of a gap map that native code decides (gapmap.py): the symbols *)
(* packaged libraries import, what they rely on of bionic's ABI, the       *)
(* natives of the framework, and what the runtime registers.               *)
(*                                                                         *)
(* A library has, beside what Libraries reads of it, needed (names it asks *)
(* the loader for), at (its place in the APK), candidates (names it may    *)
(* look up) and marks: the traits the scan found in its code.              *)
(***************************************************************************)
EXTENDS FrameworkRows, Libraries

CONSTANTS
  BoardLibs,     \* the board's libraries, as Libraries has them
  Staged,        \* the libraries Westlake ships beside them
  Ndk,           \* symbol -> [library, group, weld, manifest] of the NDK's model
  NdkLibraries, WeldEffort,
  PartOf,        \* <<part, name>>: library names that hold a shorter name
  Policy,        \* kind of object -> [allowed, fixable] for an app on OpenHarmony
  PolicyImports, \* symbol -> the kind of object it makes
  Sdks,          \* known dependencies: [id, marker, firebase]
  EnvSdks,       \* [id, marker] of SDKs that look at their surroundings
  Runtime,       \* the runtime: class -> [natives, calls], as indexed
  Registers,     \* natives its libraries' tables register, by name and signature alone
  JniExports,    \* and those they export, as <<class, name>>
  Strings_       \* classes and natives whose names they hold

Elfs == OfTarget(app.libs, app.target)
Packaged == {l \in Elfs : l.origin # "unpacked"}
Unpacked == Elfs \ Packaged
\* Libraries of any ABI, of which the code is the directory's.
Loadable == {l \in app.libs : Matches(l)}

NamesOf(libs) == {l.name : l \in libs}
Files(libs) == {l.file : l \in libs}
Marked(libs, mark) == {l \in libs : mark \in l.marks}
Importing(libs, symbols) == {l \in libs : l.undefined \cap symbols # {}}
Exports == ShimExports(S)

-----------------------------------------------------------------------------
(* ndk_symbol_rows: an import that the board does not define, by what would supply it. *)

Unresolved == Missing(app.libs, BoardLibs, app.target)
VersionMismatched == Unresolved \cap ExportsOf(Live(BoardLibs))
Open(symbols) == symbols \ Exports

\* What every library that asks for the symbol needs and nobody ships.
Unshipped(symbol) ==
  LET users == StrongImporters(symbol, Elfs)
  IN  {n \in UNION {l.needed : l \in users} \ (NamesOf(Elfs) \cup NdkLibraries) : \A l \in users : n \in l.needed}

NdkGroup(symbol) ==
  IF symbol \notin DOMAIN Ndk
  THEN IF Unshipped(symbol) # {} THEN <<"unshipped-library", Unshipped(symbol)>> ELSE <<"libc-abi", {}>>
  ELSE IF Coverage(BoardLibs, Staged)[symbol] # "missing" THEN <<"now-provided", {}>>
  ELSE <<Ndk[symbol].group, Ndk[symbol].weld>>

\* The cost of a group's open symbols: a bionic shim, an AOSP build, a weld or none.
NdkRow(group, symbols) ==
  LET Of_(verdict, effort) == Row("native-symbols", <<"ndk:group", group>>, verdict, effort)
      shimmed == Open(symbols) = {}
  IN  CASE group[1] = "unshipped-library" -> Of_("missing", "verify")
        [] group[1] = "libc-abi" -> IF shimmed THEN Of_("supplied", "none") ELSE Of_("missing", "S")
        [] group[1] = "package" -> Of_("missing", IF \A s \in symbols : Ndk[s].manifest THEN "XS" ELSE "S")
        [] group[1] = "weld" -> IF shimmed THEN Of_("supplied", "none") ELSE Of_("missing", WeldEffort[group[2]])
        [] group[1] = "now-provided" -> Of_("supplied", "none")
        [] OTHER -> Of_("absent", "XS")

NdkSymbols(group) == {s \in Unresolved \ VersionMismatched : NdkGroup(s) = group}
NdkSymbolRows ==
  {NdkRow(g, NdkSymbols(g)) : g \in {NdkGroup(s) : s \in Unresolved \ VersionMismatched}}

\* native_symbol_rows, where the NDK was not measured: by the surface each is declared in.
SurfaceRows ==
  LET Surface(s) == IF s \in DOMAIN Ndk THEN Ndk[s].library ELSE "bionic libc"
      symbols == Unresolved \ VersionMismatched
      row(surface, open) ==
        IF open = {} THEN Row("native-symbols", <<"sym", surface>>, "supplied", "none")
        ELSE Row("native-symbols", <<"sym", surface>>, "missing",
                 IF surface = "libandroid" THEN Size(Cardinality(open), "S", "M", "L") ELSE "S")
  IN  {row(f, Open({s \in symbols : Surface(s) = f})) : f \in {Surface(s) : s \in symbols}}

-----------------------------------------------------------------------------
(* Symbols that bind, or are looked up, otherwise. *)

WeakApi == WeakMissing(app.libs, BoardLibs, app.target)
WeakApiRows == Ruled("native-symbols", <<"ndk", "weak-api">>, WeakApi # {}, Claim(Open(WeakApi) = {}), "S")
SymbolVersionRows ==
  {Row("native-symbols", <<"abi", "symbol-version">>, "missing", "XS") : s \in VersionMismatched}

\* A clash is closed by a definition under its version in the shim.
Clashes == VersionedClashes(app.libs, BoardLibs, app.target)
VersionedClashRows ==
  Ruled("native-symbols", <<"abi", "versioned-import-clash">>, Clashes # {}, Claim(Clashes \subseteq tree.versions), "S")

\* Names looked up that the NDK has and the board does not, but in a library the shim answers for.
LookedUp(l) ==
  {s \in l.candidates \cap DOMAIN Ndk :
     /\ Coverage(BoardLibs, Staged)[s] # "oh"
     /\ ~(Ndk[s].library \in AnsweredLibraries(S) /\ s \in Exports)}
RuntimeResolvedRows ==
  {Row("native-symbols", <<"sym:runtime-resolved", library>>, "unresolved",
       Size(Cardinality({s \in UNION {LookedUp(l) : l \in Elfs} : Ndk[s].library = library}), "S", "M", "L")) :
     library \in {Ndk[s].library : s \in UNION {LookedUp(l) : l \in Elfs}}}

VmLookupRows == Ruled("native-loading", <<"jni", "created-vms">>,
  Marked(Loadable, "vm-lookup") # {}, Claim("JNI_GetCreatedJavaVMs" \in Exports), "XS")

-----------------------------------------------------------------------------
(* Windows, from native code *)

NativeWindowRows ==
  Ruled("window", <<"egl", "by-handle">>, Marked(Loadable, "egl-lookup") # {}, Claim(EglByHandle(S)), "S")
  \cup Ruled("window", <<"gl", "gles3-by-handle">>, Marked(Loadable, "gles3-lookup") # {},
             Claim(Gles3Answered(tree.dlopen)), "XS")
  \cup Ruled("window", <<"window", "buffers-geometry">>,
             Importing(Loadable, {"ANativeWindow_setBuffersGeometry"}) # {}, Claim(GeometryTranslated(S)), "S")
  \cup Ruled("window", <<"egl", "native-window">>, Importing(Loadable, {"eglCreateWindowSurface"}) # {},
             Claim(EglUnwraps(S)), "S")

SoftwareCanvasRows ==
  LET java == CallsAnyOf({"SurfaceHolder", "Surface"}, {"lockCanvas"})
      native == Importing(Loadable, {"ANativeWindow_lock"}) # {}
  IN  Ruled("window", <<"window", "software-canvas">>, java \/ native,
            Claim((java => CanvasFromJava(S)) /\ (native => CanvasFromNative(S))), "S")

\* An engine draws on a surface of its own, which the adapter and a framework patch give it.
Engines == {"libgdx", "libflutter", "libSDL2", "libunity", "libmain", "libcocos2dcpp"}
FocusGated == {"libSDL2", "libSDL3", "libcocos2dcpp"}
OwnSurface == "attachSurfaceView" \in Text(S, Session) /\ tree.surfacePatch
FocusGroup == "instanceof SurfaceViewWindow" \in Text(S, "WindowCallbackBridge") /\ "new SurfaceViewWindow" \in Text(S, Session)
EngineSurfaceRows ==
  LET engines == NamesOf(Elfs) \cap Engines
      asked == engines # {} \/ app.nativeActivity \/ CallsAny("GLSurfaceView", {"setRenderer"})
  IN  Ruled("window", <<"window", "engine-surface">>, asked, Claim(OwnSurface), "L")
      \cup Ruled("window", <<"window", "surfaceview-focus">>,
                 asked /\ OwnSurface /\ (NamesOf(Elfs) \cap FocusGated # {} \/ app.focusGated), Claim(FocusGroup), "S")
      \cup Ruled("window", <<"window", "surfaceview-opacity">>, asked /\ OwnSurface /\ engines # {},
                 Claim("SetSurfaceBufferOpaque" \in Text(S, "oh_window_manager_client")), "S")
WallpaperRows == {Row("window", <<"wm", "show-wallpaper">>, "missing", "S") : a \in app.wallpapers}

-----------------------------------------------------------------------------
(* bionic's ABI *)

\* Callers that the shim's translation must know: those packaged, and those written at run time.
ScopeCovers(scope, users) ==
  "packaged" \in scope /\ (users \cap Unpacked # {} => "written" \in scope)

LibcConstantRows ==
  LET users == Importing(Elfs, Range(LibcConstantCalls))
      used == UNION {l.undefined \cap Range(LibcConstantCalls) : l \in users}
  IN  Ruled("native-symbols", <<"libc", "constant-namespace">>, users # {},
            Claim(/\ ConstantScope(S) = "packaged-libraries" /\ used \subseteq Range(ConstantsTranslated(S))
                  /\ ScopeCovers(CallerScope(S), users)), "S")

SignalRows ==
  LET users == Importing(Elfs, SignalCalls)   lookups == Marked(Elfs, "signal-lookup")
  IN  Ruled("native-symbols", <<"abi", "signal">>, users \cup lookups # {},
            Claim(/\ UNION {l.undefined \cap SignalCalls : l \in users} \subseteq SignalTranslated(S)
                  /\ ScopeCovers(CallerScope(S), users)
                  /\ lookups # {} => SignalByName(S)), "S")

StaticMutexRows == Ruled("native-symbols", <<"abi", "static-mutex-init">>,
  Marked(Elfs, "static-mutex") # {}, Claim(StaticMutexLocks \subseteq MutexAdopted(S)), "S")
BionicTlsRows == {Row("native-symbols", <<"abi", "bionic-tls-slots">>, "missing", "L") : l \in Marked(Elfs, "tls-slot")}
ThreadHandleRows == Ruled("native-symbols", <<"abi", "thread-handle-order">>,
  Marked(Elfs, "thread-handle") # {}, Claim(ThreadStartOrdered(S)), "S")
PasswdRows == Ruled("native-symbols", <<"abi", "passwd-group-static-result">>, Importing(Elfs, PasswdLookups) # {},
  Claim(UNION {l.undefined : l \in Elfs} \cap PasswdLookups \subseteq PasswdPerThread(S)), "S")
InterfaceIndexRows == Ruled("native-symbols", <<"abi", "interface-index">>,
  \/ CallsAny("NetworkInterface", {"getNetworkInterfaces", "networkInterfaces", "getByName", "getByIndex", "getByInetAddress"})
  \/ Importing(Elfs, {"if_nametoindex", "if_indextoname"}) # {}, Claim(InterfaceIndexed(S)), "S")
ArtInternalRows == {Row("native-symbols", <<"art", "internals">>, "unverified", "L") : l \in Marked(Elfs, "art-internals")}

-----------------------------------------------------------------------------
(* Keys, shells, policy, other software *)

LegacyKeypairRows == Ruled("security", <<"jca", "legacy-keypair-spec">>,
  \E c \in app.calls : c[1] \in {"KeyPairGeneratorSpec", "KeyPairGeneratorSpec.Builder"}, Claim(LegacySpecAccepted(S)), "XS")
ShellRows == {Row("platform", <<"os", "shell">>, "missing", "L") : m \in app.markers \cap {"libsu"}}

\* The key store Android installs, one that replaces it, and others by name.
AndroidJca == {"AndroidKeyStore", "AndroidKeyStoreBCWorkaround"}
NamedJca == {r \in app.jca : r.provider \in AndroidJca \/ r.keystore \in AndroidJca}
SecurityRows ==
  IF NamedJca = {} THEN {}
  ELSE {IF KeystoreReplaced(S) \/ (KeystoreInstalled(S) /\ KeystoreBacked(S))
        THEN Row("security", <<"jca", "AndroidKeyStore">>, "supplied", "verify")
        ELSE Row("security", <<"jca", "AndroidKeyStore">>, IF KeystoreInstalled(S) THEN "hollow" ELSE "missing", "M")}
       \cup UNION {Ruled("security", <<"jca", name>>, TRUE, Claim(RegisteredProvider(S, name)), "S") :
                     name \in {r.provider : r \in NamedJca} \ {"AndroidKeyStore", ""}}

\* Objects that an app may not make on OpenHarmony.
JavaObjects == {<<"Os", "mkfifo", "fifo_file">>, <<"Os", "symlink", "lnk_file">>, <<"Files", "createSymbolicLink", "lnk_file">>}
ObjectsMade ==
  {PolicyImports[s] : s \in DOMAIN PolicyImports \cap UNION {l.undefined : l \in Elfs}}
  \cup {j[3] : j \in {j \in JavaObjects : <<j[1], j[2]>> \in app.calls}}
SandboxRows ==
  {Row("sandbox-policy", <<"policy", o>>, "denied", IF Policy[o].fixable THEN "OH" ELSE "M") :
     o \in {o \in ObjectsMade \cap DOMAIN Policy : ~Policy[o].allowed}}

ExternalRows ==
  {Row("external-deps", <<"dep", d.id>>, IF d.firebase THEN "partial" ELSE "absent", IF d.firebase THEN "verify" ELSE "M") :
     d \in {d \in Sdks : d.marker \in app.sdkMarkers}}
  \cup {Row("external-deps", <<"env", e.id>>,
            IF e.marker \in RefusedLibraries(S) THEN "refused" ELSE "environment-sensitive", "verify") :
          e \in {e \in EnvSdks : e.marker \in NamesOf(Elfs) \cup {c.name : c \in Range(app.components)}}}

RuntimeDataMembers ==
  [tzdata |-> {"ZoneId", "ZonedDateTime", "OffsetDateTime", "ZoneRulesProvider", "ZoneRules"} \X {"any"},
   icu |-> ({"Locale"} \X {"getDisplayName", "getDisplayLanguage", "getDisplayCountry", "getDisplayVariant", "getDisplayScript"})
           \cup ({"ULocale"} \X {"getDisplayName", "getDisplayLanguage", "getDisplayCountry"})]
DataMembers(d) == {c \in app.calls : c \in RuntimeDataMembers[d] \/ <<c[1], "any">> \in RuntimeDataMembers[d]}
RuntimeDataRows ==
  {Row("runtime-data", <<"data", d>>, "missing", "S") :
     d \in {d \in DOMAIN RuntimeDataMembers : DataMembers(d) # {}}}

-----------------------------------------------------------------------------
(* framework_native_rows: natives of platform classes that nothing registers. *)

Libcore(class) == Runtime[class].libcore
Bound(class, n) ==
  IF Libcore(class) THEN n \in Registers \/ <<class, n>> \in JniExports ELSE {class, n} \subseteq Strings_
UnboundOf(class) == {n \in Runtime[class].natives : ~Bound(class, n) /\ n \notin Runtime[class].unimplemented}

CalledOf(class) == {c[2] : c \in {c \in app.calls : c[1] = class}}
\* A native is reached by a wrapper the app calls, by the class behind a channel or a buffer,
\* and a libcore native also as the method of its name less the 0.
Behind == [SocketChannel |-> {"Net", "IOUtil"}, Selector |-> {"PollArrayWrapper", "IOUtil"}, ByteBuffer |-> {"Memory"}]
ReachedNatives(class) ==
  {n \in UnboundOf(class) :
     \/ \E c \in app.calls : c[1] \in DOMAIN Runtime /\ <<c[2], class, n>> \in Runtime[c[1]].calls
     \/ \E p \in DOMAIN Behind : class \in Behind[p] /\ CalledOf(p) # {}
     \/ Libcore(class) /\ \E m \in CalledOf(class) : <<m, n>> \in Runtime[class].zeroed}
InitNatives(class) == UnboundOf(class) \cap {"nativeInit", "native_init", "nativeClassInit"}

NativeGap(class) ==
  \/ UnboundOf(class) \cap CalledOf(class) # {} \/ ReachedNatives(class) # {}
  \/ CalledOf(class) # {} /\ InitNatives(class) # {}
  \/ /\ UnboundOf(class) = Runtime[class].natives /\ UnboundOf(class) # {}
     /\ CalledOf(class) # {} /\ ~Libcore(class)
FrameworkNativeRows ==
  {LET n == Cardinality(UnboundOf(c))
   IN  Row("framework-natives", <<"jni", c>>, "missing", IF n <= 5 THEN "S" ELSE IF n <= 40 THEN "M" ELSE "L") :
     c \in {c \in DOMAIN Runtime : NativeGap(c)}}

\* Natives that the platform itself runs for every app: rows of the provider.
LifecycleMethods ==
  [ActivityThread |-> {"handle", "perform", "main", "attach"}, ViewRootImpl |-> {"perform", "draw", "setView"},
   Choreographer |-> {"doFrame"}, Activity |-> {"perform"}]
LifecycleNativeRows ==
  LET reached == UNION {{<<c[2], c[3]>> : c \in {c \in Runtime[e].calls : c[1] \in LifecycleMethods[e]}} :
                          e \in DOMAIN LifecycleMethods \cap DOMAIN Runtime}
  IN  {Row("framework-natives", <<"jni-lifecycle", t>>, "missing", "S") :
         t \in {t \in reached : t[2] \notin Registers /\ ~({t[1], t[2]} \subseteq Strings_)}}

\* native_upcall_rows: what a library looks up by name in the framework.
UpcallRows ==
  {LET In(state) == {u \in l.upcalls : u.state = state}
       missing == In("missing")   hollow == In("hollow") \cup {u \in In("hollow-candidate") : u.shape = "hollowed"}
       open == {u \in In("hollow-candidate") : u.shape = "unknown"}
       RowAs(verdict, effort) == Row("native-upcalls", <<"upcall", l.name>>, verdict, effort)
   IN  IF missing # {} THEN RowAs("missing", Size(Cardinality(missing), "S", "M", "L"))
       ELSE IF hollow # {} THEN RowAs("hollow", Size(Cardinality(hollow), "S", "M", "L"))
       ELSE IF open # {} THEN RowAs("hollow-candidate", "verify")
       ELSE IF In("unknown") # {} THEN RowAs("unresolved", "verify") ELSE RowAs("supplied", "none") :
     l \in {l \in app.libs : l.upcalls # {}}}
=============================================================================
