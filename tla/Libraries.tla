----------------------------- MODULE Libraries -----------------------------
(***************************************************************************)
(* The libraries an APK packages and what they import (scanner.py,         *)
(* nativeprov.py, native.py, ndk.py, ohresolve.py).  A library is a record *)
(* of what its ELF says: abi (of its directory) and machine (the abi of    *)
(* its code), names (file, soname), exports, undefined and the weak ones   *)
(* among them, versions that it asks for, onload, the data words that hold *)
(* pointers, and the layout of its code.                                   *)
(***************************************************************************)
EXTENDS Integers, SequencesExt

CONSTANTS
  CxxInternal,  \* symbols of the C++ runtime's own linkage
  SurfaceOf,    \* the platform surface of the symbols that have one
  Costs,        \* and the cost of each surface
  Declared,     \* symbols that the NDK declares
  Budget,       \* functions that a walk of the call graph visits
  None

ExportsOf(libs) == UNION {l.exports : l \in libs}
ImportersOf(symbol, libs) == {l \in libs : symbol \in l.undefined}
StrongUndefined(libs) == UNION {l.undefined \ l.weak : l \in libs}
StrongImporters(symbol, libs) == {l \in ImportersOf(symbol, libs) : symbol \notin l.weak}

-----------------------------------------------------------------------------
(* Which of them a scan looks at *)

Matches(l) == l.abi = None \/ l.machine = None \/ l.abi = l.machine
AbiOf(l) == IF l.abi # None THEN l.abi ELSE l.machine

\* The target ABI: asked for, else the runtime's, else the bridge's only one.
TargetAbi(asked, runtime, bridge) ==
  LET inferred == {AbiOf(l) : l \in bridge} \ {None}
  IN  IF asked # None THEN asked
      ELSE IF runtime # None THEN runtime
      ELSE IF Cardinality(inferred) = 1 THEN CHOOSE a \in inferred : TRUE ELSE None

Selected(libs, target) ==
  IF target = None THEN libs ELSE {l \in libs : AbiOf(l) = target /\ Matches(l)}
SelectedOfRuntime(libs, target) ==
  IF target = None THEN libs ELSE {l \in libs : AbiOf(l) \in {None, target}}

AbiStatus(libs, target) ==
  LET available == {AbiOf(l) : l \in libs} \ {None}
  IN  IF available = {} THEN "no-packaged-native-libraries"
      ELSE IF target = None THEN "target-abi-unspecified"
      ELSE IF target \notin available THEN "target-abi-unavailable"
      ELSE IF Selected(libs, target) = {} THEN "target-abi-elf-mismatch"
      ELSE "target-abi-available"

\* Libraries harvested after a run are added, by what is new in them.
WithUnpacked(packaged, harvested) ==
  packaged \cup {[harvested[i] EXCEPT !.origin = "unpacked"] : i \in
    {j \in DOMAIN harvested :
       /\ harvested[j].elf /\ \A p \in packaged : p.sha # harvested[j].sha
       /\ \A k \in 1 .. j - 1 : harvested[k].elf => harvested[k].sha # harvested[j].sha}}

-----------------------------------------------------------------------------
(* recover_jni_registration_entries(): a name, a descriptor and a function in *)
(* three pointers on end, after relocation.                                   *)

Relocated(l, slot) == IF slot \in DOMAIN l.relocations THEN l.relocations[slot] ELSE l.data[slot]

RegistrationEntries(l) ==
  LET at(i) == Relocated(l, i)
  IN  {[name |-> at(i).of, sig |-> at(i + 1).of, start |-> at(i + 2).of] : i \in
         {j \in 1 .. Len(l.data) - 2 : at(j).is = "name" /\ at(j + 1).is = "sig" /\ at(j + 2).is = "code"}}

-----------------------------------------------------------------------------
(* resolve_native_imports(): one record per symbol that is imported.          *)

ImportState_WeakToo(symbol, libs, provided, indexed) ==
  IF symbol \in provided THEN "provider-resolved"
  ELSE IF symbol \in CxxInternal THEN "cxx-runtime-internal"
  ELSE IF ~indexed THEN "runtime-system-index-unavailable" ELSE "no-provider"
ImportState(symbol, libs, provided, indexed) ==
  IF symbol \in provided THEN "provider-resolved"
  ELSE IF StrongImporters(symbol, libs) = {} THEN "weak-undefined-unresolved"
  ELSE IF symbol \in CxxInternal THEN "cxx-runtime-internal"
  ELSE IF ~indexed THEN "runtime-system-index-unavailable" ELSE "no-provider"

ClassOf == [state \in {"provider-resolved", "weak-undefined-unresolved", "cxx-runtime-internal",
                       "runtime-system-index-unavailable", "no-provider"} |->
  CASE state = "provider-resolved" -> "C0" [] state = "weak-undefined-unresolved" -> "N-C5-candidate"
    [] state = "no-provider" -> "N-C1-candidate" [] OTHER -> "CU"]

\* The system's definition is preferred to the bridge's, and that to the app's own.
ProviderScope(symbol, apk, bridge, system) ==
  IF symbol \in system THEN "PLATFORM_SYSTEM"
  ELSE IF symbol \in bridge THEN "PLATFORM_BRIDGE"
  ELSE IF symbol \in apk THEN "APP_BUNDLED" ELSE None

Imports(libs, bridge, system) ==
  LET apk == ExportsOf(libs)  b == ExportsOf(bridge)  s == ExportsOf(system)
  IN  {LET state == ImportState(symbol, libs, apk \cup b \cup s, system # {})
       IN  [symbol |-> symbol, state |-> state, class |-> ClassOf[state],
            scope |-> ProviderScope(symbol, apk, b, s),
            importers |-> ImportersOf(symbol, libs),
            surface |-> IF symbol \in DOMAIN SurfaceOf THEN SurfaceOf[symbol] ELSE None] :
         symbol \in UNION {l.undefined : l \in libs}}

-----------------------------------------------------------------------------
(* ohresolve.resolve(): the same imports against the board's exports, with the *)
(* versions each is defined under (None in a library without versions).        *)

Wanted(symbol, libs) == {l.versions[symbol] : l \in {k \in libs : symbol \in DOMAIN k.versions}}
VersionsOf(symbol, board) ==
  {IF symbol \in DOMAIN l.defines THEN l.defines[symbol] ELSE None :
     l \in {k \in board : symbol \in k.exports}}

\* Backup copies beside the libraries are not what the process loads.
Live(board) == {l \in board : ~l.variant}
OfTarget(libs, target) == IF target = None THEN libs ELSE {l \in libs : AbiOf(l) = target}

\* No definition under the version asked for, and none without versions.
AtOtherVersion(symbol, libs, board) ==
  /\ None \notin VersionsOf(symbol, board) /\ Wanted(symbol, libs) # {}
  /\ ~ (Wanted(symbol, libs) \subseteq VersionsOf(symbol, board))

Missing(libs, board, target) ==
  LET elfs == OfTarget(libs, target)
  IN  {s \in StrongUndefined(elfs) \ ExportsOf(elfs) :
         s \in ExportsOf(Live(board)) => AtOtherVersion(s, elfs, Live(board))}

WeakMissing(libs, board, target) ==
  LET elfs == OfTarget(libs, target)
  IN  (UNION {l.weak : l \in elfs} \cap Declared) \ (ExportsOf(elfs) \cup ExportsOf(Live(board)))

\* Imports versioned against one of the app's own libraries that bind to the board's.
VersionedClashes(libs, board, target) ==
  LET elfs == OfTarget(libs, target)
      clashes(l) == {s \in DOMAIN l.versions : /\ l.versions[s] \in {k.name : k \in elfs}
                                             /\ None \in VersionsOf(s, Live(board))}
  IN  UNION {{<<s, l.versions[s]>> : s \in clashes(l)} : l \in elfs}

\* ndk.coverage(): where each symbol of the NDK is supplied.
Coverage(board, staged) ==
  [s \in Declared |-> IF s \in ExportsOf(board) THEN "oh"
                      ELSE IF s \in ExportsOf(Live(staged)) THEN "westlake" ELSE "missing"]

-----------------------------------------------------------------------------
(* method_surface_reach(): the imports that a registered method gets to.  The  *)
(* code's layout: functions (where each really starts), bl and b (branches,    *)
(* from and to), stubs (PLT entries, by the import).                           *)

RegisteredStarts(l) == {e.start : e \in RegistrationEntries(l)}
Entries(l) == {c[2] : c \in l.bl} \cup DOMAIN l.stubs \cup RegisteredStarts(l)
EntryOf(address, entries) ==
  LET before == {e \in entries : e <= address} IN IF before = {} THEN None ELSE Max(before)

\* A branch to an entry is a tail call; a call belongs to the last entry before it.
CallGraph(l, entries) ==
  {c \in {<<EntryOf(e[1], entries), e[2]>> : e \in l.bl \cup {t \in l.b : t[2] \in entries}} :
     c[1] # None /\ c[1] # c[2]}

Visit(s, l, graph) ==
  IF s.left = {} THEN s
  ELSE LET a == Min(s.left)  seen == s.seen \cup {a}
           next == IF a \in DOMAIN l.stubs THEN {} ELSE {c[2] : c \in {d \in graph : d[1] = a}}
       IN  [seen |-> seen, left |-> (s.left \cup next) \ seen]

Reached(l, start, graph) ==
  FoldLeft(LAMBDA s, n : Visit(s, l, graph), [seen |-> {}, left |-> {start}], [n \in 1 .. Budget |-> n])

Surfaces(symbols) == {SurfaceOf[s] : s \in symbols \cap DOMAIN SurfaceOf}
MethodReach(l, entry) ==
  LET walk == Reached(l, entry.start, CallGraph(l, Entries(l)))
      imports == {l.stubs[a] : a \in walk.seen \cap DOMAIN l.stubs}
  IN  [name |-> entry.name, imports |-> imports, truncated |-> walk.left # {},
       coupled |-> \/ entry.sig.platform
                   \/ \E s \in Surfaces(imports) : Costs[s] = "platform",
       dynamic |-> "dynamic-load" \in Surfaces(imports)]

\* attribute_unresolved_imports(): for arm64 only.
ReachingMethods(l, symbol) ==
  IF l.machine # "arm64" THEN {}
  ELSE {e.name : e \in {f \in RegistrationEntries(l) : symbol \in MethodReach(l, f).imports}}

-----------------------------------------------------------------------------
(* What strings show *)

\* Names that a library looks up instead of importing them.
Lookups(l, names) == (l.strings \cap names) \ l.undefined
VmLookup(l, name) ==
  IF name \in l.exports THEN None
  ELSE IF name \in l.undefined THEN "import" ELSE IF name \in l.strings THEN "by-name" ELSE None
RuntimeSymbolCandidates(l, shaped) == (l.strings \cap shaped) \ (l.exports \cup l.undefined)
DynamicSymbolCandidates(l) ==
  {s \in l.strings \cap DOMAIN SurfaceOf : Costs[SurfaceOf[s]] \notin {"portable", "blind"}}

\* A component is in a library by its banner or enough symbols of it, or linked against.
ComponentRelation(c, l) ==
  LET enough(symbols) == c.minimum > 0 /\ Cardinality(c.symbols \cap symbols) >= c.minimum
  IN  IF c.banner \in l.strings \/ enough(l.exports) THEN "contains"
      ELSE IF enough(l.undefined) THEN "links-against" ELSE None

\* compare_runtime_capture(): what a run registered against what the scan recovered.
Capture(rows, libs) ==
  LET registered(r) == {<<r.lib, m>> : m \in r.methods}
      runtime == UNION {registered(r) : r \in rows}
      static == UNION {{<<l.name, e.name>> : e \in RegistrationEntries(l)} : l \in libs}
  IN  [runtimeOnly |-> runtime \ static, staticOnly |-> static \ runtime,
       absent |-> {m[1] : m \in runtime} \ {l.name : l \in libs},
       opaque |-> ({m[1] : m \in runtime} \cap {l.name : l \in libs}) \ {m[1] : m \in static}]
=============================================================================
