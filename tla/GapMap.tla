------------------------------- MODULE GapMap -------------------------------
(***************************************************************************)
(* The gap map of an app (gapmap.py build_map): every row the builders     *)
(* give, what the launcher is told, and what the probe suite measured and  *)
(* a recorded run touched, laid over them.  Westlake's tree goes on being  *)
(* edited and committed, the suite measures it, and the map is built again *)
(* at any time from what there is.                                         *)
(***************************************************************************)
EXTENDS LoadRows

CONSTANTS
  Apps,        \* scans of apps, as the modules of the rows read them
  Trees,       \* Westlake's tree as it may be at first
  Traces,      \* method traces of a run as it begins,
  TraceMethods, TraceThreads, \* what it samples, on which threads,
  MaxSamples,  \* and how often (bound)
  Heads,       \* commits of Westlake, in the order they are made: texts
  Fixes,       \* <<file, method, word>>: what an edit puts into the source
  Contracts,   \* ids of the rows that a contract of the suite decides
  Documents,   \* results as they may be at first, written by hand
  MaxResults,  \* places for results in the document (bound)
  Blockers,    \* known blockers: the rows that would have predicted each, in order
  NativeLibs   \* libraries that a run may load

\* An APK packages finitely many libraries, each at its place; the document has a last result.
ASSUME GapAssumption ==
  /\ \A a \in Apps : IsFiniteSet(a.libs) /\ \A l \in a.libs : l.at \in Nat
  /\ MaxResults \in Nat

\* A commit is a text of letters; that of an edited tree has one more before them.
Letters == {"dirty-"} \cup UNION {Range(h) : h \in Range(Heads)}

\* A commit is a hash: one is as long as another, and none begins as that of an edited tree.
\* A tree may be no checkout.  What is written by hand gives less than a whole commit.
ASSUME CommitAssumption ==
  /\ Heads \in Seq(Seq(Letters))
  /\ \A h, k \in Range(Heads) : h # <<>> /\ Len(h) = Len(k) /\ h[1] # "dirty-"
  /\ \A t \in Trees : t.head \in Range(Heads) \cup {<<>>}
  /\ \A d \in Documents : \A r \in d :
       /\ r.at \in 1 .. MaxResults /\ r.row = IF r.probe \in Contracts THEN r.probe ELSE <<>>
       /\ \A h \in Range(Heads) : ~IsPrefix(h, r.commit)

VARIABLES
  results,     \* the probe suite's document: its results, each at its place
  loaded,      \* libraries of the app that the recorded run loaded
  built        \* the map that was built last

gapVars == <<app, tree, results, loaded, built, samples>>
None_ == [rows |-> {}, provider |-> {}, pairs |-> {}, head |-> <<>>, gaps |-> {}, onPath |-> {}, predicted |-> <<>>]

-----------------------------------------------------------------------------
(* build_map: the rows *)

StaticRows ==
  JavaApiRows \cup ServiceRows(app) \cup DeviceIdentifierRows(app) \cup PackageManagerRows \cup AmDefaultRows
  \cup UserServiceRows(app) \cup ActivityManagerRows \cup WindowRows \cup EngineSurfaceRows \cup WallpaperRows
  \cup RuntimeDataRows \cup AndroidPathRows \cup UsesLibraryRows \cup FrameworkNativeRows \cup UpcallRows
  \cup (IF Ndk = <<>> THEN SurfaceRows ELSE NdkSymbolRows)
  \cup WeakApiRows \cup VmLookupRows \cup SymbolVersionRows \cup VersionedClashRows
  \cup TaskRootRows \cup OwnIntentRows \cup ExternalIntentRows \cup PostCreateRows \cup PermissionRequestRows
  \cup ActivityResultRows \cup LaunchLifecycleRows \cup RecreateRows \cup HostPermissionRows \cup CeStorageRows
  \cup FeatureRows \cup VulkanFeatureRows \cup NativeWindowRows \cup SoftwareCanvasRows \cup SqliteCollationRows
  \cup NativeLoadingRows \cup NioRows \cup ArtInternalRows \cup NeededLibraryRows \cup LibcConstantRows \cup SignalRows
  \cup StaticMutexRows \cup ThreadHandleRows \cup PasswdRows \cup InterfaceIndexRows \cup LegacyKeypairRows \cup ShellRows
  \cup BionicTlsRows \cup SecurityRows \cup WebviewRows \cup SilentLoadRows \cup StubNativeRows \cup RuntimeResolvedRows
  \cup SandboxRows \cup ExternalRows

\* What the runtime interposes is routed first: the namespace's rows look at the libraries routed.
Routed(rows) == RoutedBy(rows) \cup (IF Hits = {} THEN {} ELSE InterpositionTargets(rows))
BuiltRows(rows) ==
  rows \cup InterpositionRows(rows)
  \cup AndroidNamespaceRows(Routed(rows), <<"load", "app-storage-exec">> \in IdsOf(rows))

-----------------------------------------------------------------------------
(* apply_probe_results: a result counts where one of the two commits starts with *)
(* the other.                                                                     *)

\* run_suite.py and the map read the commit differently: only the suite's says "dirty-".
Measured == IF tree.dirty /\ tree.head # <<>> THEN <<"dirty-">> \o tree.head ELSE tree.head
SameBuild_Any(result) == TRUE
SameBuild(result) ==
  tree.head # <<>> /\ (IsPrefix(tree.head, result.commit) \/ IsPrefix(result.commit, tree.head))

ProbeOf ==
  ("pm" :> [x \in {"component-metadata"} |-> "service-metadata"] @@ "am" :> [x \in {"process-table"} |-> "running-app-processes"]
   @@ "wm" :> [x \in {"dialog-stacking", "window-placement", "dim-behind"} |-> "dialog-before-window"]
   @@ "wv" :> [x \in {"renderer-process"} |-> "webview-boundaries"]
   @@ "abi" :> [x \in {"funopen"} |-> "runtime-answers"] @@ "load" :> [x \in {"app-storage-exec"} |-> "runtime-answers"])
Probed(id) == id[1] \in DOMAIN ProbeOf /\ id[2] \in DOMAIN ProbeOf[id[1]]

\* A contract's result for the row, else its probe's; the last that counts.
LastResult(found) == CHOOSE r \in found : \A q \in found : q.at <= r.at
ResultOf(id) ==
  LET contract == {r \in results : r.row = id /\ SameBuild(r)}
      probe == {r \in results : Probed(id) /\ r.probe = <<ProbeOf[id[1]][id[2]]>> /\ SameBuild(r)}
  IN  IF contract # {} THEN LastResult(contract) ELSE IF probe # {} THEN LastResult(probe) ELSE <<>>

-----------------------------------------------------------------------------
(* apply_observed: which rows the recorded run touched *)

RanNow == AppRan(SampledMethods(samples))
TouchedNow == Touched(SampledMethods(samples))
RanClasses == {m[1] : m \in SampledMethods(samples)}

MemberTouched(f) ==
  CASE f.kind = "existence_probe" -> f.sites \cap RanNow # {}
    [] f.kind = "missing_class" -> \E m \in TouchedNow : m[1] = f.owner
    [] OTHER -> <<f.owner, f.name>> \in TouchedNow

\* The libraries that a row of native code says ask for it.
ImportingLibraries(id) ==
  CASE id[1] = "ndk:group" -> NamesOf(Importing(Elfs, NdkSymbols(id[2])))
    [] id[1] = "sym:runtime-resolved" -> NamesOf({l \in Elfs : \E s \in LookedUp(l) : Ndk[s].library = id[2]})
    [] id[1] = "load:android-namespace-ndk" -> NamesOf({l \in Elfs : id[2] \in l.needed})
    [] OTHER -> {}

OnPath(row) ==
  LET id == row.id   calls(class, names) == \E n \in names : <<class, n>> \in TouchedNow
  IN  CASE row.category = "java-api" ->
             \E f \in app.findings : id = <<"java", AreaOf[f.owner]>> /\ ~SharedWithAndroid(f) /\ MemberTouched(f)
        [] row.category = "system-services" ->
             /\ id[1] = "svc" /\ id[2] \in Registered
             /\ \/ \E r \in app.requests : id[2] \in Asked(r) /\ r.by \in RanNow
                \/ Contract(id[2]).manager \in RanClasses
        [] row.category = "package-manager" ->
             IF id[1] = "pm:call" THEN calls("PackageManager", {id[2]})
             ELSE id = <<"pm", "component-metadata">> =>
                    calls("PackageManager", {"getServiceInfo", "getActivityInfo", "getProviderInfo", "getReceiverInfo"})
        [] row.category = "app-framework" ->
             IF id = <<"am", "process-table">> THEN calls("ActivityManager", DOMAIN ProcessTable) ELSE calls("Dialog", {"show"})
        [] row.category = "window" ->
             \/ "SurfaceView" \in {m[1] : m \in {m \in TouchedNow : Touch(SampledMethods(samples), m) = "executed"}}
             \/ id[1] = "window" /\ id[2] \in {"engine-surface", "surfaceview-focus", "surfaceview-opacity"}
                /\ loaded \cap (IF id[2] = "surfaceview-focus" THEN FocusGated ELSE Engines) # {}
        [] row.category = "runtime-data" ->
             id[1] = "data" /\ \E m \in DataMembers(id[2]) \cap TouchedNow : Touch(SampledMethods(samples), m) = "executed"
        [] row.category = "framework-natives" -> id[2] \in RanClasses
        [] row.category = "native-upcalls" -> id[2] \in loaded
        [] row.category = "native-loading" -> loaded # {}
        [] row.category = "sandbox-policy" ->
             id[1] = "policy" /\ \E l \in Elfs : l.name \in loaded /\ \E s \in DOMAIN PolicyImports \cap l.undefined :
                                                   PolicyImports[s] = id[2]
        [] row.category = "native-symbols" -> ImportingLibraries(id) \cap loaded # {}
        [] row.category = "external-deps" -> \E m \in RanNow : m[1] = id[2]
        [] OTHER -> FALSE

\* A row as it stands when both were laid over it.
WithResult(row) ==
  LET r == ResultOf(row.id)
      contract == r # <<>> /\ r.row = row.id
      trusted == {"supplied", "unverified"} \cup IF contract THEN {"hollow-candidate"} ELSE {}
      free == {"verify"} \cup IF contract THEN {"none"} ELSE {}
      mark(verdict, effort) ==
        [category |-> row.category, id |-> row.id, verdict |-> row.verdict, effort |-> row.effort,
         measured |-> r # <<>>, now |-> [verdict |-> verdict, effort |-> effort], onPath |-> OnPath(row)]
  IN  IF r = <<>> THEN mark(row.verdict, row.effort)
      ELSE IF contract /\ r.outcome = "absent" THEN mark("absent", "none")
      ELSE IF r.outcome = "passed" THEN mark("supplied", "none")
      ELSE mark(IF row.verdict \in trusted THEN "missing" ELSE row.verdict, IF row.effort \in free THEN "M" ELSE row.effort)

-----------------------------------------------------------------------------
(* backtest, markdown: what a map is read for *)

HardGaps == {"missing", "null", "inert", "hollow", "strict", "denied", "stub", "absent"}
BlockerOutcome(rows, blocker) ==
  LET at == SelectInSeq(blocker, LAMBDA id : id \in IdsOf(rows))
  IN  IF at = 0 THEN {"missed: no row"}
      ELSE {IF r.now.verdict \in HardGaps THEN "predicted"
            ELSE IF r.now.verdict = "supplied" THEN "missed: row claimed supplied" ELSE "flagged for verification" :
              r \in {r \in rows : r.id = blocker[at]}}

Categories ==
  {"java-api", "system-services", "security", "package-manager", "app-framework", "window", "runtime-data",
   "framework-natives", "native-upcalls", "native-symbols", "native-loading", "sandbox-policy", "external-deps"}
GapsOf(rows, category) ==
  {r \in rows : r.category = category /\ r.now.verdict # "supplied" /\ r.now.effort # "none"}
Summary(rows) == UNION {GapsOf(rows, c) : c \in Categories}
GapsOnPath(rows) == {r \in rows : r.now.verdict # "supplied" /\ r.now.effort # "none" /\ r.onPath}
Backtest(rows) == [i \in DOMAIN Blockers |-> BlockerOutcome(rows, Blockers[i])]

Reported(rows, pairs) ==
  [rows |-> rows, provider |-> LifecycleNativeRows \cup RuntimeSilentRows, pairs |-> pairs, head |-> tree.head,
   gaps |-> IdsOf(Summary(rows)), onPath |-> IdsOf(GapsOnPath(rows)), predicted |-> Backtest(rows)]
Map(static, rows) == Reported({WithResult(row) : row \in rows}, LaunchPairs(static, rows))

-----------------------------------------------------------------------------
GapInit ==
  /\ app \in Apps /\ tree \in Trees /\ ExecutedInit(Traces)
  /\ results \in Documents /\ loaded = {} /\ built = None_

Edit ==
  /\ \E x \in Fixes : /\ Exists(S, x[1]) /\ x[3] \notin Body(S, x[1], x[2])
                      /\ tree' = [tree EXCEPT !.dirty = TRUE, !.files[x[1]] = (x[2] :> (Body(S, x[1], x[2]) \cup {x[3]})) @@ @]
  /\ UNCHANGED <<app, results, loaded, built, samples>>

\* The head moves on as long as there is a next.
Commit ==
  /\ tree.dirty
  /\ \E i \in 1 .. Len(Heads) - 1 : tree.head = Heads[i] /\ tree' = [tree EXCEPT !.dirty = FALSE, !.head = Heads[i + 1]]
  /\ UNCHANGED <<app, results, loaded, built, samples>>

\* run_suite.py: a result takes the place of an earlier one of the probe on the commit.  What
\* was measured ("on", "edited") is not in the document.
MergeResult(p, outcome, commit) ==
  LET kept == {r \in results : ~(r.probe = p /\ r.commit = commit)}
      last == Max({0} \cup {r.at : r \in kept})
  IN  /\ last < MaxResults
      /\ results' = kept \cup {[probe |-> p, row |-> IF p \in Contracts THEN p ELSE <<>>, outcome |-> outcome,
                                commit |-> commit, on |-> tree.head, edited |-> tree.dirty, at |-> last + 1]}

\* The commit is empty where the source that was measured is no checkout, or git fails.
Measure ==
  /\ \E p \in Contracts \cup {<<"dialog-before-window">>}, outcome \in {"passed", "failed", "absent"},
        commit \in {Measured, <<>>} :
       (outcome = "absent" => p \in Contracts) /\ MergeResult(p, outcome, commit)
  /\ UNCHANGED <<app, tree, loaded, built, samples>>

Observe ==
  /\ \/ ExecutedNext(TraceMethods, TraceThreads, MaxSamples) /\ UNCHANGED loaded
     \/ \E l \in NativeLibs : loaded' = loaded \cup {l} /\ UNCHANGED samples
  /\ UNCHANGED <<app, tree, results, built>>

Build ==
  /\ \E static \in {StaticRows} : \E rows \in {BuiltRows(static)} : built' = Map(static, rows)
  /\ UNCHANGED <<app, tree, results, loaded, samples>>

GapNext == Edit \/ Commit \/ Measure \/ Observe \/ Build
GapSpec == GapInit /\ [][GapNext]_gapVars

-----------------------------------------------------------------------------
(* The launcher pins the files that the APK packages: a name that is none of *)
(* them stops the launch (gapmap.py:2936).                                   *)
TargetsArePackaged == UnpackagedTargets(built.pairs) = {}

\* What needs a library in the Android namespace is there too: packaged_dependents says
\* these "must route together", or one left behind loads a second copy (gapmap.py:1572).
RoutedFiles == {p[2] : p \in {p \in built.pairs : p[1] = Target}}
DependentsRoute ==
  \A l \in Packaged : (\E n \in l.needed : FileOf(n) \in RoutedFiles) => l.file \in RoutedFiles

\* It is so for APKs in which a name, be it a file's or a SONAME, is of one library, and those
\* that need it say its SONAME: whatever is shadowed, interposed or written at run time.  Not
\* where two files share a SONAME, as only one of them can be named, nor where a library is
\* needed by the name of its file, as the graph of what is shadowed is one of SONAMEs.
OneNameEach ==
  /\ \A l, k \in Packaged : {l.name, l.file} \cap {k.name, k.file} # {} => l = k
  /\ \A l \in Packaged : l.needed \cap Files(Packaged) \subseteq NamesOf(Packaged)
RoutedTogether == OneNameEach => DependentsRoute

\* A row that the map calls measured was measured on the very commit that the map names, and
\* not on an edited tree (gapmap.py:1520), whatever was edited, committed or measured since:
\* unless what decides it is a result whose commit is no whole one but a beginning of the
\* map's, as the empty commit is (run_suite.py:136), which counts for every such build.  The
\* map itself may have been built from an edited tree: it does not say so.
MeasuredOnThisBuild ==
  \A row \in built.rows : row.measured =>
    /\ built.head # <<>>
    /\ \E r \in results : /\ (r.on = built.head /\ ~r.edited) \/ IsStrictPrefix(r.commit, built.head)
                          /\ r.row = row.id \/ (Probed(row.id) /\ r.probe = <<ProbeOf[row.id[1]][row.id[2]]>>)

\* The launch remedies that the rows name are what a runner is told to apply, "exactly
\* these" (gapmap.py:4225); but a flag without a value falls out of the pairs.
EveryRemedyIsApplied ==
  \A id \in IdsOf(built.rows) :
    LoadingArgs(id) # <<>> => \E p \in built.pairs : p[1] \in Range(LoadingArgs(id))
=============================================================================
