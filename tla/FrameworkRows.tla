--------------------------- MODULE FrameworkRows ---------------------------
(***************************************************************************)
(* The rows of a gap map that Java decides (gapmap.py): what the app calls *)
(* or declares asks for a contract, and the Westlake source answers it.    *)
(* The verdicts of services are Services', those of levels Executed's, and *)
(* the answers ProviderFacts'.                                             *)
(***************************************************************************)
EXTENDS Executed, Services, ProviderFacts

CONSTANTS
  ReferenceLevel,  \* the API level that the platform is to have
  AreaOf, OhOf,    \* owner -> area; area -> the subsystem of OpenHarmony, "none" or "unmapped"
  PmBinder,        \* PackageManager method -> binder method, where the names differ ("" is none)
  Deep,            \* binder methods that query or resolve
  HostGuarded      \* OpenHarmony permission -> [source, call] of the capability it guards
VARIABLES
  app,   \* what the scan and the manifest say of an app
  tree   \* the Westlake tree: files, what the runtime ships, and its claims

S == tree.files

CallsAny(class, methods) == \E m \in methods : <<class, m>> \in app.calls
CallsAnyOf(classes, methods) == \E c \in classes : CallsAny(c, methods)

\* A contract that is asked for is supplied, to be verified, or missing at a cost.
Ruled(category, id, asked, answer, effort) ==
  IF ~asked \/ answer = "unread" THEN {}
  ELSE {IF answer = "yes" THEN Row(category, id, "supplied", "verify") ELSE Row(category, id, "missing", effort)}
RuledAs(verdict, category, id, asked, answer, effort) ==
  {IF r.verdict = "missing" THEN [r EXCEPT !.verdict = verdict] ELSE r :
     r \in Ruled(category, id, asked, answer, effort)}

-----------------------------------------------------------------------------
(* java_api_rows *)

\* An absence Android shares, and a body that AOSP's is too, are no gap.
SharedWithAndroid(f) ==
  \/ LevelVerdict(f.owner, f.name, ReferenceLevel) \in {"absent-from-platform", "newer-than-reference"}
  \/ f.kind \in {"missing_method", "missing_field"} /\ f.declared = "no"
  \/ f.kind = "existence_probe" /\ (f.layer # "J" \/ f.onAndroid = "no")
  \/ f.kind = "hollow_method" /\ f.shape = "aosp-trivial"

JavaKinds == {"missing_class", "missing_method", "missing_field", "hollow_method", "existence_probe"}
Bucket(f) ==
  CASE f.kind = "hollow_method" -> IF f.shape = "hollowed" THEN "hollowed" ELSE "hollow"
    [] f.kind = "existence_probe" -> "probe" [] OTHER -> "missing"

JavaApiRows ==
  LET gaps == {f \in app.findings : f.kind \in JavaKinds /\ ~SharedWithAndroid(f)}
      In(area) == {f \in gaps : AreaOf[f.owner] = area}
      Number(area, b) == Cardinality({f \in In(area) : Bucket(f) = b})
      JavaRow(area) ==
        IF Number(area, "missing") > 0
        THEN Row("java-api", <<"java", area>>, "missing", IF OhOf[area] \in {"none", "unmapped"} THEN "S"
                 ELSE Size(Number(area, "missing"), "S", "M", "L"))
        ELSE IF Number(area, "hollowed") > 0
        THEN Row("java-api", <<"java", area>>, "hollow", Size(Number(area, "hollowed"), "S", "M", "L"))
        ELSE Row("java-api", <<"java", area>>,
                 IF Number(area, "hollow") > 0 THEN "hollow-candidate" ELSE "probe-only", "verify")
  IN  {JavaRow(area) : area \in {AreaOf[f.owner] : f \in gaps}}

\* Natives that ART's stubs answer with a constant, unless Westlake binds them again.
StubCallers ==
  [getSpace0 |-> {"getTotalSpace", "getFreeSpace", "getUsableSpace"},
   setPermission0 |-> {"setReadable", "setWritable", "setExecutable"},
   setReadOnly0 |-> {"setReadOnly"}, setLastModifiedTime0 |-> {"setLastModified"}]
StubNativeRows ==
  LET stubs == Body(S, "openjdk_stub", "constants")
      reached == {n \in stubs \cap DOMAIN StubCallers : CallsAny("File", StubCallers[n])}
  IN  RuledAs("hollow", "java-api", <<"runtime", "stub-natives">>, reached # {},
              Claim(reached \subseteq Body(S, "missing_natives", "bind")), "S")

-----------------------------------------------------------------------------
(* package_manager_rows *)

ComponentLookups ==
  {"getServiceInfo", "getActivityInfo", "getReceiverInfo", "getProviderInfo", "getApplicationInfo", "getPackageInfo"}
AppProviders == SelectSeq(app.components, LAMBDA c : c.kind = "provider")
MainProviders == {c \in Range(AppProviders) : c.process = "main"}

\* Providers whose every authority an earlier declaration, enabled or not, holds.
AuthorityLosers ==
  {AppProviders[i] : i \in {i \in DOMAIN AppProviders : 
     /\ AppProviders[i].enabled /\ AppProviders[i].authorities # {}
     /\ AppProviders[i].authorities \subseteq UNION {AppProviders[j].authorities : j \in 1 .. i - 1}}}

\* What ApplicationPackageManager does with a null: it throws, or takes the list of it.
PmThrows(binder) ==
  \E h \in A.pm : h.binder = binder /\ (h.nullThrow \/ h.guarded \/ (h.list /\ ~h.checked))

PmBinderOf(m) == IF m \in DOMAIN PmBinder THEN PmBinder[m] ELSE m
PmStubCalls == {m \in {c[2] : c \in {c \in app.calls : c[1] = "PackageManager"}} :
                  PmBinderOf(m) \in PmMethods(S) /\ IsPmStub(S, PmBinderOf(m))}
ThrowingPmCalls == {m \in PmStubCalls : PmThrows(PmBinderOf(m)) /\ "return null" \in Body(S, PM, PmBinderOf(m))}

PackageManagerRows ==
  Ruled("package-manager", <<"pm", "component-metadata">>,
        (\E c \in Range(app.components) : c.meta) /\ CallsAny("PackageManager", ComponentLookups),
        Claim(DirectBootDefaults(S)), "S")
  \cup Ruled("package-manager", <<"pm", "splits">>, app.splits # {}, Claim(SplitPathsPopulated(S)), "S")
  \cup {Row("package-manager", <<"pm", "providers">>, "unverified", "verify") : c \in MainProviders}
  \cup Ruled("package-manager", <<"pm", "provider-init-order">>,
             \E c \in MainProviders : c.order > 0, Claim(ProvidersSorted(S)), "XS")
  \cup Ruled("package-manager", <<"pm", "provider-authority">>, AuthorityLosers # {}, Claim(AuthorityClaims(S)), "XS")
  \cup {Row("package-manager", <<"pm", "multiprocess">>, "missing", "L") : p \in app.processes}
  \cup {Row("package-manager", <<"pm:call", m>>, "stub", IF PmBinderOf(m) \in Deep THEN "M" ELSE "S")
          @@ [throws |-> m \in ThrowingPmCalls] : m \in PmStubCalls}

\* Of a library declared twice the first declaration counts.
UsesLibraryRows ==
  {LET l == app.usesLibraries[i]
       supplied == "sharedLibraryInfos" \in Text(S, Bridge) /\ l.name \in tree.shipped
   IN  Row("package-manager", <<"pm:uses-library", l.name>>,
           IF supplied THEN "supplied" ELSE IF l.required THEN "missing" ELSE "absent",
           IF supplied THEN "verify" ELSE IF l.required THEN "S" ELSE "none") :
     i \in {i \in DOMAIN app.usesLibraries : \A j \in 1 .. i - 1 : app.usesLibraries[j].name # app.usesLibraries[i].name}}

-----------------------------------------------------------------------------
(* am_default_rows, app_framework_rows: ActivityManager answered in process. *)

ProcessTable ==
  [getRunningAppProcesses |-> "getRunningAppProcesses", getRunningServices |-> "getServices",
   getProcessMemoryInfo |-> "getProcessMemoryInfo"]
AmCalls == {c[2] : c \in {c \in app.calls : c[1] = "ActivityManager"}}
CuratedAm == {"getMemoryInfo"} \cup DOMAIN TaskQueries \cup DOMAIN ProcessTable

\* A method whose unanswered binder hands the app a null or an object nobody filled.
OpenDefault(m) ==
  \E b \in (A.am[m].calls \cap DOMAIN A.aidl) \ AmAnswered(S) :
    \/ A.aidl[b].returns = "void" /\ A.aidl[b].out /\ b # "getMyMemoryState"
    \/ A.aidl[b].returns = "object" /\ ~A.am[m].nullChecked /\ ~A.am[m].nullDocumented

AmDefaultRows ==
  IF AmProxyStub(S) /\ \E m \in (AmCalls \ CuratedAm) \cap DOMAIN A.am : OpenDefault(m)
  THEN {Row("app-framework", <<"am", "type-defaults">>, "hollow", "S")} ELSE {}

\* What the in-process ActivityManager must answer for each pair of calls.
AmNeeds(pairs) == {p.answer : p \in {p \in pairs : CallsAnyOf({"Context", "ContextWrapper"}, p.calls)}}
ServiceStarts == {[calls |-> {"startService", "startForegroundService"}, answer |-> "startService"],
                  [calls |-> {"bindService"}, answer |-> "bindService"]}
Broadcasts == {[calls |-> {"registerReceiver"}, answer |-> "registerReceiverWithFeature"],
               [calls |-> {"sendBroadcast", "sendOrderedBroadcast"}, answer |-> "broadcastIntentWithFeature"]}

ActivityManagerRows ==
  Ruled("app-framework", <<"am", "launch-extras">>,
        CallsAny("Intent", {"getParcelableExtra", "getParcelableArrayExtra", "getParcelableArrayListExtra",
                            "getSerializableExtra", "getBundleExtra"}), Claim(OriginalIntent(S)), "S")
  \cup Ruled("runtime", <<"rt", "thread-priority">>, CallsAny("Thread", {"setPriority"}),
             Answer(PriorityAnswered(S), PriorityValid(S)), "XS")
  \cup RuledAs("hollow", "app-framework", <<"am", "memory-info">>, AmProxyStub(S) /\ "getMemoryInfo" \in AmCalls,
               Claim("getMemoryInfo" \in AmAnswered(S)), "XS")
  \cup RuledAs("hollow", "app-framework", <<"am", "own-task">>,
               Exists(S, Tasks) /\ AmCalls \cap DOMAIN TaskQueries # {},
               Claim(\A q \in AmCalls \cap DOMAIN TaskQueries :
                       Defines(S, Tasks, TaskQueries[q]) /\ TaskQueries[q] \notin TasksEmpty(S)), "S")
  \cup RuledAs("null", "app-framework", <<"am", "process-table">>, AmCalls \cap DOMAIN ProcessTable # {},
               Claim(AmProxyStub(S) => \A m \in AmCalls \cap DOMAIN ProcessTable : ProcessTable[m] \in AmAnswered(S)), "S")
  \cup Ruled("app-framework", <<"am", "in-app-services">>,
             app.services > 0 /\ AmProxyStub(S) /\ AmNeeds(ServiceStarts) # {},
             Claim(AmNeeds(ServiceStarts) \subseteq AmAnswered(S)), "S")
  \cup Ruled("app-framework", <<"am", "broadcasts">>, AmProxyStub(S) /\ AmNeeds(Broadcasts) # {},
             Claim(AmNeeds(Broadcasts) \subseteq AmAnswered(S)), "S")

-----------------------------------------------------------------------------
(* Windows, in app_framework_rows and of their own. *)

ShowsDialog == CallsAny("Dialog", {"show"})
PopupCalls ==
  [PopupWindow |-> {"showAsDropDown", "showAtLocation"}, ListPopupWindow |-> {"show"}, PopupMenu |-> {"show"},
   Spinner |-> {"setAdapter"}, AutoCompleteTextView |-> {"setAdapter", "showDropDown"}]
ShowsPopup == \E p \in DOMAIN PopupCalls : CallsAny(p, PopupCalls[p])
Edits == \E c \in app.calls : c[1] = "EditText"

WindowRows ==
  {[r EXCEPT !.effort = "verify"] : r \in RuledAs("unverified", "app-framework", <<"wm", "dialog-stacking">>,
     ShowsDialog, Claim(DialogsAboveBase(S)), "verify")}
  \cup Ruled("app-framework", <<"wm", "window-placement">>, ShowsDialog, Claim(PlacedByGravity(S)), "S")
  \cup Ruled("app-framework", <<"wm", "dim-behind">>, ShowsDialog, Claim(DimBehind(S)), "M")
  \cup Ruled("app-framework", <<"wm", "popup-window">>, ShowsPopup, Claim(SubWindowsShown(S)), "S")
  \cup Ruled("app-framework", <<"wm", "focus-handoff">>, Edits /\ (ShowsDialog \/ ShowsPopup), Claim(FocusHandedOn(S)), "S")
  \cup Ruled("app-framework", <<"wm", "toast">>, CallsAny("Toast", {"show"}), ToastsShown(S), "S")
  \cup Ruled("app-framework", <<"wm", "window-metrics">>,
             CallsAny("WindowManager", {"getCurrentWindowMetrics", "getMaximumWindowMetrics"}), Claim(BoundsAtBind(S)), "XS")

WebviewRows ==
  IF ~CallsAny("WebView", {"<init>"}) THEN {}
  ELSE {IF \E f \in DOMAIN S : "SandboxedProcessService" \in Text(S, f)
        THEN Row("app-framework", <<"wv", "renderer-process">>, "supplied", "verify")
        ELSE Row("app-framework", <<"wv", "renderer-process">>, "unverified", "L")}

-----------------------------------------------------------------------------
(* Activities and intents *)

StartsFrom(c) == CallsAny(c, {"startActivity", "startActivityForResult", "startActivities"})

TaskRootRows == Ruled("app-framework", <<"am", "task-root">>,
  CallsAny("Activity", {"isTaskRoot", "getTaskId", "moveTaskToBack"}), TaskForActivity(S), "XS")
OwnIntentRows == Ruled("app-framework", <<"am", "own-implicit-intents">>,
  app.ownIntents # {}, Claim(IntentsResolved(S) /\ IntentsStarted(S)), "S")
ExternalIntentRows ==
  {Row("app-framework", <<"intent", f>>, "unverified", "verify") :
     f \in app.externalIntents \cap {"view-web", "share", "pick-document", "system-screen"}}
PostCreateRows == Ruled("app-framework", <<"am", "post-create">>, app.afterStart, CarriesStart(S), "XS")
PermissionRequestRows == Ruled("app-framework", <<"am", "permission-request">>,
  CallsAny("Activity", {"requestPermissions"}), PermissionAnswered(S), "XS")
ActivityResultRows == Ruled("app-framework", <<"am", "activity-result">>,
  CallsAny("Activity", {"startActivityForResult"}), ResultDelivered(S), "S")
LaunchLifecycleRows == Ruled("app-framework", <<"am", "launch-lifecycle">>,
  app.activities >= 2 /\ \E c \in {"Activity", "Context", "ContextWrapper"} : StartsFrom(c), ResumedOnce(S), "XS")
RecreateRows == Ruled("app-framework", <<"am", "recreate">>, CallsAny("Activity", {"recreate"}), Relaunched(S), "S")
CeStorageRows == Ruled("app-framework", <<"os", "ce-storage-unlocked">>,
  CallsAny("VmPolicy", {"detectAll", "detectCredentialProtectedWhileLocked"}), Claim(CeStorageUnlocked(S)), "XS")

\* Permissions OpenHarmony checks of the host: a row only where Westlake makes the guarded call.
HostPermissionRows ==
  UNION {Ruled("sandbox-policy", <<"perm:host", oh>>,
               /\ Exists(S, "imehost") /\ HostGuarded[oh].call \in Text(S, HostGuarded[oh].source)
               /\ \E p \in app.permissions \cap DOMAIN tree.mapping : tree.mapping[p] = oh,
               Claim(oh \in HostRequested(S)), "XS") : oh \in DOMAIN HostGuarded}

-----------------------------------------------------------------------------
(* Data and features *)

SqliteCollationRows == Ruled("app-framework", <<"db", "sqlite-collations">>,
  app.collations # {}, Claim(app.collations \subseteq Collations(S)), "S")

\* Where Android keeps a file, what the runtime ships for it and the directory it is merged into.
AndroidPaths ==
  [cacerts |-> <<"etc/security/cacerts/", "etc">>, fontsXml |-> <<"etc/fonts.xml", "etc">>, fonts |-> <<"fonts/", "fonts">>,
   zoneinfo |-> <<"", "">>, tzdata |-> <<"", "">>, hosts |-> <<"", "">>]
AndroidPathRows ==
  UNION {IF AndroidPaths[p][1] = "" THEN {Row("runtime-data", <<"path", p>>, "unverified", "S")}
         ELSE Ruled("runtime-data", <<"path", p>>, TRUE,
                    Claim(AndroidPaths[p][1] \in tree.shipped /\ AndroidPaths[p][2] \in Text(S, "source_app_namespace")), "S") :
           p \in app.paths \cap DOMAIN AndroidPaths}

NioRows == Ruled("framework-natives", <<"nio", "channels">>,
  \E c \in app.calls : c[1] \in {"Selector", "SocketChannel", "ServerSocketChannel", "DatagramChannel", "SelectorProvider"},
  Claim("sun/nio/ch/Net" \in tree.registered), "M")

FeatureService == [camera |-> "camera", bluetooth |-> "bluetooth", wifi |-> "wifi", nfc |-> "nfc", usb |-> "usb"]
Claimed == FeatureClaims(tree.switch, tree.ifs, tree.table)
\* A feature that is claimed without the service that would back it.
FeatureRows ==
  UNION {RuledAs("contradicted", "system-services", <<"feature", f>>, TRUE,
                 Claim(ServiceVerdict(FeatureService[f]) = "supplied"), "S") :
           f \in app.features \cap Claimed \cap DOMAIN FeatureService}
VulkanFeatureRows ==
  LET claimed == "vulkan" \in Claimed   loader == "libvulkan" \in tree.libs
  IN  RuledAs("contradicted", "package-manager", <<"feature", "vulkan">>, "vulkan" \in app.features /\ (claimed \/ loader),
              Claim(claimed /\ loader), IF loader THEN "XS" ELSE "S")
=============================================================================
