--------------------------- MODULE ProviderFacts ---------------------------
(***************************************************************************)
(* What the Westlake source says it does (contracts.py): each contract the *)
(* provider must keep is looked for in the source that would keep it.      *)
(*                                                                         *)
(* A source tree s gives, for each file there is, the words each of its    *)
(* method bodies holds: s[file][method].  The rest of the file is under    *)
(* "" and its comments under "//"; a call is the name of what is called.   *)
(***************************************************************************)
EXTENDS Naturals, Sequences, FiniteSets, SequencesExt

Exists(s, file) == file \in DOMAIN s
Defines(s, file, method) == Exists(s, file) /\ method \in DOMAIN s[file]
Body(s, file, method) == IF Defines(s, file, method) THEN s[file][method] ELSE {}

\* The whole text, and what is left of it by _strip_java_comments.
Text(s, file) == IF Exists(s, file) THEN UNION {s[file][m] : m \in DOMAIN s[file]} ELSE {}
Code(s, file) == IF Exists(s, file) THEN UNION {s[file][m] : m \in DOMAIN s[file] \ {"//"}} ELSE {}

\* A body that holds a word, or calls a method of the file (or of a file it names) that does.
Reaches(s, files, body, word) ==
  word \in body \/ \E f \in files, m \in body : word \in Body(s, f, m)

\* None, True or False.
Answer(known, yes) == IF ~known THEN "unread" ELSE IF yes THEN "yes" ELSE "no"
Claim(yes) == Answer(TRUE, yes)

-----------------------------------------------------------------------------
(* The package manager. *)

PM == "PackageManagerAdapter"
PmMethods(s) == IF Exists(s, PM) THEN DOMAIN s[PM] \ {"", "//"} ELSE {}

\* Only constants are returned, and the stub says so; a guard that logs and then answers is bridged.
IsPmStub(s, m) ==
  LET body == Body(s, PM, m) IN "logStub" \in body /\ body \cap {"logBridged", "answer"} = {}

DirectBootDefaults(s) == "MATCH_DIRECT_BOOT_UNAWARE" \in Text(s, "SourcePackageRegistry")
SplitPathsPopulated(s) == "splitSourceDirs=" \in Text(s, "SplitApkResolver")
ProvidersSorted(s) == "providers.sort(initOrder)" \in Text(s, "AppSchedulerBridge")
AuthorityClaims(s) == "claimed.add(authority)" \in Text(s, PM)

\* hasSystemFeature's switch: labels wait for a return; "true" claims them, and anything but
\* "false" answers them on a condition.  Then the ifs, and the table's entries.
FeatureClaims(switch, ifs, table) ==
  LET Step(line, acc) ==
        CASE line.is = "case" -> [acc EXCEPT !.waiting = @ \cup {line.name}]
          [] line.is = "return" /\ acc.waiting # {} ->
               [waiting |-> {}, claimed |-> acc.claimed \cup IF line.answer = "true" THEN acc.waiting ELSE {}]
          [] line.is = "default" -> [acc EXCEPT !.waiting = {}]
          [] OTHER -> acc
  IN  FoldLeft(LAMBDA acc, line : Step(line, acc), [waiting |-> {}, claimed |-> {}], switch).claimed
      \cup {i.name : i \in {j \in ifs : j.answer = "true"}} \cup DOMAIN table

-----------------------------------------------------------------------------
(* Activities: what system_server would answer is answered in process. *)

Bridge == "AppSchedulerBridge"   Tasks == "ActivityTaskManagerAdapter"
Client == "ActivityClientControllerAdapter"   AppSpawn == "AppSpawnXInit"

AmProxyStub(s) == "makeProxyStub(AdapterIAM-stub)" \in Text(s, AppSpawn)
AmAnswered(s) == IF AmProxyStub(s) THEN Body(s, AppSpawn, "AdapterIAM-stub") ELSE {}

TaskQueries == [getRunningTasks |-> "getTasks", getAppTasks |-> "getAppTasks", getRecentTasks |-> "getRecentTasks"]
\* A query whose one statement returns nothing is answered with nothing.
TasksEmpty(s) ==
  {m \in {TaskQueries[q] : q \in DOMAIN TaskQueries} :
     Defines(s, Tasks, m) /\ Body(s, Tasks, m) \subseteq {"logBridged", "return nothing"}}

OriginalIntent(s) == "PendingLaunchIntents.take" \in Code(s, Bridge)

\* ART's palette: the Java priority a thread it attaches gets.
PriorityAnswered(s) == Exists(s, "link_stubs_arm64") /\ Defines(s, "link_stubs_arm64", "PaletteSchedGetPriority")
PriorityValid(s) == "*p=0" \notin Body(s, "link_stubs_arm64", "PaletteSchedGetPriority")

BoundsAtBind(s) == "windowConfiguration.setBounds" \in Body(s, Bridge, "buildConfiguration")

TaskForActivity(s) ==
  Answer(Defines(s, Client, "getTaskForActivity"), "return constant" \notin Body(s, Client, "getTaskForActivity"))

IntentsResolved(s) ==
  /\ Defines(s, "SourcePackageRegistry", "queryActivities")
  /\ "SourcePackageRegistry.queryActivities" \in Body(s, PM, "queryIntentActivities")
\* startActivity resolves through a helper of its own that asks the registry.
IntentsStarted(s) ==
  \E helper \in Body(s, Tasks, "startActivity") : "SourcePackageRegistry.queryActivities" \in Body(s, Tasks, helper)

Launch(s) == Body(s, Bridge, "nativeOnScheduleLaunchAbility")
LaunchRead(s) == Defines(s, Bridge, "nativeOnScheduleLaunchAbility")

CarriesStart(s) ==
  Answer(LaunchRead(s), /\ "LaunchActivityItem" \in Launch(s)
                        /\ Launch(s) \cap {"StartActivityItem", "ResumeActivityItem"} # {})

PermissionAnswered(s) ==
  Answer(Defines(s, Tasks, "startActivity"),
         /\ "ACTION_REQUEST_PERMISSIONS" \in Body(s, Tasks, "startActivity")
         /\ \E helper \in Body(s, Tasks, "startActivity") : "ActivityResultItem" \in Body(s, Tasks, helper))

\* The item may be built in a helper, of another class beside it.
ResultDelivered(s) ==
  Answer(Defines(s, Client, "finishActivity"),
         Reaches(s, DOMAIN s \ {Client}, Body(s, Client, "finishActivity"), "ActivityResultItem"))

\* Resumed in the launch and again by the native start, unless the launch forgot the record.
ResumedOnce(s) ==
  LET inProcess == Body(s, Bridge, "if ohTokenAddr == 0")
      again == /\ "ActivityResultItem" \in Body(s, "activity_task_manager_adapter", "wl_dl2_resume")
               /\ "wl_dl2_resume" \in Code(s, "activity_task_manager_adapter")
  IN  Answer(LaunchRead(s) /\ Exists(s, "activity_task_manager_adapter"),
             ~("ResumeActivityItem" \in inProcess /\ again) \/ "forgetRecord" \in inProcess)

\* ActivityThread relaunches no activity whose token is a local Binder.
Relaunched(s) ==
  LET made == Body(s, "OhTokenRegistry", "acquireAndroidToken")
      local == "Binder" \in made \/ \E class \in made : "extends Binder" \in Code(s, class)
  IN  Answer(made # {}, ~local)

ToastsShown(s) ==
  Answer(Exists(s, "LocalNotifications"), {"enqueueTextToast", "enqueueToast"} \subseteq Code(s, "LocalNotifications"))

CeStorageUnlocked(s) == "isCeStorageUnlocked" \in Code(s, AppSpawn)

\* The app runs in the host's process: OH asks for the host's permissions, by the first mapping.
HostRequested(s) == Body(s, "imehost", "requestPermissions")

-----------------------------------------------------------------------------
(* Windows, keys, SQLite. *)

Session == "WindowSessionAdapter"
DialogsAboveBase(s) == "shouldHoldBack" \in Text(s, Session)
PlacedByGravity(s) == Text(s, Session) \cap {"WindowLayout().computeFrames", "Gravity.apply", "attrs.gravity"} # {}
DimBehind(s) == Text(s, Session) \cap {"FLAG_DIM_BEHIND", "dimAmount"} # {}
SubWindowsShown(s) == "FIRST_SUB_WINDOW to TYPE_APPLICATION" \in Code(s, Session)
FocusHandedOn(s) == Reaches(s, DOMAIN s \ {Session}, Body(s, Session, "remove"), "windowFocusChanged")

\* In one file: a provider of the name, and a call elsewhere that installs it.
Providers(s) == {f \in DOMAIN s : "extends Provider" \in Code(s, f)}
KeystoreReplaced(s) ==
  \E f \in Providers(s) : /\ "AndroidKeyStore" \in Code(s, f)
                          /\ \E g \in DOMAIN s \ {f} : f \in Code(s, g)
KeystoreInstalled(s) == \E f \in DOMAIN s : "AndroidKeyStoreProvider.install" \in Code(s, f)
KeystoreBacked(s) == \E f \in DOMAIN s : Code(s, f) \cap {"keystore2", "IKeystoreService", "OH_Huks"} # {}
RegisteredProvider(s, name) == \E f \in Providers(s) : name \in Body(s, f, "NAME")
LegacySpecAccepted(s) ==
  \E f \in Providers(s) : {"AndroidKeyStore", "instanceof KeyPairGeneratorSpec"} \subseteq Code(s, f)

\* A wrapper of natives counts only when JNI_OnLoad calls it and the build compiles it.
Wired(s, file, entry) ==
  Defines(s, file, entry) /\ entry \in Text(s, "missing_natives") /\ file \in Text(s, "build_missing_natives")
Collations(s) ==
  IF Wired(s, "sqlite_natives", "wl_register_sqlite_collations") THEN Body(s, "sqlite_natives", "collations") ELSE {}
CanvasFromJava(s) == Wired(s, "canvas_natives", "wl_register_surface_canvas")

-----------------------------------------------------------------------------
(* The bionic shim: preloaded C, whose definitions are every caller's. *)

Shim == "webview_bionic_shim"
Forwards(s, f, word) == Defines(s, Shim, f) /\ word \in Body(s, Shim, f)
CanvasFromNative(s) == Forwards(s, "ANativeWindow_lock", "RequestBuffer")
EglUnwraps(s) == Forwards(s, "eglCreateWindowSurface", "anw_get_oh")
EglByHandle(s) == "westlake_egl_by_handle" \in Text(s, Shim)
GeometryTranslated(s) ==
  Forwards(s, "ANativeWindow_setBuffersGeometry", "width == 0") /\ "format" \in Body(s, Shim, "ANativeWindow_setBuffersGeometry")
\* dlopen's steps in their order: GLES 3 must come before the probe, which answers any name.
Gles3Answered(dlopen) ==
  LET gles3 == SelectInSeq(dlopen, LAMBDA step : step = "gles3")
      probe == SelectInSeq(dlopen, LAMBDA step : step = "probe")
  IN  gles3 # 0 /\ (probe = 0 \/ gles3 < probe)

\* Which callers count as built against bionic; where it is not defined, the packaged.
CallerScope(s) ==
  IF Defines(s, Shim, "caller_is_android_dso")
  THEN Body(s, Shim, "caller_is_android_dso") \cap {"packaged", "written"}
  ELSE IF "caller_is_android_dso" \in Code(s, Shim) THEN {"packaged"} ELSE {}

SignalCalls ==
  {"sigaction", "sigemptyset", "sigfillset", "sigaddset", "sigdelset", "sigismember", "sigprocmask",
   "pthread_sigmask", "sigaction64", "sigemptyset64", "sigfillset64", "sigaddset64", "sigdelset64",
   "sigismember64", "sigprocmask64", "pthread_sigmask64"}
SignalTranslated(s) == IF Exists(s, Shim) THEN SignalCalls \cap DOMAIN s[Shim] ELSE {}
SignalByName(s) == Defines(s, Shim, "dlsym") \/ "libc.so" \in Body(s, Shim, "dlopen")

StaticMutexLocks == {"pthread_mutex_lock", "pthread_mutex_trylock"}
MutexAdopted(s) ==
  {l \in StaticMutexLocks : \E helper \in Body(s, Shim, l) : "0x4000" \in Body(s, Shim, helper)}

ThreadStartOrdered(s) ==
  /\ Forwards(s, "pthread_create", "FUTEX_WAKE")
  /\ \E routine \in Body(s, Shim, "pthread_create") : "FUTEX_WAIT" \in Body(s, Shim, routine)

PasswdLookups == {"getpwnam", "getpwuid", "getgrnam", "getgrgid"}
PasswdPerThread(s) ==
  {l \in PasswdLookups : /\ {"pthread_getspecific", "pthread_key_create"} \subseteq Code(s, Shim)
                         /\ Forwards(s, l, "westlake_thread")}

InterfaceIndexed(s) == Reaches(s, {Shim}, Body(s, Shim, "if_nametoindex"), "getifaddrs")

\* sysconf and its like: translated at all, and for whom (by its first one's body).
LibcConstantCalls == <<"confstr", "fpathconf", "pathconf", "sysconf">>
ConstantsTranslated(s) == SelectSeq(LibcConstantCalls, LAMBDA call : Defines(s, Shim, call))
ConstantScope(s) ==
  LET translated == Range(ConstantsTranslated(s))
      body == IF translated = {} THEN {} ELSE Body(s, Shim, Head(ConstantsTranslated(s)))
  IN  CASE translated = {} -> "none"
        [] "caller_is_android_dso" \in body -> "packaged-libraries"
        [] "caller_is_android_dso" \notin body /\ "caller_is_webview" \in body -> "webview-only"
        [] OTHER -> "all-callers"

\* What the compiled sources define but the shim's own helpers (westlake_, wl_) and tables.
OwnNames == {"", "//", "caller_is_android_dso", "westlake_helper", "g_refused_libraries", "own handle"}
ShimSources(s) == {Shim} \cup Body(s, "build_bionic_shim", "sources")
ShimExports(s) == UNION {DOMAIN s[f] : f \in ShimSources(s) \cap DOMAIN s} \ OwnNames
StagedLibraries(s) == Body(s, "build_bionic_shim", "soname")
AnsweredLibraries(s) == Body(s, Shim, "own handle")
RefusedLibraries(s) == Body(s, Shim, "g_refused_libraries")
=============================================================================
