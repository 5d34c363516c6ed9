------------------------------- MODULE MCGap -------------------------------
(***************************************************************************)
(* Five apps, whose packaged libraries shadow the board's, are interposed  *)
(* by the runtime's, or are written at run time; a Westlake tree that is   *)
(* short of a few contracts and is mended.                                 *)
(***************************************************************************)
EXTENDS GapMap

-----------------------------------------------------------------------------
(* What runs: an app method that shows a dialog and asks for a service, and the platform's. *)

MCRecord ==
  [c \in {"Dialog", "Object"} |->
     [parents |-> IF c = "Dialog" THEN <<"Object">> ELSE <<>>, natives |-> {}, hollow |-> {}, declares |-> {"show"}]]
MCCalls == (<<"Main", "run">> :> {<<"Dialog", "show">>, <<"PackageManager", "getServiceInfo">>, <<"Old", "x">>})
MCJar == [c \in {"Dialog", "Object"} |-> "upstream"]
MCAndroid == (1 :> [c \in {"Old", "Dialog"} |-> {"x", "show"}] @@ 36 :> [c \in {"New"} |-> {"x"}])
MCAreaOf == [o \in {"Old", "New"} |-> "os"]
MCOhOf == [a \in {"os"} |-> "abilities"]

MCRegistry ==
  <<[name |-> "alarm", manager |-> "AlarmManager", binders |-> <<Binder("alarm", TRUE, FALSE)>>, canFail |-> FALSE],
    [name |-> "wifi", manager |-> "WifiManager", binders |-> <<Binder("wifi", FALSE, TRUE)>>, canFail |-> TRUE],
    [name |-> "camera", manager |-> "CameraManager", binders |-> <<>>, canFail |-> FALSE]>>
MCA ==
  [registry |-> MCRegistry, initializers |-> <<[name |-> "usb", manager |-> "UsbManager", takesBinder |-> TRUE]>>,
   lazy |-> [m \in {"CameraManager"} |-> <<Binder("camera", TRUE, TRUE)>>],
   unwraps |-> [m \in {"AlarmManager"} |-> {"list"}],
   classes |-> [c \in {"VpnService"} |-> [m \in {"prepare"} |-> [public |-> TRUE, calls |-> {}, fetches |-> {"wifi"}, checks |-> FALSE]]],
   userManager |-> [m \in {"isUserUnlocked"} |-> [calls |-> {}, fetches |-> {"isUnlocked"}]],
   pm |-> {[binder |-> "queryIntentServices", nullThrow |-> FALSE, guarded |-> FALSE, list |-> TRUE, checked |-> FALSE]},
   am |-> [m \in {"getProfiles"} |-> [calls |-> {"profiles"}, nullChecked |-> FALSE, nullDocumented |-> FALSE]],
   aidl |-> [b \in {"profiles"} |-> [returns |-> "object", out |-> FALSE]]]
MCW ==
  [switch |-> <<[is |-> "case", name |-> "wifi"], [is |-> "return", answer |-> "adapter"], [is |-> "default"]>>,
   seeds |-> <<"alarm">>, replaced |-> <<>>, fetchers |-> <<"camera">>, cached |-> <<>>,
   published |-> <<[name |-> "usb", throws |-> TRUE]>>, audio |-> <<>>, jobs |-> <<>>, jobsAnswerEmpty |-> FALSE,
   local |-> <<>>, localAnswerEmpty |-> FALSE,
   defaults |-> <<[name |-> "device_identifiers", absence |-> TRUE]>>, userThrows |-> TRUE, userAnswers |-> {}]

-----------------------------------------------------------------------------
(* Libraries *)

Lib(at, name, file, needed, undefined) ==
  [at |-> at, name |-> name, file |-> file, needed |-> needed, undefined |-> undefined, weak |-> {}, exports |-> {},
   abi |-> "arm64", machine |-> "arm64", origin |-> "packaged", variant |-> FALSE, versions |-> <<>>, defines |-> <<>>,
   marks |-> {}, candidates |-> {}, upcalls |-> {}]
Board(name, exports) == [Lib(0, name, name, {}, {}) EXCEPT !.exports = exports]

MCBoardLibs == {Board("libc", {"malloc", "puts"}), Board("libcxx", {"throw"})}
MCStaged == {Board("libandroid", {"AAssetManager_open"})}
MCNdk ==
  [s \in {"AAssetManager_open", "ASystemFontIterator_open", "AChoreographer_post", "AImage"} |->
     [library |-> "libandroid", group |-> IF s = "AImage" THEN "package" ELSE "weld",
      weld |-> IF s = "AImage" THEN {} ELSE {"choreographer"}, manifest |-> TRUE]]
MCDeclared == DOMAIN MCNdk
MCNone == <<>>
MCWeldEffort == [w \in {{"choreographer"}} |-> "M"]
MCRuntimeLibs == {[Board("libcrypto", {"RSA", "EVP", "BN", "puts"}) EXCEPT !.needed = {"libandroid"}],
                  Board("libandroid", {"AAssetManager_open", "AChoreographer_post"})}
MCNamespaceLibs == {Board("libandroid", {"AAssetManager_open"})}

\* Shadowed by the board's C++ library, with a file that is not named as its SONAME.
Shadowing ==
  {Lib(1, "libcxx", "libcxx", {"libc"}, {"malloc"}),
   [Lib(2, "libeffect", "libeffect_plugin", {"libcxx", "libandroid"}, {"getaddrinfo", "AChoreographer_post", "sigaction"})
      EXCEPT !.weak = {"ASystemFontIterator_open"}, !.marks = {"split", "relocations", "null-init"}],
   Lib(3, "libapp", "libapp", {"libeffect", "libgone"}, {"AImage", "funopen", "gone", "mkfifo"})}
\* One SONAME for two files, of which one needs what is routed.
Twins == {Lib(1, "libcxx", "libcxx", {}, {}), Lib(2, "libmain", "libmain", {"libc"}, {}),
          Lib(3, "libmain", "libduolingounity", {"libcxx"}, {})}
\* Its own crypto, which the runtime has too; and a library that it writes when it runs.
Interposable ==
  {[Lib(1, "libssl", "libssl", {"libc"}, {"getpwnam", "sysconf"}) EXCEPT !.exports = {"RSA", "EVP", "BN", "JNI_OnLoad"},
      !.marks = {"vm-lookup", "static-mutex", "thread-handle", "egl-lookup", "packed-init"}, !.candidates = {"AImage"},
      !.upcalls = {[state |-> "missing", shape |-> "unknown"], [state |-> "hollow-candidate", shape |-> "hollowed"]}],
   Lib(2, "libnet", "libnet", {"libssl"}, {"ANativeWindow_lock", "eglCreateWindowSurface", "if_nametoindex"})}
WrittenLib == [Lib(9, "libwritten", "libwritten", {"libc"}, {"sysconf"}) EXCEPT !.origin = "unpacked"]

-----------------------------------------------------------------------------
(* Apps *)

Finding(kind, owner, shape) ==
  [kind |-> kind, owner |-> owner, name |-> "x", declared |-> "yes", layer |-> "J", onAndroid |-> "yes", shape |-> shape,
   sites |-> {<<"Main", "run">>}]
Component(name, authorities, enabled) ==
  [name |-> name, kind |-> "provider", process |-> "main", meta |-> TRUE, authorities |-> authorities,
   enabled |-> enabled, order |-> 1]
ManyCalls ==
  {<<"ActivityManager", m>> : m \in {"getRunningTasks", "getRunningAppProcesses", "getMemoryInfo", "getProfiles"}}
  \cup {<<"Activity", m>> : m \in {"isTaskRoot", "requestPermissions", "startActivityForResult", "recreate"}}
  \cup {<<"Context", m>> : m \in {"startService", "bindService", "registerReceiver", "sendBroadcast"}}
  \cup {<<"PackageManager", m>> : m \in {"getServiceInfo", "queryIntentServices", "getInstallerPackageName"}}
  \cup {<<"Dialog", "show">>, <<"Toast", "show">>, <<"PopupMenu", "show">>, <<"EditText", "setText">>, <<"WebView", "<init>">>,
        <<"Intent", "getBundleExtra">>, <<"Thread", "setPriority">>, <<"File", "setReadOnly">>, <<"ZoneId", "of">>,
        <<"Selector", "open">>, <<"Locale", "getDisplayName">>, <<"Os", "symlink">>, <<"VmPolicy", "detectAll">>,
        <<"SurfaceHolder", "lockCanvas">>, <<"WindowManager", "getCurrentWindowMetrics">>, <<"UserManager", "isUserUnlocked">>,
        <<"Build", "getSerial">>, <<"VpnService", "prepare">>, <<"GLSurfaceView", "setRenderer">>, <<"AlarmManager", "list">>,
        <<"KeyPairGeneratorSpec", "x">>, <<"NetworkInterface", "getByName">>, <<"Draw", "wrapper">>}

App(libs, calls) ==
  [libs |-> libs, target |-> "arm64", calls |-> calls, extracts |-> FALSE, soloader |-> FALSE, pathLoads |-> FALSE,
   loadLibrary |-> {"libapp"}, findings |-> {}, components |-> <<>>, splits |-> {}, processes |-> {}, usesLibraries |-> <<>>,
   services |-> 1, ownIntents |-> {}, externalIntents |-> {}, afterStart |-> FALSE, activities |-> 2, permissions |-> {},
   collations |-> {}, paths |-> {}, features |-> {}, nativeActivity |-> FALSE, focusGated |-> FALSE, wallpapers |-> {},
   markers |-> {}, jca |-> {}, sdkMarkers |-> {}, requests |-> {}, casts |-> {}]
Full ==
  [App(Shadowing, ManyCalls) EXCEPT !.soloader = TRUE, !.splits = {"base"}, !.processes = {"remote"}, !.ownIntents = {"open"},
     !.findings = {Finding("missing_method", "Old", "none"), Finding("missing_class", "New", "none"),
                   Finding("hollow_method", "Old", "hollowed"), Finding("existence_probe", "Old", "none")},
     !.components = <<Component("First", {"auth"}, FALSE), Component("Second", {"auth"}, TRUE)>>,
     !.usesLibraries = <<[name |-> "http", required |-> TRUE], [name |-> "http", required |-> FALSE]>>,
     !.externalIntents = {"share"}, !.afterStart = TRUE, !.permissions = {"RECORD_AUDIO"}, !.collations = {"UNICODE"},
     !.paths = {"fonts", "hosts"}, !.features = {"camera", "vulkan"}, !.focusGated = TRUE, !.wallpapers = {"Home"},
     !.markers = {"libsu"}, !.jca = {[provider |-> "AndroidKeyStore", keystore |-> ""]}, !.sdkMarkers = {"gms"},
     !.requests = {[service |-> "alarm", manager |-> "", checked |-> FALSE, by |-> <<"Main", "run">>],
                   [service |-> "", manager |-> "UsbManager", checked |-> TRUE, by |-> <<"Main", "run">>]},
     !.casts = {[type |-> "WifiManager"]}]
MCApps_ ==
  {Full, App(Twins, {}), App(Interposable, ManyCalls), App(Interposable \cup {WrittenLib}, {}),
   App({[l EXCEPT !.needed = @ \cup {"libcxx"}] : l \in Interposable} \cup Shadowing, {})}

-----------------------------------------------------------------------------
(* Westlake: a tree with few of the contracts, and what is mended in it. *)

MCFiles ==
  [f \in {PM, Bridge, Tasks, Client, AppSpawn, Session, Shim, "SourcePackageRegistry", Launcher, "imehost", "openjdk_stub",
          "sqlite_natives", "missing_natives", "build_missing_natives", "audiorecord", "OHUserManager"} |->
     CASE f = PM -> [m \in {"queryIntentServices", "getInstallerPackageName"} |-> {"logStub", "return null"}]
       [] f = AppSpawn -> ("" :> {"makeProxyStub(AdapterIAM-stub)"} @@ "AdapterIAM-stub" :> {"startService", "bindService"})
       [] f = Launcher -> ("" :> {Target, NetTarget})
       [] f = Tasks -> ("startActivity" :> {"resolve"} @@ "getTasks" :> {"return nothing"})
       [] f = "openjdk_stub" -> ("constants" :> {"setReadOnly0"} @@ "Runtime_nativeLoad" :> {"gone"})
       [] f = Shim -> ("funopen" :> {} @@ "sysconf" :> {"caller_is_android_dso"} @@ "caller_is_android_dso" :> {"packaged"})
       [] f = "audiorecord" -> ("" :> {"GenerateCapturer"})
       [] OTHER -> ("" :> {})]
MCTrees_ ==
  {[files |-> MCFiles, head |-> head, dirty |-> FALSE, libs |-> {"libvulkan", "libandroid"}, shipped |-> {"fonts/"},
    switch |-> <<[is |-> "case", name |-> "camera"], [is |-> "return", answer |-> "true"]>>, ifs |-> {}, table |-> <<>>,
    mapping |-> ("RECORD_AUDIO" :> "MICROPHONE"), registered |-> {}, versions |-> {}, dlopen |-> <<"probe">>,
    surfacePatch |-> TRUE, jniNames |-> {}] : head \in {<<"a", "1">>, <<>>}}
MCHostGuarded == ("MICROPHONE" :> [source |-> "audiorecord", call |-> "GenerateCapturer"])
MCHeads == <<<<"a", "1">>, <<"a", "2">>>>
MCDocuments ==
  {{}, {[probe |-> <<"dialog-before-window">>, row |-> <<>>, outcome |-> "failed", commit |-> <<"a">>,
         on |-> <<"a", "1">>, edited |-> FALSE, at |-> 1]}}
MCFixes == {<<Session, "", "shouldHoldBack">>}
MCContracts == {<<"wm", "dialog-stacking">>}
MCBlockers == <<<<<<"am", "nothing">>, <<"am", "own-task">>>>>>
MCTraces_ == {[known |-> {<<"Main", "run">>, <<"Dialog", "show">>}, records |-> <<>>]}
MCMethods == {<<"Main", "run">>}

MCPolicy == [o \in {"fifo_file", "lnk_file"} |-> [allowed |-> FALSE, fixable |-> o = "fifo_file"]]
MCPolicyImports == ("mkfifo" :> "fifo_file")
MCSdks == {[id |-> "google", marker |-> "gms", firebase |-> FALSE]}
MCEnvSdks == {[id |-> "akamai", marker |-> "libapp"]}
MCPartOf == {<<"gone", "libgone">>}
MCRuntime ==
  [c \in {"Draw", "ActivityThread"} |->
     [libcore |-> FALSE, natives |-> IF c = "Draw" THEN {"nDraw"} ELSE {}, unimplemented |-> {}, zeroed |-> {},
      calls |-> {<<IF c = "Draw" THEN "wrapper" ELSE "handle", "Draw", "nDraw">>}]]

=============================================================================
