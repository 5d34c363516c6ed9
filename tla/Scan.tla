-------------------------------- MODULE Scan --------------------------------
(***************************************************************************)
(* What an app's dex declares, resolved against the boot class path, and   *)
(* its native methods against the libraries (scanner.py).  The index takes *)
(* the artifacts of the boot class path in their order, class by class;    *)
(* then its calls are followed to natives, method by method; then an app   *)
(* is scanned against it, reference by reference.                          *)
(***************************************************************************)
EXTENDS Libraries

CONSTANTS
  BootClassPath,  \* a sequence of artifacts, each with its name and its classes
  Apps,           \* what the inventories of an app contain
  Owner,          \* names of classes
  Init_,          \* the key of constructors
  Framework,      \* classes of the packages within which calls are followed
  CallDepth,      \* of the calls followed to a native
  Bridge, System, \* the runtime's libraries
  UpstreamJars, WestlakeJars

\* The fields of a library; and the runtime has a library register its natives from its
\* JNI_OnLoad alone.  The class of a reference is one of the types of its dex.
ASSUME ScanAssumption ==
  /\ \A a \in Apps : \A l \in a.libs \cup Range(a.harvested) :
       /\ {"abi", "machine", "exports", "undefined", "weak", "versions", "registers"} \subseteq DOMAIN l
       /\ l.registers # {} => "JNI_OnLoad" \in l.exports
  /\ \A a \in Apps : \A r \in a.methods \cup a.fields : r[1] \in a.types

\* Classes and their parents are named, and calls are followed through a wrapper at least.
ASSUME RuntimeAssumption ==
  /\ BootClassPath \in Seq(Range(BootClassPath)) /\ None \notin Owner
  /\ \A a \in Range(BootClassPath) : \A c \in a.classes : c.name \in Owner /\ c.parents \in Seq(Owner)
  /\ CallDepth \in Nat /\ CallDepth >= 2

VARIABLES
  index,       \* the classes indexed, by name
  duplicates,  \* class names by artifact that were found again
  next,        \* the artifact to be indexed
  follow,      \* the calls being followed of a method, or None
  reached,     \* the natives that a method reaches
  app,         \* the app that is scanned, or None
  search,      \* the search for a reference of it, or None
  resolved     \* the class that each reference was found in, or None

indexVars == <<index, duplicates, next>>
callVars == <<follow, reached>>
appVars == <<app, search, resolved>>
scanVars == <<indexVars, callVars, appVars>>

-----------------------------------------------------------------------------
(* class_record() *)

\* A method that only returns, or returns a constant.
IsHollowMethod(m) == m.key # Init_ /\ ~m.native /\ m.body \in {"return", "constant"}
IsHollowClass(c) == c.fields = {} /\ \A m \in c.methods : m.key = Init_

ClassRecord(c, artifact) ==
  [artifact |-> artifact, parents |-> c.parents, fields |-> c.fields,
   methods |-> {m.key : m \in c.methods},
   hollow  |-> {m.key : m \in {k \in c.methods : IsHollowMethod(k)}},
   natives |-> {m.key : m \in {k \in c.methods : k.native}},
   hollowClass |-> IsHollowClass(c),
   calls |-> [k \in {m.key : m \in c.methods} |-> UNION {m.calls : m \in {n \in c.methods : n.key = k}}]]

\* build_runtime_index(): the first definition of a class wins.
Indexed_Last(i, a) ==
  [o \in DOMAIN i \cup {c.name : c \in a.classes} |->
     IF \E c \in a.classes : c.name = o
       THEN ClassRecord(CHOOSE c \in a.classes : c.name = o, a.name) ELSE i[o]]
Indexed(i, a) ==
  [o \in DOMAIN i \cup {c.name : c \in a.classes} |->
     IF o \in DOMAIN i THEN i[o]
     ELSE ClassRecord(CHOOSE c \in a.classes : c.name = o, a.name)]

Duplicated(i, a) == {[name |-> c.name, artifact |-> a.name] : c \in {d \in a.classes : d.name \in DOMAIN i}}

IndexArtifact ==
  /\ next <= Len(BootClassPath)
  /\ index' = Indexed(index, BootClassPath[next])
  /\ duplicates' = duplicates \cup Duplicated(index, BootClassPath[next])
  /\ next' = next + 1 /\ UNCHANGED <<callVars, appVars>>
Complete == next > Len(BootClassPath)

-----------------------------------------------------------------------------
(* _index_native_calls(): the natives that a method of the framework reaches,    *)
(* within the framework, CallDepth deep, as declared.                            *)

IsNative(c) == c[1] \in DOMAIN index /\ c[2] \in index[c[1]].natives
Callees(c) ==
  IF c[1] \in DOMAIN index \cap Framework /\ c[2] \in index[c[1]].methods
    THEN {t \in index[c[1]].calls[c[2]] : t[1] \in Framework} ELSE {}
IndexedMethods == UNION {{<<o, k>> : k \in index[o].methods} : o \in DOMAIN index}
Followed == Complete /\ IndexedMethods \subseteq DOMAIN reached

Extended(f, x, value) == [y \in DOMAIN f \cup {x} |-> IF y = x THEN value ELSE f[y]]

FollowCalls ==
  /\ Complete /\ follow = None /\ ~Followed
  /\ LET caller == CHOOSE c \in IndexedMethods : c \notin DOMAIN reached
     IN  follow' = [caller |-> caller, depth |-> 0, frontier |-> Callees(caller),
                    seen |-> {caller}, natives |-> {}]
  /\ UNCHANGED <<indexVars, reached, appVars>>
FollowDeeper ==
  /\ follow # None /\ follow.depth < CallDepth
  /\ LET new == follow.frontier \ follow.seen
     IN  follow' = [follow EXCEPT
           !.depth = @ + 1, !.seen = @ \cup new, !.natives = @ \cup {c \in new : IsNative(c)},
           !.frontier = UNION {Callees(c) : c \in {d \in new : ~IsNative(d)}}]
  /\ UNCHANGED <<indexVars, reached, appVars>>
NativeCalls ==
  /\ follow # None /\ follow.depth = CallDepth
  /\ reached' = Extended(reached, follow.caller, follow.natives)
  /\ follow' = None /\ UNCHANGED <<indexVars, appVars>>

-----------------------------------------------------------------------------
(* RuntimeResolver: the superclass before the interfaces, depth first, each      *)
(* class once; no constructor is inherited.                                      *)

HasClass(owner) == owner \in DOMAIN index

\* A reference is of an owner, a key and a kind of member.
Resolve(owner, key, kind) == resolved[<<owner, key, kind>>]
Inherited(key, kind) == ~(kind = "methods" /\ key = Init_)

Searching == search # None /\ search.above # <<>>
At == Head(search.above)
Unseen == HasClass(At) /\ At \notin search.seen
Has(o) == search.key \in index[o][search.kind]
Answer(owner) ==
  /\ resolved' = Extended(resolved, <<search.owner, search.key, search.kind>>, owner)
  /\ search' = None

LookAbove ==
  /\ Searching /\ Unseen /\ ~Has(At)
  /\ search' = [search EXCEPT
       !.seen = @ \cup {At},
       !.above = (IF Inherited(search.key, search.kind) THEN index[At].parents ELSE <<>>) \o Tail(@)]
  /\ UNCHANGED <<indexVars, callVars, app, resolved>>
LookBeside ==
  /\ Searching /\ ~Unseen
  /\ search' = [search EXCEPT !.seen = @ \cup {At}, !.above = Tail(@)]
  /\ UNCHANGED <<indexVars, callVars, app, resolved>>
Hit == Searching /\ Unseen /\ Has(At) /\ Answer(At) /\ UNCHANGED <<indexVars, callVars, app>>
Miss ==
  /\ search # None /\ search.above = <<>> /\ Answer(None)
  /\ UNCHANGED <<indexVars, callVars, app>>

-----------------------------------------------------------------------------
(* scan_apk(): the findings of the app's references.  An app is a record:        *)
(* defined, types, methods and fields (pairs of owner and key), probes (classes  *)
(* looked up by name), used (owners of its calls), natives, loads, libs, asked   *)
(* (the target ABI), elf (whether libraries are scanned at all).                 *)

Finding(kind, class, owner, name) == [kind |-> kind, class |-> class, owner |-> owner, name |-> name]
Stub(owner) == index[owner].hollowClass \/ index[owner].artifact = "stub"
Absent(owner) == IF Stub(owner) THEN "C9-candidate" ELSE "C1/C4"

MissingClasses(a) == {o \in a.types : o \notin a.defined /\ ~HasClass(o)}
Kinds == {"methods", "fields"}
MissingKind == [methods |-> "missing_method", fields |-> "missing_field"]
Looked(refs, a) == {r \in refs : r[1] \notin a.defined /\ HasClass(r[1])}
Dangling(kind, a) == {r \in Looked(a[kind], a) : Resolve(r[1], r[2], kind) = None}
MissingMembers(kind, a) == {Finding(MissingKind[kind], Absent(r[1]), r[1], r[2]) : r \in Dangling(kind, a)}
HollowRefs(a) ==
  {r \in Looked(a.methods, a) : LET o == Resolve(r[1], r[2], "methods")
                                IN  o # None /\ r[2] \in index[o].hollow}

JavaFindings(a) ==
  {Finding("missing_class", "C1/C4", o, None) : o \in MissingClasses(a)}
  \cup MissingMembers("methods", a) \cup MissingMembers("fields", a)
  \cup {Finding("hollow_method", "C9-candidate", r[1], r[2]) : r \in HollowRefs(a)}
  \cup {Finding("existence_probe", IF o \in a.used THEN "CU" ELSE "C8-candidate", o, None) :
          o \in {p \in a.probes : p \notin a.defined /\ ~HasClass(p)}}

-----------------------------------------------------------------------------
(* The native methods it declares: each with its owner, its dex, its name and    *)
(* descriptor, and the symbols it may be exported as.                            *)

Target(a) == TargetAbi(a.asked, None, Bridge)
Packaged(a) == IF a.elf THEN WithUnpacked(a.libs, a.harvested) ELSE {}
Libs(a) == Selected(Packaged(a), Target(a))
OnLoad(l) == "JNI_OnLoad" \in l.exports
BridgeLibs(a) == SelectedOfRuntime(Bridge, Target(a))
SystemLibs(a) == SelectedOfRuntime(System, Target(a))

\* Libraries that the code of its class or of its dex loads by name.
Candidates(n, a) ==
  {l \in Libs(a) : \E call \in a.loads :
     /\ call.owner = n.owner \/ call.dex = n.dex
     /\ call.value \in {l.file, l.name}}
InTable(n, a) ==
  \E l \in Libs(a) : \E e \in RegistrationEntries(l) : e.name = n.name /\ e.sig = n.sig

NativeState_OnLoadLast(n, a) ==
  IF ~a.elf THEN "elf-scan-skipped"
  ELSE IF n.symbols \cap ExportsOf(Libs(a)) # {} THEN "apk-export-resolved"
  ELSE IF InTable(n, a) THEN "static-registration-table-candidate"
  ELSE IF Candidates(n, a) # {} THEN "load-attributed-no-binding-evidence"
  ELSE "no-export-or-registration-evidence"

NativeState(n, a) ==
  IF ~a.elf THEN "elf-scan-skipped"
  ELSE IF n.symbols \cap ExportsOf(Libs(a)) # {} THEN "apk-export-resolved"
  ELSE IF n.symbols \cap ExportsOf(BridgeLibs(a)) # {} THEN "runtime-export-resolved"
  ELSE IF AbiStatus(Packaged(a), Target(a)) \in {"target-abi-unavailable", "target-abi-elf-mismatch"}
    THEN AbiStatus(Packaged(a), Target(a))
  ELSE IF InTable(n, a) THEN "static-registration-table-candidate"
  ELSE IF \E l \in Candidates(n, a) : OnLoad(l) THEN "library-scoped-registration-unresolved"
  ELSE IF Candidates(n, a) # {} THEN "load-attributed-no-binding-evidence"
  ELSE IF \E l \in Libs(a) : OnLoad(l) THEN "registration-source-unattributed"
  ELSE "no-export-or-registration-evidence"

NativeClass(state) ==
  CASE state \in {"apk-export-resolved", "runtime-export-resolved"} -> "C0"
    [] state = "no-export-or-registration-evidence" -> "V-C1-candidate"
    [] OTHER -> "CU"

NativeFindings(a) ==
  {Finding("unbound_native", NativeClass(NativeState(n, a)), n.owner, n.name) :
     n \in {m \in a.natives : a.elf /\ NativeClass(NativeState(m, a)) # "C0"}}
  \cup {Finding("native_import", i.class, "native-import", i.symbol) :
          i \in {j \in Imports(Libs(a), BridgeLibs(a), SystemLibs(a)) : j.class # "C0"}}
  \cup {Finding("native_import_coverage", "O-BLIND", "native-import", "runtime-system-library-index") :
          b \in {TRUE} \cap {SystemLibs(a) = {} /\ \E l \in Libs(a) : l.undefined # {}}}

-----------------------------------------------------------------------------
(* nativeupcall.py: the platform classes and members that a library names.       *)
(* Reference is the public API: classes with their members and parents.          *)

CONSTANTS Reference, Object

Hierarchy(owner, classes) ==
  LET up(s) == s \cup UNION {Range(classes[o].parents) \ {Object} : o \in s \cap DOMAIN classes}
  IN  FoldLeft(LAMBDA s, n : up(s), {owner} \ {Object}, [n \in 1 .. Cardinality(Owner) |-> n])
        \cap DOMAIN classes

NamedMembers(owner, l, classes, kind) ==
  {k \in UNION {classes[o][kind] : o \in Hierarchy(owner, classes)} :
     /\ k \in l.strings
     /\ k = Init_ => owner \in DOMAIN classes /\ k \in classes[owner][kind]}
UpcallClasses(l) == l.strings \cap Owner
UpcallMembers(l, owner, kind) == NamedMembers(owner, l, Reference, kind) \cup NamedMembers(owner, l, index, kind)

UpcallClassState(owner) ==
  IF HasClass(owner) THEN "present" ELSE IF owner \in DOMAIN Reference THEN "missing" ELSE "unknown"

UpcallMemberState(owner, key, kind) ==
  LET hit == Resolve(owner, key, kind)
  IN  CASE UpcallClassState(owner) = "missing" -> "class-missing"
        [] UpcallClassState(owner) = "unknown" -> "class-unknown"
        [] OTHER ->
             IF hit = None THEN "missing"
             ELSE IF kind = "methods" /\ key \in index[hit].hollow /\ index[hit].artifact \notin UpstreamJars
               THEN IF index[hit].artifact \in WestlakeJars THEN "hollow" ELSE "hollow-candidate"
             ELSE "present"

UpcallKind == [methods |-> "native_upcall_method", fields |-> "native_upcall_field"]
UpcallMembersFound(l, kind) ==
  UNION {{Finding(IF UpcallMemberState(o, k, kind) = "missing" THEN UpcallKind[kind] ELSE "native_upcall_hollow",
                  IF UpcallMemberState(o, k, kind) = "missing" THEN "C1/C4" ELSE "C9-candidate", o, k) :
            k \in {m \in UpcallMembers(l, o, kind) :
                     UpcallMemberState(o, m, kind) \in {"missing", "hollow", "hollow-candidate"}}} :
         o \in UpcallClasses(l)}
UpcallFindings(l) ==
  {Finding("native_upcall_class", IF UpcallClassState(o) = "missing" THEN "C1/C4" ELSE "CU", o, None) :
     o \in {p \in UpcallClasses(l) : UpcallClassState(p) # "present"}}
  \cup UpcallMembersFound(l, "methods") \cup UpcallMembersFound(l, "fields")

Findings(a) ==
  JavaFindings(a) \cup NativeFindings(a) \cup UNION {UpcallFindings(l) : l \in Libs(a)}

-----------------------------------------------------------------------------
(* The scan of an app: one after the other, whatever is resolved for it. *)

UpcallsOf(l, kind) ==
  UNION {{<<o, k, kind>> : k \in UpcallMembers(l, o, kind)} : o \in {p \in UpcallClasses(l) : HasClass(p)}}
AskedOf(kind, a) ==
  {<<r[1], r[2], kind>> : r \in Looked(a[kind], a)} \cup UNION {UpcallsOf(l, kind) : l \in Libs(a)}
Asked(a) == AskedOf("methods", a) \cup AskedOf("fields", a)

ScanApk ==
  /\ Followed /\ follow = None /\ app = None
  /\ app' \in Apps /\ UNCHANGED <<indexVars, callVars, search, resolved>>
Scanned == app # None /\ Asked(app) \subseteq DOMAIN resolved

Ask ==
  /\ app # None /\ search = None /\ ~Scanned
  /\ LET q == CHOOSE x \in Asked(app) : x \notin DOMAIN resolved
     IN  search' = [owner |-> q[1], key |-> q[2], kind |-> q[3], seen |-> {}, above |-> <<q[1]>>]
  /\ UNCHANGED <<indexVars, callVars, app, resolved>>

ScanInit ==
  /\ index = [o \in {} |-> None] /\ duplicates = {} /\ next = 1
  /\ follow = None /\ reached = [m \in {} |-> {}]
  /\ app = None /\ search = None /\ resolved = [q \in {} |-> None]
ScanNext ==
  \/ IndexArtifact
  \/ FollowCalls \/ FollowDeeper \/ NativeCalls
  \/ ScanApk \/ Ask \/ LookAbove \/ LookBeside \/ Hit \/ Miss
ScanSpec == ScanInit /\ [][ScanNext]_scanVars

-----------------------------------------------------------------------------
(* Properties.  The device loads the first definition of a class on its boot     *)
(* class path, and runs JNI_OnLoad of the libraries that it loads.               *)

Definers(o) == {i \in DOMAIN BootClassPath : \E c \in BootClassPath[i].classes : c.name = o}
OnDevice(o) == CHOOSE c \in BootClassPath[Min(Definers(o))].classes : c.name = o
Closed(S) == \A p \in S : Definers(p) # {} => Range(OnDevice(p).parents) \subseteq S
Above(o) ==
  LET Named == Owner \cup {o}
  IN  {p \in Named : \A S \in SUBSET Named : o \in S /\ Closed(S) => p \in S}
Declares(p, key, kind) ==
  /\ Definers(p) # {}
  /\ key \in IF kind = "methods" THEN {m.key : m \in OnDevice(p).methods} ELSE OnDevice(p).fields
DeviceHas(o, key, kind) ==
  \E p \in IF kind = "methods" /\ key = Init_ THEN {o} ELSE Above(o) : Declares(p, key, kind)

\* The methods that a method of the device calls, and those of them that are native.
DeviceCalls(c) ==
  UNION {m.calls : m \in {n \in OnDevice(c[1]).methods : Definers(c[1]) # {} /\ n.key = c[2]}}
NativeOnDevice(c) == Definers(c[1]) # {} /\ \E m \in OnDevice(c[1]).methods : m.key = c[2] /\ m.native
InFramework(calls) == {c \in calls : c[1] \in Framework}

\* A method or a field that the app refers to and the device cannot resolve is a finding,
\* of itself or of its class, and one that the device resolves is none: whatever jar
\* shadows which, inherited or not (scanner.py:907, 1521-1545, 1987-2040).  Neither is a
\* method or a field that a library calls back and the device has (nativeupcall.py:155-184).
\* What a method is said to reach is native on the device and of the framework; and for a
\* method of the framework that is every such native that it calls, itself or through a
\* wrapper of the framework, and maybe natives further away (scanner.py:226-235, 239).
UnresolvedIsFound ==
  Scanned =>
    /\ \A kind \in Kinds : \A r \in app[kind] : r[1] \notin app.defined =>
         (~DeviceHas(r[1], r[2], kind) <=> \E f \in JavaFindings(app) :
            f.owner = r[1] /\ (f.kind = "missing_class" \/ (f.kind = MissingKind[kind] /\ f.name = r[2])))
    /\ \A kind \in Kinds : \A f \in Findings(app) :
         f.kind = UpcallKind[kind] => ~DeviceHas(f.owner, f.name, kind)
    /\ \A m \in IndexedMethods :
         LET wrappers == {m} \cup {c \in InFramework(DeviceCalls(m)) : ~NativeOnDevice(c)}
         IN  /\ \A c \in reached[m] : c[1] \in Framework /\ NativeOnDevice(c)
             /\ m[1] \in Framework =>
                  \A c \in InFramework(UNION {DeviceCalls(w) : w \in wrappers}) \ {m} :
                    NativeOnDevice(c) => c \in reached[m]

\* A native method that a library of the target ABI exports or registers when it is
\* loaded is never reported absent, however the app comes to load that library
\* (scanner.py:1916, 2111-2137).
BoundIsNotAbsent ==
  Scanned => \A n \in app.natives :
    (\E l \in Libs(app) : n.symbols \cap l.exports # {} \/ n.name \in l.registers) =>
      NativeState(n, app) # "no-export-or-registration-evidence"

\* The scan and the resolver for the board, which read the same libraries, agree on the
\* symbols that nothing on the board exports, as far as both look: without libraries that
\* lie in a directory of another ABI.  A symbol that the board does export is missing only
\* for its version, or because a backup copy alone has it (nativeprov.py:483-487,
\* ohresolve.py:7-10, 92-105).
ResolversAgree ==
  (Scanned /\ \A l \in Packaged(app) : Matches(l)) =>
    LET board == BridgeLibs(app) \cup SystemLibs(app)
        missing == Missing(Packaged(app), board, Target(app))
    IN  /\ {i.symbol : i \in {j \in Imports(Libs(app), BridgeLibs(app), SystemLibs(app)) :
                               j.class \notin {"C0", "N-C5-candidate"}}}
             = missing \ ExportsOf(board)
        /\ \A s \in missing \cap ExportsOf(Live(board)) : \E l \in Libs(app) : s \in DOMAIN l.versions
=============================================================================
