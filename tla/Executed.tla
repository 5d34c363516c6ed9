------------------------------ MODULE Executed ------------------------------
(***************************************************************************)
(* What a method trace of one run says of the platform: which platform     *)
(* methods it touched (tracecmp.py observe), which of them the runtime     *)
(* under test has (framework_check), and since which level the platform    *)
(* has a member at all (platformapi.py).  Methods are pairs of a class and *)
(* a signature.                                                            *)
(***************************************************************************)
EXTENDS Naturals, FiniteSetsExt, SequencesExt

CONSTANTS
  Record,     \* class of the runtime -> [parents, natives, hollow, declares]
  AppClass,   \* classes the app defines
  Calls,      \* app method -> methods it calls
  Jar,        \* class of the runtime -> "upstream", "westlake" or "other"
  Slot,       \* bytes of a slot of a registration table
  Generated,  \* methods whose names the compiler makes up
  Android     \* level -> class -> names of its members
VARIABLE samples   \* a trace: the methods it knows by name, and its records

-----------------------------------------------------------------------------
(* methodtrace.parse: the methods known by name that a record was written of. *)

SampledMethods(trace) == {trace.records[i].method : i \in DOMAIN trace.records} \cap trace.known

-----------------------------------------------------------------------------
(* observe *)

\* The class and what is above it, depth first; a class the runtime lacks is above nothing.
Line(c) ==
  LET up[d \in STRING, n \in Nat] ==
        IF n = 0 \/ d \notin DOMAIN Record THEN <<d>>
        ELSE <<d>> \o FlattenSeq([i \in DOMAIN Record[d].parents |-> up[Record[d].parents[i], n - 1]])
  IN  up[c, Cardinality(DOMAIN Record)]
Above(c) == Range(Line(c))

\* A method of a class that is not the app's, or is no method the app defines, is by signature alone.
AppRan(ran) == ran \cap DOMAIN Calls
OwnersOf(ran, signature) == {m[1] : m \in {m \in ran : m[2] = signature /\ m[1] \notin AppClass}}

Touched(ran) == {m \in UNION {Calls[a] : a \in AppRan(ran)} : m[1] \notin AppClass}
Touch(ran, m) ==
  IF \E owner \in OwnersOf(ran, m[2]) : m[1] \in Above(owner) THEN "executed" ELSE "referenced"

-----------------------------------------------------------------------------
(* jni_tables: slots next to each other make one table.                    *)

Tables(library) ==
  LET slots == SortSeq(library.slots, LAMBDA a, b : a.at < b.at)
      starts == {i \in DOMAIN slots : i = 1 \/ slots[i].at - slots[i - 1].at # Slot}
      Block(i) == i .. Min({j - 1 : j \in {j \in starts : j > i}} \cup {Len(slots)})
  IN  {[library |-> library.name, methods |-> {slots[j].method : j \in Block(i)},
        for |-> {slots[j].for : j \in Block(i)}] : i \in starts}

\* Every table and every export that the board's libraries hold.
BoardTables(libraries) == UNION {Tables(l) : l \in libraries}
Exported(libraries) == UNION {l.exports : l \in libraries}

\* The table that shares most of a class's natives, half of its own or three at least.
Shared(table, natives) == Cardinality(table.methods \cap natives)
Eligible(natives, libraries) ==
  {t \in BoardTables(libraries) : LET n == Shared(t, natives)
                                  IN  n > 0 /\ (2 * n >= Cardinality(t.methods) \/ n >= 3)}
Better(a, b, natives) ==
  \/ Shared(a, natives) > Shared(b, natives)
  \/ Shared(a, natives) = Shared(b, natives) /\ Cardinality(a.methods) <= Cardinality(b.methods)
BestTables(natives, libraries) ==
  LET eligible == Eligible(natives, libraries)
  IN  {t \in eligible : \A u \in eligible : Better(t, u, natives)}

-----------------------------------------------------------------------------
(* framework_check *)

\* The class the method is found on, the first that declares it.
Declaring(m) ==
  SelectInSeq(Line(m[1]), LAMBDA c : c \in DOMAIN Record /\ m[2] \in Record[c].declares)

\* Equal tables are told apart by nothing: either may be taken.
TableStates(m, c, libraries) ==
  LET best == BestTables(Record[c].natives, libraries)
  IN  IF <<c, m[2]>> \in Exported(libraries) THEN {"native-bound"}
      ELSE {IF m[2] \in t.methods THEN "native-bound" ELSE "native-unbound" : t \in best}
           \cup {"native-unbound" : t \in IF best = {} THEN {1} ELSE {}}

HollowState(c) ==
  CASE Jar[c] = "upstream" -> "present" [] Jar[c] = "westlake" -> "hollow" [] OTHER -> "hollow-candidate"

States(m, libraries) ==
  IF m \in Generated THEN {"compiler-generated"}
  ELSE IF m[1] \notin DOMAIN Record THEN {"class-missing"}
  ELSE IF Declaring(m) = 0 THEN {"member-missing"}
  ELSE LET c == Line(m[1])[Declaring(m)]
       IN  IF m[2] \in Record[c].natives THEN TableStates(m, c, libraries)
           ELSE {IF m[2] \in Record[c].hollow THEN HollowState(c) ELSE "present"}

FrameworkFindings(trace, libraries) ==
  UNION {{<<m, s>> : s \in States(m, libraries) \ {"present", "native-bound", "compiler-generated"}} :
           m \in {m \in SampledMethods(trace) : m[1] \notin AppClass}}

-----------------------------------------------------------------------------
(* platformapi.py: the level a member came with, by its name alone.        *)

Levels(class) == {api \in DOMAIN Android : class \in DOMAIN Android[api]}
Introduced(class, member) == {api \in Levels(class) : member \in Android[api][class]}

LevelVerdict(class, member, reference) ==
  LET since == IF member = "" THEN Levels(class) ELSE Introduced(class, member)
  IN  IF since # {} /\ Min(since) <= reference THEN "required"
      ELSE IF since # {} THEN "newer-than-reference"
      ELSE IF Levels(class) = {} THEN "absent-from-platform"
      ELSE "member-not-in-indexed-jars"

-----------------------------------------------------------------------------
(* report.py aggregate: the gaps of a portfolio, by what they lack.        *)

Gap(f) == <<f.kind, f.owner, f.name, f.signature>>
Known(scans) == {k \in UNION {{i} \X scans[i].findings : i \in DOMAIN scans} : k[2].class # "CU"}
Gaps(scans) == {Gap(k[2]) : k \in Known(scans)}
AffectedApks(scans, gap) == {scans[k[1]].package : k \in {k \in Known(scans) : Gap(k[2]) = gap}}
UnresolvedContracts(scans) ==
  {<<f.kind, f.owner, f.name, f.signature>> : f \in {g \in UNION {s.findings : s \in Range(scans)} : g.class = "CU"}}

-----------------------------------------------------------------------------
(* The run goes on, a sample at a time.                                    *)

ExecutedInit(traces) == samples \in traces
ExecutedNext(methods, threads, max) ==
  /\ Len(samples.records) < max
  /\ \E m \in methods, t \in threads :
       samples' = [samples EXCEPT !.records = Append(@, [method |-> m, thread |-> t])]
=============================================================================
