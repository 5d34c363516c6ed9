------------------------------ MODULE MCOffline ------------------------------
(***************************************************************************)
(* The offline readings, against reference definitions over bounded        *)
(* inputs.  They have no steps: TLC evaluates the assumptions below before *)
(* it runs the scanner (MCScan).                                           *)
(***************************************************************************)
EXTENDS Libraries

-----------------------------------------------------------------------------
(* A library of four functions, at 1, 3, 5 and 7, the last two stubs of the  *)
(* PLT; one branch and one call among the first, each from within either.    *)

PointsTo(kind, of) == [is |-> kind, of |-> of]
Layout(calls, jumps) ==
  [name |-> "l", file |-> "l", machine |-> "arm64", abi |-> "arm64", exports |-> {"own"}, undefined |-> {"dlopen", "puts"},
   weak |-> {}, strings |-> {"own", "puts", "gets"}, relocations |-> <<>>,
   data |-> <<PointsTo("name", "nat"), PointsTo("sig", [platform |-> FALSE]), PointsTo("code", 1)>>,
   functions |-> {1, 3, 5, 7}, bl |-> calls, b |-> jumps, stubs |-> (5 :> "puts" @@ 7 :> "dlopen")]
Layouts ==
  {Layout(calls, jumps) : calls \in SUBSET ({1, 2, 3, 4} \X {3, 5}), jumps \in SUBSET {<<2, 3>>, <<3, 7>>, <<4, 7>>}}

\* What runs, function by function, each from its own start.
Runs(l, start) ==
  LET edges == {<<EntryOf(e[1], l.functions), e[2]>> : e \in l.bl \cup l.b}
      reached[n \in 0 .. 4] == IF n = 0 THEN {start} ELSE reached[n - 1] \cup {e[2] : e \in {d \in edges : d[1] \in reached[n - 1]}}
  IN  {l.stubs[f] : f \in reached[4] \cap DOMAIN l.stubs}

\* method_surface_reach() on a library whose every function something calls: what it
\* gives a registered method is what the method gets to, less where the budget ran out
\* (nativeprov.py:330-402); so is the attribution of an import to methods (538-564).
ASSUME ReachIsWhatRuns ==
  \A l \in Layouts : \A e \in RegistrationEntries(l) :
    (l.functions \subseteq Entries(l)) =>
      LET reach == MethodReach(l, e)
      IN  /\ reach.imports \subseteq Runs(l, e.start)
          /\ ~reach.truncated => reach.imports = Runs(l, e.start)
          /\ \A s \in l.undefined : e.name \in ReachingMethods(l, s) <=> s \in reach.imports

\* Three readings of one string table (scanner.py:361-410, 815-831): a name is an
\* import, or is looked up, or is the library's own, and no two of these.
ASSUME OneReadingOfAName ==
  \A l \in Layouts : \A name \in {"own", "puts", "gets", "dlopen"} :
    /\ VmLookup(l, name) = "by-name" <=> name \in RuntimeSymbolCandidates(l, {name})
    /\ name \in RuntimeSymbolCandidates(l, {name}) <=> name \in Lookups(l, {name}) \ l.exports
    /\ name \in DynamicSymbolCandidates(l) => name \in l.strings

\* More strings and exports never make a contained component one that is only linked
\* (nativeprov.py:185-187).
ASSUME ContainedStaysContained ==
  LET Lib(strings, exports, undefined) == [strings |-> strings, exports |-> exports, undefined |-> undefined]
      Sets == SUBSET {"a", "b"}
      Component(minimum) == [banner |-> "banner", symbols |-> {"a", "b"}, minimum |-> minimum]
  IN  \A banner \in SUBSET {"banner"}, x \in Sets, u \in Sets, minimum \in 0 .. 2 :
        ComponentRelation(Component(minimum), Lib(banner, x, u)) = "contains" =>
          \A y \in {y \in Sets : x \subseteq y} :
            ComponentRelation(Component(minimum), Lib({"banner"}, y, u)) = "contains"

\* What a run registered is what the scan recovered, but for what is counted: of a
\* library that the APK lacks, of one without a table, or of one with (570-639).
ASSUME CaptureAccountsForAll ==
  \A l \in {Layout({}, {}), [Layout({}, {}) EXCEPT !.data = <<>>]}, name \in {"l", "other"}, methods \in SUBSET {"nat", "late"} :
    LET c == Capture({[lib |-> name, methods |-> methods]}, {l})
    IN  /\ \A m \in methods : <<name, m>> \in c.runtimeOnly \/ (m = "nat" /\ name = "l" /\ l.data # <<>>)
        /\ c.absent \cap c.opaque = {}
        /\ (methods # {} /\ (name # "l" \/ l.data = <<>>)) => name \in c.absent \cup c.opaque

-----------------------------------------------------------------------------
(* A board's tables, which classes they are registered for, and a run.       *)

PlatformClass(natives, parents) == [parents |-> parents, natives |-> natives, hollow |-> {"h"}, declares |-> natives \cup {"h"}]
FrameworkRecord == [c \in {"C", "D"} |-> IF c = "C" THEN PlatformClass({"m", "n"}, <<"D">>) ELSE PlatformClass({"p"}, <<>>)]
Check == INSTANCE Executed WITH samples <- <<>>, Record <- FrameworkRecord, AppClass <- {"A"},
  Calls <- <<>>, Jar <- [c \in {"C", "D"} |-> "westlake"], Slot <- 8, Generated <- {}, Android <- <<>>

Slots == [at : {0, 8, 24}, method : {"m", "n", "p"}, for : {"C", "D"}]
Boards ==
  {{[name |-> "l", slots |-> s, exports |-> x]} :
     s \in {<<>>} \cup {<<a>> : a \in Slots} \cup {<<a, b>> : a \in Slots, b \in {t \in Slots : t.at > 0}},
     x \in {{}, {<<"C", "n">>}}}
Supplied(board, class, method) ==
  \E l \in board : <<class, method>> \in l.exports
                   \/ \E i \in DOMAIN l.slots : l.slots[i].for = class /\ l.slots[i].method = method

\* framework_check() says that a native the app ran is unbound only if nothing supplies
\* it, for a class registered from one table that holds no other's natives; and a method
\* of a class below is looked for on the class that declares it (tracecmp.py:166-227).
ASSUME UnboundIsUnsupplied ==
  \A libraries \in Boards : \A m \in {<<"C", "m">>, <<"C", "n">>, <<"D", "p">>, <<"C", "p">>} :
    LET states == Check!States(m, libraries)  class == IF m[2] = "p" THEN "D" ELSE "C"
        own == {t \in Check!BoardTables(libraries) : class \in t.for}
    IN  ((\A t \in own : t.for = {class} /\ t.methods \subseteq FrameworkRecord[class].natives) /\ Cardinality(own) <= 1) =>
          /\ states = {"native-unbound"} => ~Supplied(libraries, class, m[2])
          /\ Check!FrameworkFindings([known |-> {m}, records |-> <<[method |-> m]>>], libraries) = {<<m, s>> : s \in states \ {"native-bound"}}

\* aggregate() counts a contract once for a package, in however many APKs of it, and
\* never one that no scan decided (report.py:13-121).
ASSUME GapsOfPackages ==
  LET Found(class) == [kind |-> "missing_class", owner |-> "o", name |-> "", signature |-> "", class |-> class]
      Scan(package, class) == [package |-> package, findings |-> {Found(class)}]
      gap == <<"missing_class", "o", "", "">>
  IN  \A p, q \in {"p", "q"}, c, d \in {"C1", "CU"} :
        LET scans == <<Scan(p, c), Scan(q, d)>>  C == {<<p, c>>, <<q, d>>}
            of == Check!AffectedApks(scans, gap)
        IN  /\ of = {x[1] : x \in {x \in C : x[2] # "CU"}}
            /\ gap \in Check!Gaps(scans) <=> of # {}
            /\ gap \in Check!UnresolvedContracts(scans) <=> "CU" \in {c, d}
=============================================================================
