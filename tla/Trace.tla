------------------------------- MODULE Trace -------------------------------
(***************************************************************************)
(* The runtime trace ledger (trace.py): what a run of an app says of the   *)
(* contracts its static scan left open.  A line of the trace becomes an    *)
(* event, which is joined to the watched contracts it can have come from.  *)
(* The app that runs, and the call each line really comes from, are part   *)
(* of the environment: an event names some of it, or nothing.              *)
(***************************************************************************)
EXTENDS Naturals, SequencesExt

CONSTANTS NotNamed,    \* what an event or a scan does not name
          Portfolios, \* sequences of scans of apps, each with natives and probes
          Lines,      \* what a line of the trace says, but not where it comes from
          MaxEvents

\* A native has symbols and a contract, a probe a class requested and a caller.
ASSUME TraceAssumption ==
  \A scanned \in Portfolios :
    /\ scanned \in Seq(Range(scanned))
    /\ \A scan \in Range(scanned) :
         /\ scan.natives \in Seq(Range(scan.natives)) /\ scan.probes \in Seq(Range(scan.probes))
         /\ \A n \in Range(scan.natives) : {"symbols", "contract"} \subseteq DOMAIN n /\ "requested" \notin DOMAIN n
         /\ \A q \in Range(scan.probes) : {"requested", "caller"} \subseteq DOMAIN q /\ "symbols" \notin DOMAIN q

VARIABLES scans, events

traceVars == <<scans, events>>

-----------------------------------------------------------------------------
(* build_watchlist *)

Unreachable == {"target-abi-unavailable", "target-abi-elf-mismatch"}

\* An item of a scan, with what the scan says of its app.
InApp(scan, item) ==
  [field \in DOMAIN item \cup {"apk", "package", "lock"} |->
     IF field \in {"apk", "package", "lock"} THEN scan[field] ELSE item[field]]

\* A place is a scan's number and an item's in it; of the places with one key, the last.
Follows(q, p) == q[1] > p[1] \/ (q[1] = p[1] /\ q[2] > p[2])
LastByKey(places, key) ==
  {p \in places : \A q \in places : Follows(q, p) => key[q] # key[p]}

NativeAt(p) == scans[p[1]].natives[p[2]]
NativePlaces == UNION {{i} \X DOMAIN scans[i].natives : i \in DOMAIN scans}
Open(native) == native.class # "C0" /\ native.state \notin Unreachable
NativeWatches ==
  {InApp(scans[p[1]], NativeAt(p)) :
     p \in LastByKey({p \in NativePlaces : Open(NativeAt(p))},
                     [q \in NativePlaces |-> <<scans[q[1]].apk, NativeAt(q).contract, NativeAt(q).dex>>])}

\* The key names the method of the probe, not its signature.
ProbeAt(p) == scans[p[1]].probes[p[2]]
ProbePlaces == UNION {{i} \X DOMAIN scans[i].probes : i \in DOMAIN scans}
ProbeWatches ==
  {InApp(scans[p[1]], ProbeAt(p)) :
     p \in LastByKey(ProbePlaces,
                     [q \in ProbePlaces |-> <<scans[q[1]].apk, ProbeAt(q).requested, ProbeAt(q).caller.class,
                                               ProbeAt(q).caller.method, ProbeAt(q).dex>>])}

Apks == {scans[i].apk : i \in DOMAIN scans}
Locks == {scans[i].lock : i \in DOMAIN scans}

-----------------------------------------------------------------------------
(* parse_trace_line: a structured line holds its event, and the runtime's  *)
(* older texts are tried in this order.                                    *)

NoEvent == [type |-> NotNamed, symbol |-> NotNamed, contract |-> NotNamed, terminal |-> TRUE,
            requested |-> NotNamed, caller |-> [class |-> NotNamed, method |-> NotNamed, signature |-> NotNamed],
            lock |-> NotNamed, apk |-> NotNamed, package |-> NotNamed]

Texts == <<"structured", "dlsym", "registry", "terminal", "primary">>

\* pretty is the contract a printed method stands for, NotNamed when it does not parse.
EventOf(text, line) ==
  CASE text = "structured" -> line.event
    [] text = "dlsym"    -> [NoEvent EXCEPT !.type = "JNI_DLSYM_HIT", !.symbol = line.symbol]
    [] text = "registry" -> [NoEvent EXCEPT !.type = "REGISTER_NATIVE", !.contract = line.contract]
    [] text = "terminal" -> [NoEvent EXCEPT !.type = "JNI_LOOKUP_MISS", !.symbol = line.symbol]
    [] text = "primary"  -> [NoEvent EXCEPT !.type = "JNI_PRIMARY_LOOKUP_MISS", !.contract = line.pretty,
                                            !.terminal = FALSE]

Parsed(line) == EventOf(Texts[SelectInSeq(Texts, LAMBDA t : t \in line.texts)], line)

-----------------------------------------------------------------------------
(* build_evidence_ledger *)

Names(given, value) == given \in {NotNamed, value}
Identified(e) == e.apk # NotNamed \/ e.package # NotNamed

Fits(e, watch) ==
  /\ Names(e.lock, watch.lock) /\ Names(e.apk, watch.apk) /\ Names(e.package, watch.package)
  /\ Identified(e) \/ Cardinality(Apks) = 1

Kind(e) ==
  CASE e.type \in {"CLASS_LOAD_SUCCESS", "CLASS_LOAD_FAILURE", "CLASS_LOAD_ATTEMPT"} -> "reflection"
    [] e.type = "NATIVE_LIBRARY_LOAD" -> "library"
    [] OTHER -> "native"

Contracts(e) ==
  {w \in NativeWatches : \/ e.symbol # NotNamed /\ e.symbol \in w.symbols
                         \/ e.contract # NotNamed /\ e.contract = w.contract}

\* Without a caller, a target of several probes stays ambiguous.
Sites(e) ==
  {w \in ProbeWatches : /\ w.requested = e.requested /\ Fits(e, w)
                        /\ \A part \in DOMAIN e.caller : Names(e.caller[part], w.caller[part])}

Joined_EverySite(e) ==
  IF Kind(e) = "native" THEN {w \in Contracts(e) : Fits(e, w)}
  ELSE IF Kind(e) = "reflection" THEN Sites(e) ELSE {}
Joined(e) ==
  IF Kind(e) = "native" THEN {w \in Contracts(e) : Fits(e, w)}
  ELSE IF Kind(e) = "reflection" /\ Cardinality(Sites(e)) = 1 THEN Sites(e) ELSE {}

Reason(e) ==
  LET candidates == IF Kind(e) = "native" THEN Contracts(e) ELSE Sites(e)
  IN  CASE Kind(e) = "reflection" /\ Cardinality(candidates) > 1 -> "ambiguous-caller-provenance"
        [] candidates # {} /\ ~Identified(e) /\ Cardinality(Apks) > 1 -> "ambiguous-artifact-provenance"
        [] e.lock \notin Locks \cup {NotNamed} -> "runtime-lock-mismatch"
        [] e.apk \notin Apks \cup {NotNamed} -> "apk-hash-mismatch"
        [] OTHER -> "no-static-contract-match"

\* A probe in two dex files shares its observations; so does an overload of nothing else.
SameSite(a, b) == a.apk = b.apk /\ a.requested = b.requested /\ a.caller = b.caller

Observed(watch) ==
  {e \in Range(events) : \E w \in Joined(e) :
     IF Kind(e) = "native" THEN w = watch ELSE "requested" \in DOMAIN watch /\ SameSite(w, watch)}

\* The first of these the observations hold: _runtime_native_state, _runtime_reflection_state.
NativeStates == <<"runtime-invoked-ok", "runtime-confirmed-miss", "runtime-dlsym-resolved",
                  "runtime-registered", "runtime-primary-lookup-miss-only">>
Shows(e, state) ==
  CASE state = "runtime-invoked-ok" -> e.type = "JNI_INVOKE_SUCCESS"
    [] state = "runtime-confirmed-miss" -> e.type \in {"JNI_INVOKE_FAILURE", "JNI_LOOKUP_MISS"} /\ e.terminal
    [] state = "runtime-dlsym-resolved" -> e.type = "JNI_DLSYM_HIT"
    [] state = "runtime-registered" -> e.type = "REGISTER_NATIVE"
    [] state = "runtime-primary-lookup-miss-only" -> e.type = "JNI_PRIMARY_LOOKUP_MISS"
    [] state = "runtime-load-success" -> e.type = "CLASS_LOAD_SUCCESS"
    [] state = "runtime-load-failure" -> e.type = "CLASS_LOAD_FAILURE"
    [] state = "runtime-load-attempted" -> e.type = "CLASS_LOAD_ATTEMPT"
LoadStates == <<"runtime-load-success", "runtime-load-failure", "runtime-load-attempted">>

RuntimeState(watch, seen) ==
  LET states == IF "requested" \in DOMAIN watch THEN LoadStates ELSE NativeStates
      shown == {i \in DOMAIN states : \E e \in seen : Shows(e, states[i])}
  IN  IF shown = {} THEN "not-observed" ELSE states[Min(shown)]

Unmatched == {<<e, Reason(e)>> : e \in {e \in Range(events) : Kind(e) # "library" /\ Joined(e) = {}}}

-----------------------------------------------------------------------------
(* The environment: an app of the portfolio runs, and its calls are traced. *)

TraceInit == scans \in Portfolios /\ events = <<>>

\* A call of the app at one of its natives or probes; the line names what it names of it.
Tells(e, scan, call) ==
  /\ Names(e.lock, scan.lock) /\ Names(e.apk, scan.apk) /\ Names(e.package, scan.package)
  /\ \/ Kind(e) = "library"
     \/ /\ "requested" \in DOMAIN call /\ Kind(e) = "reflection" /\ e.requested = call.requested
        /\ \A part \in DOMAIN e.caller : Names(e.caller[part], call.caller[part])
     \/ /\ "symbols" \in DOMAIN call /\ Kind(e) = "native" /\ Names(e.contract, call.contract)
        /\ e.symbol \in call.symbols \cup {NotNamed}

From(e, scan, call) ==
  [field \in DOMAIN NoEvent \cup {"from"} |-> IF field = "from" THEN InApp(scan, call) ELSE e[field]]

Traced(scan, call, line) ==
  Tells(Parsed(line), scan, call) /\ events' = Append(events, From(Parsed(line), scan, call))

TraceNext ==
  /\ Len(events) < MaxEvents
  /\ \E i \in DOMAIN scans : \E line \in Lines :
       \E call \in Range(scans[i].natives) \cup Range(scans[i].probes) : Traced(scans[i], call, line)
  /\ UNCHANGED scans

TraceSpec == TraceInit /\ [][TraceNext]_traceVars

-----------------------------------------------------------------------------
(* What the ledger is for *)

Watches == NativeWatches \cup ProbeWatches
\* Not one that names its package alone: of two versions of an app it is joined to both.
TellsItsApp(e) == e.apk # NotNamed \/ e.package = NotNamed

\* An event is joined to what it came from: one that names its app by hash, or that
\* names nothing (the older texts), to contracts of its app alone; a class load from a
\* watched probe site to that site or to none, whatever part of its caller it names.  So
\* the state a contract is given is one that its app was seen in, and a native call
\* that is named and joined to nothing is not said to be of no contract (_event_matches_artifact,
\* _join_reflection_events, _unmatched_reason).
JoinedToItsOwn ==
  /\ \A e \in Range(events) : (Kind(e) = "reflection" /\ e.from \in ProbeWatches) => Joined(e) \subseteq {e.from}
  /\ \A w \in Watches : \E seen \in {Observed(w)} :
       /\ \A e \in seen : TellsItsApp(e) => w.apk = e.from.apk
       /\ (RuntimeState(w, seen) # "not-observed" /\ \A e \in Range(events) : TellsItsApp(e)) =>
            \E e \in Range(events) : e.from.apk = w.apk /\ Shows(e, RuntimeState(w, seen))
  /\ \A u \in Unmatched : (u[1].from \in NativeWatches /\ {u[1].symbol, u[1].contract} # {NotNamed}) =>
       u[2] # "no-static-contract-match"
=============================================================================
