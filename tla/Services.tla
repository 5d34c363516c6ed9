------------------------------ MODULE Services ------------------------------
(***************************************************************************)
(* The system services of the gap map (services.py, service_rows): what    *)
(* Android's fetcher of a service needs, what the Westlake source provides *)
(* of it, and what an app that asks for it gets.                           *)
(*                                                                         *)
(* The sources are read into records.  Android's, A: the registrations of  *)
(* SystemServiceRegistry and of the initializers in their order, the       *)
(* binders each manager's source asks for, the methods that unwrap lists,  *)
(* and per framework class what each method fetches, calls and checks.     *)
(* Westlake's, W: the lines of OHServiceManager's switch, and the names    *)
(* each other place publishes.                                             *)
(***************************************************************************)
EXTENDS Naturals, SequencesExt, FiniteSetsExt

CONSTANTS A, W,
  Mapped  \* services with an analog among OpenHarmony's subsystems

Local == {"layout_inflater"}
NullTolerant == {"accessibility", "autofill", "credential", "content_capture", "textclassification"}
HelperBinders ==
  [phone |-> "phone", sensor |-> "sensorservice", vibrator |-> "vibrator_manager", download |-> "downloads"]
LaterOnly == {"alarm"}

Binder(name, required, lazy) == [name |-> name, required |-> required, lazy |-> lazy]
First(items, name) == items[SelectInSeq(items, LAMBDA i : i.name = name)]
NamesIn(items) == {i.name : i \in Range(items)}

-----------------------------------------------------------------------------
(* aosp_service_table: the first registration of a name counts, and an     *)
(* initializer's only where the registry has none.                         *)

Registered == NamesIn(A.registry) \cup NamesIn(A.initializers)

Contract(name) ==
  IF name \in NamesIn(A.registry)
  THEN LET r == First(A.registry, name)
       IN  [manager |-> r.manager, binders |-> r.binders, canFail |-> r.canFail]
  ELSE LET i == First(A.initializers, name)
       IN  [manager |-> i.manager, canFail |-> i.takesBinder,
            binders |-> IF i.takesBinder THEN <<Binder(name, TRUE, FALSE)>> ELSE <<>>]

\* Binders the fetcher does not name: the manager's own source, or a helper class.
Lazy(manager) == IF manager \in DOMAIN A.lazy THEN A.lazy[manager] ELSE <<>>
Binders(name) ==
  LET own == Contract(name).binders   lazy == Lazy(Contract(name).manager)
  IN  IF own # <<>> THEN own
      ELSE IF lazy # <<>> THEN lazy
      ELSE IF name \in DOMAIN HelperBinders THEN <<Binder(HelperBinders[name], FALSE, TRUE)>>
      ELSE <<>>

\* Public methods that hand on what getList() of the binder's answer gives; JobSchedulerImpl's too.
Unwrapping(manager) ==
  IF manager \in DOMAIN A.unwraps THEN A.unwraps[manager] ELSE {}

-----------------------------------------------------------------------------
(* westlake_service_model *)

Provision(name, kind, lists) == [name |-> name, kind |-> kind, emptyLists |-> lists]

\* The switch of lookupAdapter: cases wait for the return that answers them all.
SwitchKind == [null |-> "explicit-null", conditional |-> "adapter-conditional", adapter |-> "adapter"]
Adapters ==
  LET Step(line, acc) ==
        CASE line.is = "case" -> [acc EXCEPT !.waiting = Append(@, line.name)]
          [] line.is = "return" -> [waiting |-> <<>>, found |-> acc.found \o
               [i \in DOMAIN acc.waiting |-> Provision(acc.waiting[i], SwitchKind[line.answer], FALSE)]]
          [] line.is = "default" -> [acc EXCEPT !.waiting = <<>>]
          [] OTHER -> acc
  IN  FoldLeft(LAMBDA acc, line : Step(line, acc), [waiting |-> <<>>, found |-> <<>>], W.switch).found

Each(names, kind, lists) == [i \in DOMAIN names |-> Provision(names[i], kind, lists)]

\* A local binder whose every call answers the default: an absence a comment states, or,
\* for what is delivered later, nothing at all.
DeviceAnswers == SelectSeq(W.defaults, LAMBDA d : d.absence)
Undelivered == SelectSeq(W.defaults, LAMBDA d : d.name \in LaterOnly)
Named(items) == [i \in DOMAIN items |-> items[i].name]

\* An adapter's own binder: one whose fallback throws is strict.
Published ==
  [i \in DOMAIN W.published |->
     Provision(W.published[i].name, IF W.published[i].throws THEN "strict-proxy" ELSE "cached-binder", FALSE)]

Provisions ==
  Adapters \o Each(W.seeds, "hollow-binder", FALSE) \o Each(W.replaced, "local-impl", FALSE)
  \o Each(W.fetchers, "local-fetcher", FALSE) \o Each(W.cached, "cached-binder", FALSE) \o Published
  \o Each(W.audio, "hollow-proxy", FALSE) \o Each(W.jobs, "hollow-proxy", W.jobsAnswerEmpty)
  \o Each(W.local, "cached-binder", W.localAnswerEmpty)
  \o Each(Named(DeviceAnswers), "device-answer", FALSE) \o Each(Named(Undelivered), "hollow-proxy", FALSE)

Of(name) == SelectSeq(Provisions, LAMBDA p : p.name = name)
Kinds(name) == {p.kind : p \in Range(Of(name))}

\* The strongest provision but that a hollow fetcher or a strict proxy covers what is beneath.
Real == {"local-impl", "adapter", "cached-binder", "adapter-conditional", "local-fetcher", "device-answer"}
ProvisionVerdict(kinds) ==
  IF "hollow-proxy" \in kinds THEN "hollow"
  ELSE IF "strict-proxy" \in kinds THEN "strict"
  ELSE IF kinds \cap Real # {} THEN "supplied"
  ELSE IF "hollow-binder" \in kinds THEN "hollow"
  ELSE "null"

-----------------------------------------------------------------------------
(* service_map *)

Order == [null |-> 0, inert |-> 1, strict |-> 2, hollow |-> 2, unresolved |-> 3, supplied |-> 4]

\* The manager's own binder decides over those it reaches lazily.
Deciding(name, binders) ==
  SelectSeq(binders, LAMBDA b : (name \in NamesIn(binders) /\ b.lazy) => b.name = name)

\* A binder that nothing provides and the manager can do without.
Inert(b) == ProvisionVerdict(Kinds(b.name)) = "null" /\ ~b.required
BinderVerdict(b) == IF Inert(b) THEN "inert" ELSE ProvisionVerdict(Kinds(b.name))

\* The provision of its own name decides a fetcher that is replaced, or that needs no binder.
OwnDecides(name) ==
  \/ Kinds(name) \cap {"local-fetcher", "hollow-proxy"} # {}
  \/ Kinds(name) # {} /\ Binders(name) = <<>>

\* Else the weakest binder; strict and hollow weigh the same, and of equals the first stands.
Weakest(binders) ==
  LET weight(i) == Order[BinderVerdict(binders[i])]
  IN  binders[CHOOSE i \in DOMAIN binders :
                \A j \in DOMAIN binders : weight(i) < weight(j) \/ (weight(i) = weight(j) /\ i <= j)]

ServiceVerdict(name) ==
  IF name \notin Registered THEN "not-a-platform-service"
  ELSE IF OwnDecides(name) THEN ProvisionVerdict(Kinds(name))
  ELSE IF Binders(name) # <<>> THEN BinderVerdict(Weakest(Deciding(name, Binders(name))))
  ELSE IF name \in Local THEN "supplied"
  ELSE "unresolved"

DeviceAnswer(name) ==
  /\ ServiceVerdict(name) = "supplied"
  /\ \E n \in {name} \cup NamesIn(Binders(name)) : "device-answer" \in Kinds(n)

-----------------------------------------------------------------------------
(* The services that framework methods fetch themselves: helpers of the    *)
(* class are followed three deep (_implicit_service_census), as they are   *)
(* from UserManager's methods to its service (user_manager_census).        *)

Depth == 3
Helpers(class, method) ==
  LET deep[n \in 0 .. Depth] ==
        IF n = 0 THEN {method} ELSE deep[n - 1] \cup UNION {class[m].calls : m \in deep[n - 1]}
  IN  deep[Depth]

Fetched(class, method) == UNION {class[m].fetches : m \in Helpers(class, method)}
BinderChecked(class, method) ==
  \/ class[method].checks
  \/ \E m \in Helpers(class, method) : class[m].fetches # {} /\ class[m].checks

\* A manager's own methods are left to its row.
ImplicitRequests(app) ==
  {[service |-> r[2], method |-> r[1], checked |-> BinderChecked(A.classes[r[1][1]], r[1][2])] :
     r \in {q \in app.calls \X Registered : LET d == q[1] IN
        /\ d[1] \in DOMAIN A.classes /\ d[2] \in DOMAIN A.classes[d[1]] /\ A.classes[d[1]][d[2]].public
        /\ d[1] \notin {Contract(n).manager : n \in Registered}
        /\ q[2] \in Fetched(A.classes[d[1]], d[2])}}

-----------------------------------------------------------------------------
(* service_rows *)

Row(category, id, verdict, effort) == [category |-> category, id |-> id, verdict |-> verdict, effort |-> effort]

Size(n, small, medium, large) == IF n <= 3 THEN small ELSE IF n <= 15 THEN medium ELSE large

\* A request names the service, or the class of its manager; a computed name asks for none.
Asked(r) ==
  IF r.service # "" THEN {r.service} ELSE {n \in Registered : Contract(n).manager = r.manager}
Requested(app) ==
  UNION {Asked(r) : r \in app.requests} \cup {i.service : i \in ImplicitRequests(app)}
ManagerCalls(app, name) == {c[2] : c \in {c \in app.calls : c[1] = Contract(name).manager}}

\* A hollow answer throws within the framework where its list is unwrapped, but not an empty list.
HollowBasis(of) ==
  LET proxies == SelectSeq(of, LAMBDA p : p.kind = "hollow-proxy")
  IN  Head(proxies \o SelectSeq(of, LAMBDA p : p.kind = "hollow-binder"))
ThrowsInFramework(app, name) ==
  LET basis == HollowBasis(Of(IF OwnDecides(name) THEN name ELSE Weakest(Deciding(name, Binders(name))).name))
  IN  IF basis.emptyLists THEN {} ELSE ManagerCalls(app, name) \cap Unwrapping(Contract(name).manager)

\* So does the binder itself, fetched and called unchecked where there is none.
FetchThrows(app, name) ==
  {i.method : i \in {i \in ImplicitRequests(app) : Of(name) = <<>> /\ i.service = name /\ ~i.checked}}
Throws(app, name, verdict) ==
  CASE verdict = "hollow" -> ThrowsInFramework(app, name) # {}
    [] verdict \in {"null", "inert"} -> FetchThrows(app, name) # {}
    [] OTHER -> FALSE

LeastEffort(name, verdict, n) ==
  CASE verdict \in {"supplied", "unresolved"} -> "verify"
    [] verdict = "inert" /\ name \in NullTolerant -> "none"
    [] verdict = "strict" -> "S"
    [] verdict = "hollow" -> Size(n, "S", "M", "M")
    [] verdict = "null" \/ (verdict = "inert" /\ name \notin NullTolerant) ->
         IF name \in Mapped THEN Size(n, "S", "M", "L") ELSE "S"
    [] OTHER -> "none"
Raised(effort, throws) == IF throws /\ effort \in {"none", "verify"} THEN "S" ELSE effort

ServiceRow(app, name, verdict) ==
  Row("system-services", <<"svc", name>>, verdict,
      Raised(LeastEffort(name, verdict, Cardinality(ManagerCalls(app, name))), Throws(app, name, verdict)))
  @@ [device |-> name \in Registered /\ DeviceAnswer(name)]
ServiceRows(app) == {ServiceRow(app, s, ServiceVerdict(s)) : s \in Requested(app)}

-----------------------------------------------------------------------------
(* Services asked for by no request. *)

\* Build.getSerial asks device_identifiers itself.
DeviceIdentifierRows(app) ==
  LET supplied == Kinds("device_identifiers") \ {"explicit-null"} # {}
  IN  IF <<"Build", "getSerial">> \notin app.calls THEN {}
      ELSE {Row("system-services", <<"svc", "device_identifiers">>,
                IF supplied THEN "supplied" ELSE "null", IF supplied THEN "verify" ELSE "XS")}

\* UserManager's calls that reach a method the in-process user service throws for.
UserServiceRows(app) ==
  LET class == A.userManager
      open == {c \in app.calls : /\ c[1] = "UserManager" /\ c[2] \in DOMAIN class
                                 /\ ~(Fetched(class, c[2]) \subseteq W.userAnswers)}
  IN  IF W.userThrows /\ open # {}
      THEN {Row("system-services", <<"svc", "user-unanswered">>, "missing", "S")} ELSE {}
=============================================================================
