------------------------------ MODULE MCTrace ------------------------------
(***************************************************************************)
(* One app with its probes, or two versions of it, or two apps.            *)
(***************************************************************************)
EXTENDS Trace, TLC

Native(contract, dex) == [contract |-> contract, dex |-> dex, symbols |-> {"Java_n"}, class |-> "CU", state |-> "unresolved"]
Probe(method, signature, dex) ==
  [requested |-> "T", dex |-> dex, caller |-> [class |-> "C", method |-> method, signature |-> signature]]
TracedApp(apk, package, natives, probes) ==
  [apk |-> apk, package |-> package, lock |-> "rt", natives |-> natives, probes |-> probes]
Probes1 == {<<>>, <<Probe("m", "i", "d1"), Probe("k", "i", "d1")>>, <<Probe("m", "i", "d1"), Probe("m", "j", "d1")>>,
           <<Probe("m", "i", "d1"), Probe("m", "i", "d2")>>}
Natives1 == {<<Native("n", "d1")>>, <<Native("n", "d1"), [Native("k", "d1") EXCEPT !.class = "C0"]>>}
MCPortfolios ==
  {<<TracedApp("v1", "p", n, p)>> : n \in Natives1, p \in Probes1} \cup
  {<<TracedApp("v1", "p", n, p), TracedApp("v2", q, n, r)>> : n \in Natives1, p \in Probes1, q \in {"p", "q"}, r \in Probes1}
Event(type) == [NoEvent EXCEPT !.type = type]
Named(apk, package) == [event : {[e EXCEPT !.apk = apk, !.package = package] : e \in
   {[Event("JNI_INVOKE_SUCCESS") EXCEPT !.contract = "n"], Event("NATIVE_LIBRARY_LOAD"), [Event("CLASS_LOAD_SUCCESS") EXCEPT !.requested = "T"],
   [Event("CLASS_LOAD_ATTEMPT") EXCEPT !.requested = "T", !.caller.class = "C", !.caller.method = "m"],
   [Event("CLASS_LOAD_FAILURE") EXCEPT !.requested = "T", !.caller = Probe("m", "i", "d1").caller]}},
   texts : {{"structured"}}]
MCLines == UNION {Named(a, p) : a \in {NotNamed, "v1"}, p \in {NotNamed, "p"}} \cup
  [texts : {{"dlsym"}, {"terminal", "primary"}, {"primary"}, {"registry"}}, symbol : {"Java_n"}, contract : {"n"},
   pretty : {"n", NotNamed}]
=============================================================================
