------------------------------ MODULE MCProbes ------------------------------
(***************************************************************************)
(* A probe with two pass markers, the first of which says where to tap,    *)
(* and one that prints a contract and that its log or its hilog can fail.  *)
(***************************************************************************)
EXTENDS Probes

MCProbe   == {"dialog", "gl"}
MCPassing == [p \in MCProbe |-> IF p = "dialog" THEN {"shown", "clicked"} ELSE {"done"}]
MCFailing == [p \in MCProbe |-> IF p = "dialog" THEN {} ELSE {"fail"}]
MCTapMark == [p \in MCProbe |-> IF p = "dialog" THEN {"shown"} ELSE {}]
MCPrints  == [p \in MCProbe |-> IF p = "dialog" THEN {} ELSE Contract]
=============================================================================
