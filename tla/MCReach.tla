------------------------------ MODULE MCReach ------------------------------
(***************************************************************************)
(* A small app: Base implements the platform interface Listener, whose     *)
(* "run" the framework calls and whose "tap" a user causes, Sub            *)
(* extends Base, Main is the launcher activity, Comp a component whose     *)
(* constructor names Sub and whose meta-data may; code may also construct  *)
(* it itself.  The graphs differ in who calls, instantiates and names      *)
(* whom.                                                                   *)
(***************************************************************************)
EXTENDS Reach

MCDefined == {"Base", "Sub", "Main", "Comp"}
MCClass   == MCDefined \cup {"Object", "Listener"}
MCSuper   == [c \in MCDefined |-> IF c = "Sub" THEN "Base" ELSE "Object"]
MCIfaces  == [c \in MCDefined |-> IF c = "Base" THEN {"Listener"} ELSE {}]
MCIndex   ==
  [c \in {"Object", "Listener"} |->
     [parents |-> {}, methods |-> IF c = "Object" THEN {"go"} ELSE {"run", "tap"}]]
MCDeclared ==
  {<<"Main", "init">>, <<"Main", "go">>, <<"Base", "run">>, <<"Base", "go">>,
   <<"Base", "tap">>, <<"Sub", "go">>, <<"Comp", "init">>}

MCNoMethod == <<"none", "none">>

Main == <<"Main", "init">>
Go   == <<"Base", "go">>
Run  == <<"Base", "run">>

MCGraphs ==
  {[calls |-> [m \in MCDeclared |-> IF m = Main THEN a ELSE IF m = Go THEN b
                             ELSE {<<"Main", "run", FALSE>>}],
    news  |-> [m \in MCDeclared |-> IF m = Main THEN n ELSE IF m = Run THEN k ELSE {}],
    comps |-> [m \in MCDeclared |-> IF m \in {Main, Run} THEN d.comps
                             ELSE IF m = <<"Comp", "init">> THEN {"Sub"} ELSE {}],
    named |-> [c \in MCDefined |-> IF c = "Comp" THEN d.meta ELSE {}],
    entry |-> [i \in {0, 1} |-> IF i = 0 THEN f ELSE {"Main"}]] :
   a \in {{<<"Base", "go", TRUE>>} \cup x : x \in SUBSET {<<"Main", "go", FALSE>>}},
   b \in {{}, {<<"Listener", "run", TRUE>>}, {<<"Listener", "run", TRUE>>, <<"Base", "go", TRUE>>}},
   n \in {{}, {"Base"}, {"Base", "Sub"}}, k \in {{}, {"Sub"}, {"Comp"}},
   d \in {[comps |-> {}, meta |-> {}]} \cup [comps : {{"Comp"}}, meta : {{}, {"Sub"}}],
   f \in {{}, {"Base"}}}
=============================================================================
